------------------------ MODULE ReviewHandoffProofs ------------------------
(***************************************************************************)
(* Theorems about ReviewHandoff for any number of connections, envelopes,  *)
(* deliveries and operations: what the browser stores and what VS Code     *)
(* holds never contradict each other.                                      *)
(*                                                                         *)
(* They rest on HandoffInvariant, which says of every message under way,   *)
(* in either direction, what it still tells the truth about.               *)
(***************************************************************************)
EXTENDS ReviewHandoff, SequenceTheorems, TLAPS

----------------------------------------------------------------------------
(* The inductive invariant                                                 *)

Decisions == [request : Requests, verdict : Verdicts]
ToBridgeMessages == [type : Kinds \union {"authenticate", "pair_request", "ack"}, id : Nat]
ToClientMessages ==
  [type : {"authenticated", "pair_success", "error", "ack", "implementation_review_envelope"}, id : Nat]

ToBridgeType == toBridge \in [Conns -> Seq(ToBridgeMessages)]
ToClientType == toClient \in [Conns -> Seq(ToClientMessages)]

ReviewTypes ==
  /\ {pendingDelivery, latestAcknowledgedDelivery} \subseteq Maybe(Deliveries)
  /\ latestReviewRequest \in Maybe(Requests)
  /\ latestReviewDecision \in Maybe(Decisions)
  /\ delivery \in [Deliveries -> [envelope : Maybe(Envelopes),
                                  promise : {"none", "pending", "acknowledged", "rejected"}]]

Types == TypeOK /\ ToBridgeType /\ ToClientType /\ ReviewTypes

Sent(d) == delivery[d].promise # "none"

\* Operation i has left the popup.
Issued(i) == operations[i].promise \notin {"none", "preparing"}

Carries(channel, message) ==
  \E c \in Conns : \E p \in 1..Len(channel[c]) : channel[c][p] = message

EnvelopeUnderWay == \E d \in Nat : Carries(toClient, Message("implementation_review_envelope", d))

\* The bridge has accepted request or decision i, and the client does not know.
Answered(i, kind) == operations[i].kind = kind /\ Carries(toClient, Message("ack", i))

\* The client receives on the socket it has open and on no other.
OneEnd ==
  \A c \in Conns : /\ webSocket[c] = "open" => c = socket
                   /\ toClient[c] # <<>> => webSocket[c] = "open"

\* Deliveries are sent in order, one at a time; a review needs one that is
\* acknowledged.
DeliveriesInTurn ==
  /\ \A d \in Deliveries : Sent(d) => \A p \in 1..(d - 1) : Sent(p)
  /\ pendingDelivery # None =>
       /\ Sent(pendingDelivery) /\ latestAcknowledgedDelivery = None
       /\ \A d \in Deliveries : d > pendingDelivery => ~Sent(d)
  /\ latestAcknowledgedDelivery = None => latestReviewRequest = None /\ latestReviewDecision = None
  /\ \A d \in Deliveries : d \in storing \/ Carries(toBridge, Message("ack", d)) => Sent(d)
  /\ \A d \in Nat : Carries(toClient, Message("implementation_review_envelope", d)) =>
       d \in Deliveries /\ Sent(d)

\* Slots and messages name operations that were sent, by themselves.
OperationsSent ==
  /\ \A i \in Operations : /\ operations[i].promise = "preparing" => operations[i].kind \in Kinds
                           /\ i \in accepted => Issued(i)
  /\ \A k \in Kinds : pending[k] # None => operations[pending[k]].kind = k /\ Issued(pending[k])
  /\ \A k \in Kinds, i \in Nat : Carries(toBridge, Message(k, i)) =>
       /\ i \in Operations /\ operations[i].kind = k
       /\ Issued(i) /\ i \notin accepted
       /\ k = "review_request" => operations[i].request.number = i
  /\ \A i \in Nat : Carries(toClient, Message("ack", i)) =>
       i \in Operations /\ Issued(i) /\ i \in accepted

\* An operation is sent once.
SentOnce ==
  \A c, b \in Conns : \A p \in 1..Len(toBridge[c]), q \in 1..Len(toBridge[b]) :
    toBridge[c][p] = toBridge[b][q] /\ toBridge[c][p].type \in Kinds => c = b /\ p = q

\* A review that is repeated or decided upon was accepted.  A decision is about
\* the stored request, or one that the bridge will not take for its own again.
ReviewsAccepted ==
  /\ storage.request # None => storage.request.number \in accepted
  /\ \A i \in Operations :
       /\ operations[i].kind = "review_request" =>
            /\ operations[i].request \in Requests
            /\ operations[i].request.number \in accepted \union {i}
       /\ operations[i].kind = "review_decision" =>
            /\ operations[i].request \in Requests /\ operations[i].verdict \in Verdicts
            /\ operations[i].request.number \in accepted
            /\ operations[i].request = storage.request \/ operations[i].request # latestReviewRequest

\* On the way to the client, deliveries are in order, and no answer to a review
\* follows an envelope.
ChannelInOrder ==
  \A c \in Conns : \A q \in 1..Len(toClient[c]) : \A p \in 1..(q - 1) :
    toClient[c][p].type = "implementation_review_envelope" =>
      /\ toClient[c][q].type = "implementation_review_envelope" =>
           toClient[c][p].id < toClient[c][q].id
      /\ toClient[c][q].type = "ack" => operations[toClient[c][q].id].kind \notin ReviewKinds

\* An answer under way is about the envelope and the request that are stored.
AnswersBelong ==
  \A i \in Operations :
    /\ Answered(i, "review_request") =>
         /\ operations[i].request.envelope = storage.envelope
         /\ storage.request \in {None, operations[i].request}
         /\ \A j \in Operations : Answered(j, "review_request") =>
              operations[j].request = operations[i].request
    /\ Answered(i, "review_decision") => storage.request = operations[i].request

\* While the acknowledgement of the pending delivery is on its way, the browser
\* holds its envelope and nothing else.
AcknowledgementHolds ==
  pendingDelivery # None
    /\ (pendingDelivery \in storing \/ Carries(toBridge, Message("ack", pendingDelivery))) =>
    /\ ~EnvelopeUnderWay
    /\ \A i \in Operations : \A k \in ReviewKinds : ~Answered(i, k)
    /\ storage.envelope = delivery[pendingDelivery].envelope
    /\ storage.request = None /\ storage.decision = None

\* Once a delivery is acknowledged, the browser holds its envelope, and what it
\* will hold of the review is what the bridge holds.
AcknowledgedHolds ==
  latestAcknowledgedDelivery # None =>
    /\ ~EnvelopeUnderWay
    /\ storage.envelope = delivery[latestAcknowledgedDelivery].envelope
    /\ storage.request \in {None, latestReviewRequest}
    /\ storage.decision \in {None, latestReviewDecision}
    /\ \A i \in Operations :
         /\ Answered(i, "review_request") => operations[i].request = latestReviewRequest
         /\ Answered(i, "review_decision") =>
              latestReviewDecision = [request |-> operations[i].request,
                                      verdict |-> operations[i].verdict]

HandoffInvariant ==
  /\ Types /\ OneEnd
  /\ DeliveriesInTurn /\ OperationsSent /\ SentOnce /\ ReviewsAccepted
  /\ ChannelInOrder /\ AnswersBelong /\ AcknowledgementHolds /\ AcknowledgedHolds
  /\ StoredReviewBelongs /\ ResolvedWasAccepted

----------------------------------------------------------------------------
(* Channels                                                                *)

\* new is what is left of old, or old followed by message.
Flow(old, new, message) ==
  \/ \E k \in 0..Len(old) : Len(new) = Len(old) - k /\ \A q \in 1..Len(new) : new[q] = old[q + k]
  \/ /\ Len(new) = Len(old) + 1 /\ new[Len(new)] = message
     /\ \A q \in 1..Len(old) : new[q] = old[q]

LEMMA FlowKeep ==
  ASSUME NEW S, NEW old \in Seq(S), NEW message
  PROVE  Flow(old, old, message)
  BY DEF Flow

LEMMA FlowEmpty ==
  ASSUME NEW S, NEW old \in Seq(S), NEW message
  PROVE  Flow(old, <<>>, message)
  BY DEF Flow

LEMMA FlowTail ==
  ASSUME NEW S, NEW old \in Seq(S), old # <<>>, NEW message
  PROVE  Flow(old, Tail(old), message) /\ Tail(old) \in Seq(S)
  <1>1. /\ Tail(old) \in Seq(S) /\ Len(Tail(old)) = Len(old) - 1
        /\ \A i \in 1..Len(Tail(old)) : Tail(old)[i] = old[i + 1]
    BY HeadTailProperties
  <1>2. 1 \in 0..Len(old)
    OBVIOUS
  <1> QED
    BY <1>1, <1>2 DEF Flow

LEMMA FlowAppend ==
  ASSUME NEW S, NEW old \in Seq(S), NEW message \in S
  PROVE  Flow(old, Append(old, message), message) /\ Append(old, message) \in Seq(S)
  BY AppendProperties DEF Flow

ClientFlow(message) == \A b \in Conns : Flow(toClient[b], toClient'[b], message)
BridgeFlow(message) == \A b \in Conns : Flow(toBridge[b], toBridge'[b], message)

\* At most a greeting is sent.
BridgeGreets == \E g \in Greetings : BridgeFlow(g)

LEMMA GreetingIs ==
  /\ Message("authenticate", 0) \in Greetings
  /\ \A g \in Greetings : g \in ToBridgeMessages /\ g.type \in {"authenticate", "pair_request"}
  BY HandoffAssumption DEF Message, Greetings, ToBridgeMessages

LEMMA GreetsIfAny ==
  ASSUME \A m : BridgeFlow(m)
  PROVE  BridgeGreets
  BY GreetingIs DEF BridgeGreets

LEMMA ClientKeeps ==
  ASSUME ToClientType, UNCHANGED toClient
  PROVE  ToClientType' /\ \A message : ClientFlow(message)
  BY FlowKeep DEF ToClientType, ClientFlow

LEMMA BridgeKeeps ==
  ASSUME ToBridgeType, UNCHANGED toBridge
  PROVE  ToBridgeType' /\ (\A message : BridgeFlow(message)) /\ BridgeGreets
  <1>1. ToBridgeType' /\ \A message : BridgeFlow(message)
    BY FlowKeep DEF ToBridgeType, BridgeFlow
  <1> QED
    BY <1>1, GreetsIfAny

LEMMA ConsumeFlows ==
  ASSUME ToClientType, NEW c \in Conns, toClient[c] # <<>>, Consume(c)
  PROVE  /\ ToClientType' /\ \A message : ClientFlow(message)
         /\ \A b \in Conns \ {c} : toClient'[b] = toClient[b]
         /\ toClient'[c] = Tail(toClient[c])
  <1>1. /\ \A b \in Conns \ {c} : toClient'[b] = toClient[b]
        /\ toClient'[c] = Tail(toClient[c])
        /\ toClient' = [b \in Conns |-> IF b = c THEN Tail(toClient[c]) ELSE toClient[b]]
    BY DEF Consume, ToClientType
  <1>2. Tail(toClient[c]) \in Seq(ToClientMessages)
        /\ \A message : Flow(toClient[c], Tail(toClient[c]), message)
    <2>1. PICK old \in Seq(ToClientMessages) : old = toClient[c]
      BY DEF ToClientType
    <2> QED
      BY <2>1, FlowTail
  <1>3. ToClientType'
    BY <1>1, <1>2 DEF ToClientType
  <1>4. \A message : ClientFlow(message)
    BY <1>1, <1>2, FlowKeep DEF ToClientType, ClientFlow
  <1> QED
    BY <1>1, <1>3, <1>4

LEMMA CloseFlows ==
  ASSUME ToClientType, CloseSocket
  PROVE  ToClientType' /\ \A message : ClientFlow(message)
  <1>1. <<>> \in Seq(ToClientMessages)
    BY EmptySeq
  <1>2. toClient' = [c \in Conns |-> IF c = socket THEN <<>> ELSE toClient[c]]
    BY DEF CloseSocket
  <1>3. ToClientType'
    BY <1>1, <1>2 DEF ToClientType
  <1>4. \A message : ClientFlow(message)
    BY <1>2, FlowKeep, FlowEmpty DEF ToClientType, ClientFlow
  <1> QED
    BY <1>3, <1>4

LEMMA SendFlows ==
  ASSUME ToBridgeType, NEW message \in ToBridgeMessages, Send(message)
  PROVE  ToBridgeType' /\ BridgeFlow(message)
  <1>1. toBridge' = [b \in Conns |-> IF b = socket THEN Append(toBridge[b], message) ELSE toBridge[b]]
    BY DEF Send, ToBridgeType
  <1>2. \A b \in Conns : Append(toBridge[b], message) \in Seq(ToBridgeMessages)
                         /\ Flow(toBridge[b], Append(toBridge[b], message), message)
    BY FlowAppend DEF ToBridgeType
  <1>3. ToBridgeType'
    BY <1>1, <1>2 DEF ToBridgeType
  <1>4. BridgeFlow(message)
    BY <1>1, <1>2, FlowKeep DEF ToBridgeType, BridgeFlow
  <1> QED
    BY <1>3, <1>4

LEMMA ReplyFlows ==
  ASSUME ToClientType, NEW message \in ToClientMessages, NEW c, Reply(c, message)
  PROVE  /\ ToClientType' /\ ClientFlow(message)
         /\ \A b \in Conns : toClient'[b] = toClient[b] \/ webSocket[b] = "open"
  <1>1. toClient' = [b \in Conns |->
                      IF readyState[c] = "open" /\ webSocket[c] = "open" /\ b = c
                      THEN Append(toClient[b], message) ELSE toClient[b]]
    BY DEF Reply, ToClientType
  <1>2. \A b \in Conns : Append(toClient[b], message) \in Seq(ToClientMessages)
                         /\ Flow(toClient[b], Append(toClient[b], message), message)
    BY FlowAppend DEF ToClientType
  <1>3. ToClientType'
    BY <1>1, <1>2 DEF ToClientType
  <1>4. ClientFlow(message)
    BY <1>1, <1>2, FlowKeep DEF ToClientType, ClientFlow
  <1>5. \A b \in Conns : toClient'[b] = toClient[b] \/ webSocket[b] = "open"
    BY <1>1
  <1> QED
    BY <1>3, <1>4, <1>5

LEMMA HearsFlows ==
  ASSUME ToBridgeType, NEW c \in Conns, NEW message, Hears(c, message)
  PROVE  /\ ToBridgeType' /\ (\A m : BridgeFlow(m)) /\ BridgeGreets
         /\ \A b \in Conns \ {c} : toBridge'[b] = toBridge[b]
         /\ toBridge'[c] = Tail(toBridge[c])
         /\ toBridge[c] # <<>> /\ toBridge[c][1] = message
  <1>1. /\ \A b \in Conns \ {c} : toBridge'[b] = toBridge[b]
        /\ toBridge'[c] = Tail(toBridge[c])
        /\ toBridge' = [b \in Conns |-> IF b = c THEN Tail(toBridge[c]) ELSE toBridge[b]]
        /\ toBridge[c] # <<>> /\ Head(toBridge[c]) = message
    BY DEF Hears, ToBridgeType
  <1>2. /\ Tail(toBridge[c]) \in Seq(ToBridgeMessages)
        /\ \A m : Flow(toBridge[c], Tail(toBridge[c]), m)
        /\ Head(toBridge[c]) = toBridge[c][1]
    <2>1. PICK old \in Seq(ToBridgeMessages) : old = toBridge[c]
      BY DEF ToBridgeType
    <2> QED
      BY <1>1, <2>1, FlowTail
  <1>3. ToBridgeType'
    BY <1>1, <1>2 DEF ToBridgeType
  <1>4. \A m : BridgeFlow(m)
    BY <1>1, <1>2, FlowKeep DEF ToBridgeType, BridgeFlow
  <1> QED
    BY <1>1, <1>2, <1>3, <1>4, GreetsIfAny

\* What is carried after the step was carried before it, or is the new message.
LEMMA ClientFlowCarries ==
  ASSUME ToClientType, ToClientType', NEW message, ClientFlow(message), NEW m,
         Carries(toClient, m)'
  PROVE  m = message \/ Carries(toClient, m)
  <1>1. PICK c \in Conns : \E q \in 1..Len(toClient'[c]) : toClient'[c][q] = m
    BY DEF Carries
  <1>2. PICK q \in 1..Len(toClient'[c]) : toClient'[c][q] = m
    BY <1>1
  <1>3. toClient[c] \in Seq(ToClientMessages) /\ toClient'[c] \in Seq(ToClientMessages)
    BY DEF ToClientType
  <1>4. m = message \/ \E p \in 1..Len(toClient[c]) : toClient[c][p] = m
    BY <1>2, <1>3 DEF ClientFlow, Flow
  <1> QED
    BY <1>4 DEF Carries

LEMMA BridgeFlowCarries ==
  ASSUME ToBridgeType, ToBridgeType', NEW message, BridgeFlow(message), NEW m,
         Carries(toBridge, m)'
  PROVE  m = message \/ Carries(toBridge, m)
  <1>1. PICK c \in Conns : \E q \in 1..Len(toBridge'[c]) : toBridge'[c][q] = m
    BY DEF Carries
  <1>2. PICK q \in 1..Len(toBridge'[c]) : toBridge'[c][q] = m
    BY <1>1
  <1>3. toBridge[c] \in Seq(ToBridgeMessages) /\ toBridge'[c] \in Seq(ToBridgeMessages)
    BY DEF ToBridgeType
  <1>4. m = message \/ \E p \in 1..Len(toBridge[c]) : toBridge[c][p] = m
    BY <1>2, <1>3 DEF BridgeFlow, Flow
  <1> QED
    BY <1>4 DEF Carries

----------------------------------------------------------------------------
(* Quiet steps: connections come and go, messages get lost or are refused, *)
(* calls of the popup end.  They disturb nothing of the review.            *)

Noise == {Message("authenticated", 0), Message("error", 0)} \union {Message("pair_success", n) : n \in Nat}

StorageSame ==
  /\ storage'.envelope = storage.envelope /\ storage'.request = storage.request
  /\ storage'.decision = storage.decision

\* The bridge holds the same review; the pending delivery may be given up.
ReviewSame ==
  /\ UNCHANGED <<latestAcknowledgedDelivery, latestReviewRequest, latestReviewDecision>>
  /\ pendingDelivery' \in {None, pendingDelivery}
  /\ \A d \in Deliveries : /\ delivery'[d].envelope = delivery[d].envelope
                           /\ delivery'[d].promise # "none" <=> delivery[d].promise # "none"

\* Of the operations only promises and timers change; a request resolves if it
\* repeats another.
OperationsSame ==
  \A i \in Operations :
    /\ operations'[i].kind = operations[i].kind
    /\ operations'[i].request = operations[i].request
    /\ operations'[i].verdict = operations[i].verdict
    /\ operations[i].promise \notin {"none", "preparing"} =>
         operations'[i].promise \notin {"none", "preparing"}
    /\ operations'[i].promise = "preparing" => operations[i].promise = "preparing"
    /\ operations'[i].promise = "resolved" =>
         \/ operations[i].promise = "resolved"
         \/ operations[i].kind = "review_request" /\ operations[i].request.number # i

SlotsSame == \A k \in Kinds : pending'[k] \in {None, pending[k]}

\* The client receives nothing new that matters, and what is stored and held
\* stays.
Undisturbed ==
  /\ StorageSame /\ ReviewSame /\ OperationsSame
  /\ accepted' = accepted
  /\ \E noise \in Noise : ClientFlow(noise)

Quiet ==
  /\ Undisturbed /\ SlotsSame
  /\ storing' \subseteq storing
  /\ BridgeGreets

\* Each kind of message that matters is carried after a quiet step only if it
\* was before.
LEMMA UndisturbedCarries ==
  ASSUME Types, Types', Undisturbed
  PROVE  /\ \A d : Carries(toClient, Message("implementation_review_envelope", d))' =>
                   Carries(toClient, Message("implementation_review_envelope", d))
         /\ \A i : Carries(toClient, Message("ack", i))' => Carries(toClient, Message("ack", i))
  <1>1. PICK noise \in Noise : ClientFlow(noise)
    BY DEF Undisturbed
  <1>2. ToClientType /\ ToClientType'
    BY DEF Types
  <1>3. \A m : Carries(toClient, m)' => m = noise \/ Carries(toClient, m)
    BY <1>1, <1>2, ClientFlowCarries
  <1>4. \A i : /\ Message("implementation_review_envelope", i) # noise
               /\ Message("ack", i) # noise
    BY DEF Noise, Message
  <1> QED
    BY <1>3, <1>4

LEMMA QuietCarries ==
  ASSUME Types, Types', Quiet
  PROVE  /\ \A d : Carries(toBridge, Message("ack", d))' => Carries(toBridge, Message("ack", d))
         /\ \A k \in Kinds : \A i : Carries(toBridge, Message(k, i))' => Carries(toBridge, Message(k, i))
  <1>1. ToBridgeType /\ ToBridgeType'
    BY DEF Types
  <1>0. PICK g \in Greetings : BridgeFlow(g)
    BY DEF Quiet, BridgeGreets
  <1>2. \A m : Carries(toBridge, m)' => m = g \/ Carries(toBridge, m)
    BY <1>0, <1>1, BridgeFlowCarries
  <1>3. \A i : /\ Message("ack", i) # g
               /\ \A k \in Kinds : Message(k, i) # g
    BY GreetingIs DEF Message, Kinds
  <1> QED
    BY <1>2, <1>3

LEMMA QuietDeliveries ==
  ASSUME Types, Types', Quiet, DeliveriesInTurn
  PROVE  DeliveriesInTurn'
  <1>0. Undisturbed
    BY DEF Quiet
  <1>1. /\ \A d \in Deliveries : Sent(d)' <=> Sent(d)
        /\ UNCHANGED <<latestAcknowledgedDelivery, latestReviewRequest, latestReviewDecision>>
        /\ pendingDelivery' \in {None, pendingDelivery} /\ storing' \subseteq storing
    BY DEF Quiet, Undisturbed, ReviewSame, Sent
  <1>2. \A d \in Deliveries : \A p \in 1..(d - 1) : p \in Deliveries
    BY HandoffAssumption DEF Deliveries
  <1>3. (\A d \in Deliveries : Sent(d) => \A p \in 1..(d - 1) : Sent(p))'
    BY <1>1, <1>2 DEF DeliveriesInTurn
  <1>4. (pendingDelivery # None =>
          /\ Sent(pendingDelivery) /\ latestAcknowledgedDelivery = None
          /\ \A d \in Deliveries : d > pendingDelivery => ~Sent(d))'
    <2> SUFFICES ASSUME pendingDelivery' # None
                 PROVE  (/\ Sent(pendingDelivery) /\ latestAcknowledgedDelivery = None
                         /\ \A d \in Deliveries : d > pendingDelivery => ~Sent(d))'
      OBVIOUS
    <2>1. PICK p \in Deliveries : p = pendingDelivery /\ p = pendingDelivery'
      BY <1>1 DEF Types, ReviewTypes, Maybe
    <2>2. Sent(p) /\ latestAcknowledgedDelivery = None /\ \A d \in Deliveries : d > p => ~Sent(d)
      BY <1>1, <2>1 DEF DeliveriesInTurn
    <2>3. Sent(p)' /\ \A d \in Deliveries : d > p => ~Sent(d)'
      BY <1>1, <2>2
    <2>4. Sent(pendingDelivery)'
      BY <2>1, <2>3 DEF Sent
    <2> QED
      BY <1>1, <2>1, <2>2, <2>3, <2>4
  <1>5. (latestAcknowledgedDelivery = None =>
          latestReviewRequest = None /\ latestReviewDecision = None)'
    BY <1>1 DEF DeliveriesInTurn
  <1>6. (\A d \in Deliveries : d \in storing \/ Carries(toBridge, Message("ack", d)) => Sent(d))'
    BY <1>1, <1>0, QuietCarries, UndisturbedCarries DEF DeliveriesInTurn
  <1>7. (\A d \in Nat : Carries(toClient, Message("implementation_review_envelope", d)) =>
          d \in Deliveries /\ Sent(d))'
    BY <1>1, <1>0, QuietCarries, UndisturbedCarries DEF DeliveriesInTurn
  <1> QED
    BY <1>3, <1>4, <1>5, <1>6, <1>7 DEF DeliveriesInTurn

\* What happens to an operation leaves it what it is.
OperationsFirm ==
  \A i \in Operations : /\ operations'[i].kind = operations[i].kind
                        /\ operations'[i].request = operations[i].request
                        /\ operations'[i].verdict = operations[i].verdict
                        /\ Issued(i) => Issued(i)'
                        /\ operations'[i].promise = "preparing" => operations[i].promise = "preparing"

LEMMA OperationsSentKept ==
  ASSUME Types, Types', OperationsFirm, SlotsSame, OperationsSent, accepted' = accepted,
         \A k \in Kinds : \A i : Carries(toBridge, Message(k, i))' => Carries(toBridge, Message(k, i)),
         \A i : Carries(toClient, Message("ack", i))' => Carries(toClient, Message("ack", i))
  PROVE  OperationsSent'
  <1>1. \A i \in Operations : /\ operations'[i].kind = operations[i].kind
                              /\ operations'[i].request = operations[i].request
                              /\ Issued(i) => Issued(i)'
    BY DEF OperationsFirm
  <1>2. \A k \in Kinds : pending'[k] \in {None, pending[k]}
    BY DEF SlotsSame
  <1>3. (\A k \in Kinds : pending[k] # None => operations[pending[k]].kind = k /\ Issued(pending[k]))'
    <2> SUFFICES ASSUME NEW k \in Kinds, pending'[k] # None
                 PROVE  (operations[pending[k]].kind = k /\ Issued(pending[k]))'
      OBVIOUS
    <2>1. pending'[k] = pending[k] /\ pending[k] # None
      BY <1>2
    <2>2. PICK i \in Operations : i = pending[k]
      BY <2>1 DEF Types, TypeOK, Maybe
    <2>3. operations[i].kind = k /\ Issued(i)
      BY <2>1, <2>2 DEF OperationsSent
    <2>4. operations'[i].kind = k /\ Issued(i)'
      BY <1>1, <2>3
    <2>5. pending'[k] = i
      BY <2>1, <2>2
    <2> QED
      BY <2>4, <2>5 DEF Issued
  <1>4. (\A k \in Kinds, i \in Nat : Carries(toBridge, Message(k, i)) =>
          /\ i \in Operations /\ operations[i].kind = k
          /\ Issued(i) /\ i \notin accepted
          /\ k = "review_request" => operations[i].request.number = i)'
    BY <1>1 DEF OperationsSent
  <1>5. (\A i \in Nat : Carries(toClient, Message("ack", i)) =>
          i \in Operations /\ Issued(i) /\ i \in accepted)'
    BY <1>1 DEF OperationsSent
  <1>6. (\A i \in Operations : /\ operations[i].promise = "preparing" => operations[i].kind \in Kinds
                               /\ i \in accepted => Issued(i))'
    BY <1>1 DEF OperationsSent, OperationsFirm
  <1> QED
    BY <1>3, <1>4, <1>5, <1>6 DEF OperationsSent

LEMMA QuietOperations ==
  ASSUME Types, Types', Quiet, OperationsSent
  PROVE  OperationsSent'
  <1>1. OperationsFirm /\ SlotsSame /\ Undisturbed
    BY DEF Quiet, Undisturbed, OperationsSame, OperationsFirm, Issued
  <1>2. accepted' = accepted
    BY DEF Quiet, Undisturbed
  <1> QED
    BY <1>1, <1>2, OperationsSentKept, QuietCarries, UndisturbedCarries

\* Where a message of the bridge stands after the step, it stood before, as far
\* from the others.
LEMMA QuietSentOnce ==
  ASSUME Types, Types', NEW message, message.type \notin Kinds, BridgeFlow(message), SentOnce
  PROVE  SentOnce'
  <1> SUFFICES ASSUME NEW c \in Conns, NEW b \in Conns,
                      NEW p \in 1..Len(toBridge'[c]), NEW q \in 1..Len(toBridge'[b]),
                      toBridge'[c][p] = toBridge'[b][q], toBridge'[c][p].type \in Kinds
               PROVE  c = b /\ p = q
    BY DEF SentOnce
  <1>1. \A a \in Conns : toBridge[a] \in Seq(ToBridgeMessages) /\ toBridge'[a] \in Seq(ToBridgeMessages)
    BY DEF Types, ToBridgeType
  <1>2. \A a \in Conns : Flow(toBridge[a], toBridge'[a], message)
    BY DEF BridgeFlow
  <1>3. \A a \in Conns : \E k \in 0..Len(toBridge[a]) :
          \A r \in 1..Len(toBridge'[a]) : toBridge'[a][r].type \in Kinds =>
            r + k \in 1..Len(toBridge[a]) /\ toBridge'[a][r] = toBridge[a][r + k]
    <2> SUFFICES ASSUME NEW a \in Conns
                 PROVE  \E k \in 0..Len(toBridge[a]) :
                          \A r \in 1..Len(toBridge'[a]) : toBridge'[a][r].type \in Kinds =>
                            r + k \in 1..Len(toBridge[a]) /\ toBridge'[a][r] = toBridge[a][r + k]
      OBVIOUS
    <2>1. Len(toBridge[a]) \in Nat /\ Len(toBridge'[a]) \in Nat
      BY <1>1
    <2>2. CASE \E k \in 0..Len(toBridge[a]) : Len(toBridge'[a]) = Len(toBridge[a]) - k
                 /\ \A r \in 1..Len(toBridge'[a]) : toBridge'[a][r] = toBridge[a][r + k]
      BY <2>1, <2>2
    <2>3. CASE /\ Len(toBridge'[a]) = Len(toBridge[a]) + 1 /\ toBridge'[a][Len(toBridge'[a])] = message
               /\ \A r \in 1..Len(toBridge[a]) : toBridge'[a][r] = toBridge[a][r]
      <3>1. \A r \in 1..Len(toBridge'[a]) : toBridge'[a][r].type \in Kinds =>
              r + 0 \in 1..Len(toBridge[a]) /\ toBridge'[a][r] = toBridge[a][r + 0]
        BY <2>1, <2>3
      <3>2. 0 \in 0..Len(toBridge[a])
        BY <2>1
      <3> QED
        BY <3>1, <3>2
    <2> QED
      BY <1>2, <2>2, <2>3 DEF Flow
  <1>4. PICK k \in 0..Len(toBridge[c]) :
          \A r \in 1..Len(toBridge'[c]) : toBridge'[c][r].type \in Kinds =>
            r + k \in 1..Len(toBridge[c]) /\ toBridge'[c][r] = toBridge[c][r + k]
    BY <1>3
  <1>5. PICK l \in 0..Len(toBridge[b]) :
          \A r \in 1..Len(toBridge'[b]) : toBridge'[b][r].type \in Kinds =>
            r + l \in 1..Len(toBridge[b]) /\ toBridge'[b][r] = toBridge[b][r + l]
    BY <1>3
  <1>6. toBridge[c][p + k] = toBridge[b][q + l] /\ toBridge[c][p + k].type \in Kinds
        /\ p + k \in 1..Len(toBridge[c]) /\ q + l \in 1..Len(toBridge[b])
    BY <1>4, <1>5
  <1>7. c = b
    BY <1>6 DEF SentOnce
  <1>8. toBridge[c][p + k] = toBridge[c][q + k] /\ p + k \in 1..Len(toBridge[c]) /\ q + k \in 1..Len(toBridge[c])
    BY <1>4, <1>7
  <1>9. p + k = q + k
    BY <1>6, <1>8 DEF SentOnce
  <1> QED
    BY <1>7, <1>9

LEMMA MessageShape ==
  /\ \A m \in ToClientMessages : m.id \in Nat /\ m = Message(m.type, m.id)
  /\ \A m \in ToBridgeMessages : m.id \in Nat /\ m = Message(m.type, m.id)
  BY DEF ToClientMessages, ToBridgeMessages, Message

\* Answers to operations stay answers to the same operations.
AnswersKeepKinds ==
  \A i \in Nat : Carries(toClient, Message("ack", i)) => operations'[i].kind = operations[i].kind

\* The order on the way to the client is kept if what is sent may come last.
LEMMA OrderKept ==
  ASSUME Types, Types', ChannelInOrder, AnswersKeepKinds, NEW message, ClientFlow(message),
         message.type = "implementation_review_envelope" =>
           \A d \in Nat : Carries(toClient, Message("implementation_review_envelope", d)) => d < message.id,
         message.type = "ack" /\ operations'[message.id].kind \in ReviewKinds => ~EnvelopeUnderWay
  PROVE  ChannelInOrder'
  <1> SUFFICES ASSUME NEW c \in Conns, NEW q \in 1..Len(toClient'[c]), NEW p \in 1..(q - 1),
                      toClient'[c][p].type = "implementation_review_envelope"
               PROVE  /\ toClient'[c][q].type = "implementation_review_envelope" =>
                           toClient'[c][p].id < toClient'[c][q].id
                      /\ toClient'[c][q].type = "ack" =>
                           operations'[toClient'[c][q].id].kind \notin ReviewKinds
    BY DEF ChannelInOrder
  <1>1. toClient[c] \in Seq(ToClientMessages) /\ toClient'[c] \in Seq(ToClientMessages)
    BY DEF Types, ToClientType
  <1>2. Flow(toClient[c], toClient'[c], message)
    BY DEF ClientFlow
  <1>3. \A r \in 1..Len(toClient[c]) : /\ toClient[c][r].id \in Nat
                                       /\ toClient[c][r] = Message(toClient[c][r].type, toClient[c][r].id)
    <2>1. \A r \in 1..Len(toClient[c]) : toClient[c][r] \in ToClientMessages
      BY <1>1
    <2> QED
      BY <2>1, MessageShape
  <1>4. \A r \in 1..Len(toClient[c]) : Carries(toClient, Message(toClient[c][r].type, toClient[c][r].id))
    BY <1>3 DEF Carries
  <1>5. CASE \E k \in 0..Len(toClient[c]) : Len(toClient'[c]) = Len(toClient[c]) - k
               /\ \A r \in 1..Len(toClient'[c]) : toClient'[c][r] = toClient[c][r + k]
    <2>1. PICK k \in 0..Len(toClient[c]) : Len(toClient'[c]) = Len(toClient[c]) - k
            /\ \A r \in 1..Len(toClient'[c]) : toClient'[c][r] = toClient[c][r + k]
      BY <1>5
    <2>2. /\ q + k \in 1..Len(toClient[c]) /\ p + k \in 1..((q + k) - 1)
          /\ toClient'[c][q] = toClient[c][q + k] /\ toClient'[c][p] = toClient[c][p + k]
      BY <1>1, <2>1
    <2>3. /\ toClient'[c][q].type = "implementation_review_envelope" =>
               toClient'[c][p].id < toClient'[c][q].id
          /\ toClient'[c][q].type = "ack" => operations[toClient'[c][q].id].kind \notin ReviewKinds
      BY <2>2 DEF ChannelInOrder
    <2>4. toClient'[c][q].type = "ack" =>
            operations'[toClient'[c][q].id].kind = operations[toClient'[c][q].id].kind
      BY <1>3, <1>4, <2>2 DEF AnswersKeepKinds
    <2> QED
      BY <2>3, <2>4
  <1>6. CASE /\ Len(toClient'[c]) = Len(toClient[c]) + 1 /\ toClient'[c][Len(toClient'[c])] = message
             /\ \A r \in 1..Len(toClient[c]) : toClient'[c][r] = toClient[c][r]
    <2>1. p \in 1..Len(toClient[c]) /\ toClient'[c][p] = toClient[c][p]
      BY <1>1, <1>6
    <2>2. CASE q \in 1..Len(toClient[c])
      <3>1. toClient'[c][q] = toClient[c][q]
        BY <1>6, <2>2
      <3>2. /\ toClient'[c][q].type = "implementation_review_envelope" =>
                 toClient'[c][p].id < toClient'[c][q].id
            /\ toClient'[c][q].type = "ack" => operations[toClient'[c][q].id].kind \notin ReviewKinds
        BY <2>1, <2>2, <3>1 DEF ChannelInOrder
      <3>3. toClient'[c][q].type = "ack" =>
              operations'[toClient'[c][q].id].kind = operations[toClient'[c][q].id].kind
        BY <1>3, <1>4, <2>2, <3>1 DEF AnswersKeepKinds
      <3> QED
        BY <3>2, <3>3
    <2>3. CASE q = Len(toClient'[c])
      <3>1. toClient'[c][q] = message
        BY <1>6, <2>3
      <3>2. Carries(toClient, Message("implementation_review_envelope", toClient[c][p].id))
        BY <1>4, <2>1
      <3>3. toClient[c][p].id \in Nat
        BY <1>3, <2>1
      <3> QED
        BY <2>1, <3>1, <3>2, <3>3 DEF EnvelopeUnderWay
    <2> QED
      BY <1>1, <1>6, <2>2, <2>3
  <1> QED
    BY <1>2, <1>5, <1>6 DEF Flow

LEMMA ReviewsUndisturbed ==
  ASSUME Types, Types', Undisturbed, ReviewsAccepted
  PROVE  ReviewsAccepted'
  BY DEF Undisturbed, StorageSame, ReviewSame, OperationsSame, ReviewsAccepted

LEMMA OrderUndisturbed ==
  ASSUME Types, Types', Undisturbed, OperationsSent, ChannelInOrder
  PROVE  ChannelInOrder'
  <1>1. PICK noise \in Noise : ClientFlow(noise)
    BY DEF Undisturbed
  <1>2. noise.type # "implementation_review_envelope" /\ noise.type # "ack"
    BY DEF Noise, Message
  <1>3. AnswersKeepKinds
    BY DEF Undisturbed, OperationsSame, OperationsSent, AnswersKeepKinds
  <1> QED
    BY <1>1, <1>2, <1>3, OrderKept

LEMMA AnswersUndisturbed ==
  ASSUME Types, Types', Undisturbed
  PROVE  /\ \A i \in Operations : \A k : Answered(i, k)' => Answered(i, k)
         /\ EnvelopeUnderWay' => EnvelopeUnderWay
         /\ \A i \in Operations : /\ operations'[i].request = operations[i].request
                                  /\ operations'[i].verdict = operations[i].verdict
  BY UndisturbedCarries DEF Undisturbed, OperationsSame, Answered, EnvelopeUnderWay

LEMMA BelongsUndisturbed ==
  ASSUME Types, Types', Undisturbed, AnswersBelong
  PROVE  AnswersBelong'
  BY AnswersUndisturbed DEF Undisturbed, StorageSame, AnswersBelong

LEMMA QuietAcknowledgement ==
  ASSUME Types, Types', Quiet, AcknowledgementHolds
  PROVE  AcknowledgementHolds'
  <1> SUFFICES ASSUME (pendingDelivery # None
                        /\ (pendingDelivery \in storing \/ Carries(toBridge, Message("ack", pendingDelivery))))'
               PROVE  (/\ ~EnvelopeUnderWay
                       /\ \A i \in Operations : \A k \in ReviewKinds : ~Answered(i, k)
                       /\ storage.envelope = delivery[pendingDelivery].envelope
                       /\ storage.request = None /\ storage.decision = None)'
    BY DEF AcknowledgementHolds
  <1>1. PICK d \in Deliveries : d = pendingDelivery
    BY DEF Types, ReviewTypes, Maybe, Quiet, Undisturbed, ReviewSame
  <1>2. pendingDelivery' = d /\ d # None /\ (d \in storing \/ Carries(toBridge, Message("ack", d)))
    <2>1. pendingDelivery' = d
      BY <1>1 DEF Quiet, Undisturbed, ReviewSame
    <2>2. d \in storing' \/ Carries(toBridge, Message("ack", d))'
      BY <2>1
    <2> QED
      BY <2>1, <2>2, QuietCarries DEF Quiet, Undisturbed
  <1>3. /\ ~EnvelopeUnderWay
        /\ \A i \in Operations : \A k \in ReviewKinds : ~Answered(i, k)
        /\ storage.envelope = delivery[d].envelope
        /\ storage.request = None /\ storage.decision = None
    BY <1>1, <1>2 DEF AcknowledgementHolds
  <1>4. delivery'[d].envelope = delivery[d].envelope
    BY DEF Quiet, Undisturbed, ReviewSame
  <1> QED
    BY <1>2, <1>3, <1>4, AnswersUndisturbed DEF Quiet, Undisturbed, StorageSame

LEMMA AcknowledgedUndisturbed ==
  ASSUME Types, Types', Undisturbed, AcknowledgedHolds
  PROVE  AcknowledgedHolds'
  <1> SUFFICES ASSUME latestAcknowledgedDelivery' # None
               PROVE  (/\ ~EnvelopeUnderWay
                       /\ storage.envelope = delivery[latestAcknowledgedDelivery].envelope
                       /\ storage.request \in {None, latestReviewRequest}
                       /\ storage.decision \in {None, latestReviewDecision}
                       /\ \A i \in Operations :
                            /\ Answered(i, "review_request") => operations[i].request = latestReviewRequest
                            /\ Answered(i, "review_decision") =>
                                 latestReviewDecision = [request |-> operations[i].request,
                                                         verdict |-> operations[i].verdict])'
    BY DEF AcknowledgedHolds
  <1>1. PICK d \in Deliveries : d = latestAcknowledgedDelivery /\ d = latestAcknowledgedDelivery'
    BY DEF Types, ReviewTypes, Maybe, Undisturbed, ReviewSame
  <1>2. delivery'[d].envelope = delivery[d].envelope
    BY DEF Undisturbed, ReviewSame
  <1>3. /\ ~EnvelopeUnderWay
        /\ storage.envelope = delivery[d].envelope
        /\ storage.request \in {None, latestReviewRequest}
        /\ storage.decision \in {None, latestReviewDecision}
        /\ \A i \in Operations :
             /\ Answered(i, "review_request") => operations[i].request = latestReviewRequest
             /\ Answered(i, "review_decision") =>
                  latestReviewDecision = [request |-> operations[i].request,
                                          verdict |-> operations[i].verdict]
    BY <1>1 DEF AcknowledgedHolds
  <1> QED
    BY <1>1, <1>2, <1>3, AnswersUndisturbed DEF Undisturbed, StorageSame, ReviewSame

LEMMA StoredUndisturbed ==
  ASSUME Types, Types', Undisturbed, StoredReviewBelongs
  PROVE  StoredReviewBelongs'
  BY DEF Undisturbed, StorageSame, StoredReviewBelongs

LEMMA ResolvedUndisturbed ==
  ASSUME Types, Types', Undisturbed, ReviewsAccepted, ResolvedWasAccepted
  PROVE  ResolvedWasAccepted'
  BY DEF Undisturbed, OperationsSame, ReviewsAccepted, ResolvedWasAccepted

\* Everything but the types and the sockets.
Agreement ==
  /\ DeliveriesInTurn /\ OperationsSent /\ SentOnce /\ ReviewsAccepted
  /\ ChannelInOrder /\ AnswersBelong /\ AcknowledgementHolds /\ AcknowledgedHolds
  /\ StoredReviewBelongs /\ ResolvedWasAccepted

LEMMA QuietAgreement ==
  ASSUME Types, Types', Quiet, Agreement
  PROVE  Agreement'
  <1>0. Undisturbed
    BY DEF Quiet
  <1>1. PICK g \in Greetings : BridgeFlow(g)
    BY DEF Quiet, BridgeGreets
  <1>2. SentOnce'
    <2>1. g.type \notin Kinds
      BY GreetingIs DEF Kinds
    <2> QED
      BY <1>1, <2>1, QuietSentOnce DEF Agreement
  <1>3. DeliveriesInTurn' /\ OperationsSent' /\ ReviewsAccepted'
    BY <1>0, QuietDeliveries, QuietOperations, ReviewsUndisturbed DEF Agreement
  <1>4. ChannelInOrder' /\ AnswersBelong'
    BY <1>0, OrderUndisturbed, BelongsUndisturbed DEF Agreement
  <1>5. AcknowledgementHolds' /\ AcknowledgedHolds' /\ StoredReviewBelongs' /\ ResolvedWasAccepted'
    BY <1>0, QuietAcknowledgement, AcknowledgedUndisturbed, StoredUndisturbed, ResolvedUndisturbed DEF Agreement
  <1> QED
    BY <1>2, <1>3, <1>4, <1>5 DEF Agreement

----------------------------------------------------------------------------
(* What the parts of the client's handlers leave                           *)

OperationRecords ==
  [kind : Maybe(Kinds), request : Maybe(Requests), verdict : Maybe(Verdicts),
   promise : {"none", "preparing", "waiting", "resolved", "rejected", "lost"}, timer : BOOLEAN]

LEMMA OperationsType ==
  TypeOK => operations \in [Operations -> OperationRecords] /\ pending \in [Kinds -> Maybe(Operations)]
  BY DEF TypeOK, OperationRecords

LEMMA EndedIs ==
  ASSUME TypeOK, NEW promise \in {"resolved", "rejected", "lost"}, NEW is
  PROVE  /\ Ended(promise, is) \in [Operations -> OperationRecords]
         /\ \A i \in Operations :
              /\ Ended(promise, is)[i].kind = operations[i].kind
              /\ Ended(promise, is)[i].request = operations[i].request
              /\ Ended(promise, is)[i].verdict = operations[i].verdict
              /\ i \in is => Ended(promise, is)[i].promise = promise
              /\ i \notin is => Ended(promise, is)[i].promise = operations[i].promise
  <1>1. operations \in [Operations -> OperationRecords]
    BY OperationsType
  <1>2. \A o \in OperationRecords :
          /\ [o EXCEPT !.promise = promise, !.timer = FALSE] \in OperationRecords
          /\ [o EXCEPT !.promise = promise, !.timer = FALSE].kind = o.kind
          /\ [o EXCEPT !.promise = promise, !.timer = FALSE].request = o.request
          /\ [o EXCEPT !.promise = promise, !.timer = FALSE].verdict = o.verdict
          /\ [o EXCEPT !.promise = promise, !.timer = FALSE].promise = promise
    BY DEF OperationRecords
  <1>3. \A i \in Operations : Ended(promise, is)[i] =
          IF i \in is THEN [operations[i] EXCEPT !.promise = promise, !.timer = FALSE] ELSE operations[i]
    BY DEF Ended
  <1>4. \A i \in Operations : Ended(promise, is)[i] \in OperationRecords
    BY <1>1, <1>2, <1>3
  <1>5. Ended(promise, is) \in [Operations -> OperationRecords]
    BY <1>3, <1>4 DEF Ended
  <1>6. ASSUME NEW i \in Operations
        PROVE  /\ Ended(promise, is)[i].kind = operations[i].kind
               /\ Ended(promise, is)[i].request = operations[i].request
               /\ Ended(promise, is)[i].verdict = operations[i].verdict
               /\ i \in is => Ended(promise, is)[i].promise = promise
               /\ i \notin is => Ended(promise, is)[i].promise = operations[i].promise
    <2>1. operations[i] \in OperationRecords
      BY <1>1
    <2> QED
      BY <1>2, <1>3, <2>1
  <1> QED
    BY <1>5, <1>6

LEMMA EmptiedIs ==
  ASSUME TypeOK, NEW ks
  PROVE  /\ Emptied(ks) \in [Kinds -> Maybe(Operations)]
         /\ \A k \in Kinds : Emptied(ks)[k] \in {None, pending[k]}
  BY OperationsType DEF Emptied, Maybe

\* The operations that end are issued, or end without a result.
LEMMA EndedSame ==
  ASSUME TypeOK, NEW promise \in {"rejected", "lost"}, NEW is, operations' = Ended(promise, is)
  PROVE  OperationsSame
  BY EndedIs DEF OperationsSame

LEMMA OperationsRest ==
  ASSUME UNCHANGED operations
  PROVE  OperationsSame
  BY DEF OperationsSame

LEMMA SlotsEmptied ==
  ASSUME TypeOK, NEW ks, pending' = Emptied(ks)
  PROVE  SlotsSame
  BY EmptiedIs DEF SlotsSame

LEMMA CloseSocketKeeps ==
  ASSUME TypeOK, OneEnd, CloseSocket
  PROVE  /\ OneEnd'
         /\ socket' = None
         /\ webSocket' \in [Conns -> {"none", "connecting", "open", "closing", "closed"}]
  <1>1. /\ socket' = None
        /\ webSocket' = [c \in Conns |-> IF c = socket THEN "closed" ELSE webSocket[c]]
        /\ toClient' = [c \in Conns |-> IF c = socket THEN <<>> ELSE toClient[c]]
    BY DEF CloseSocket
  <1>2. webSocket \in [Conns -> {"none", "connecting", "open", "closing", "closed"}]
    BY DEF TypeOK
  <1>3. webSocket' \in [Conns -> {"none", "connecting", "open", "closing", "closed"}]
    BY <1>1, <1>2
  <1>4. ASSUME NEW c \in Conns
        PROVE  webSocket'[c] # "open" /\ toClient'[c] = <<>>
    <2>1. CASE c = socket
      BY <1>1, <2>1
    <2>2. CASE c # socket
      <3>1. webSocket[c] # "open" /\ toClient[c] = <<>>
        BY <2>2 DEF OneEnd
      <3> QED
        BY <1>1, <2>2, <3>1
    <2> QED
      BY <2>1, <2>2
  <1>5. OneEnd'
    BY <1>4 DEF OneEnd
  <1> QED
    BY <1>1, <1>3, <1>5

LEMMA ReviewRests ==
  ASSUME ReviewTypes, UNCHANGED reviewVars
  PROVE  ReviewTypes' /\ ReviewSame
  BY DEF ReviewTypes, ReviewSame, reviewVars

\* RejectPending, with or without a pending delivery.
LEMMA RejectPendingKeeps ==
  ASSUME ReviewTypes, DeliveriesInTurn, Bridge!RejectPending
  PROVE  ReviewTypes' /\ ReviewSame
  <1>1. /\ pendingDelivery' = None
        /\ delivery' = IF pendingDelivery = None THEN delivery
                       ELSE [delivery EXCEPT ![pendingDelivery].promise = "rejected"]
        /\ UNCHANGED <<latestAcknowledgedDelivery, latestReviewRequest, latestReviewDecision>>
    BY DEF Bridge!RejectPending
  <1> DEFINE D == [envelope : Maybe(Envelopes), promise : {"none", "pending", "acknowledged", "rejected"}]
  <1>2. delivery \in [Deliveries -> D] /\ pendingDelivery \in Maybe(Deliveries)
    BY DEF ReviewTypes
  <1>3. /\ delivery' \in [Deliveries -> D]
        /\ \A d \in Deliveries : /\ delivery'[d].envelope = delivery[d].envelope
                                 /\ delivery'[d].promise # "none" <=> delivery[d].promise # "none"
    <2>1. CASE pendingDelivery = None
      BY <1>1, <1>2, <2>1
    <2>2. CASE pendingDelivery # None
      <3>1. PICK p \in Deliveries : p = pendingDelivery
        BY <1>2, <2>2 DEF Maybe
      <3>2. delivery' = [delivery EXCEPT ![p] = [delivery[p] EXCEPT !.promise = "rejected"]]
        BY <1>1, <2>2, <3>1
      <3>3. \A x \in D : [x EXCEPT !.promise = "rejected"] \in D
                         /\ [x EXCEPT !.promise = "rejected"].envelope = x.envelope
                         /\ [x EXCEPT !.promise = "rejected"].promise = "rejected"
        OBVIOUS
      <3>4. delivery[p] \in D /\ delivery[p].promise # "none"
        BY <1>2, <2>2, <3>1 DEF DeliveriesInTurn, Sent
      <3> HIDE DEF D
      <3>5. [delivery[p] EXCEPT !.promise = "rejected"] \in D
            /\ [delivery[p] EXCEPT !.promise = "rejected"].envelope = delivery[p].envelope
            /\ [delivery[p] EXCEPT !.promise = "rejected"].promise = "rejected"
        BY <3>3, <3>4
      <3> QED
        BY <1>2, <3>2, <3>4, <3>5
    <2> QED
      BY <2>1, <2>2
  <1>4. ReviewTypes'
    BY <1>1, <1>3 DEF ReviewTypes, Maybe
  <1> QED
    BY <1>1, <1>3, <1>4 DEF ReviewSame

----------------------------------------------------------------------------
(* The quiet steps of the client                                           *)

LEMMA StorageRests ==
  ASSUME UNCHANGED storage
  PROVE  StorageSame
  BY DEF StorageSame

StorageRecords ==
  [manual : BOOLEAN, token : 0..MaxCodes, envelope : Maybe(Envelopes), request : Maybe(Requests),
   decision : Maybe([request : Requests, verdict : Verdicts])]

\* What TypeOK says of the connection.
ConnectionType ==
  /\ state \in {"disconnected", "connecting", "pairing", "authenticating", "authenticated", "blocked",
               "manually_disconnected"}
  /\ socket \in Maybe(Conns)
  /\ webSocket \in [Conns -> {"none", "connecting", "open", "closing", "closed"}]
  /\ greeting \in [Conns -> Greetings]
  /\ suspended \in Seq(Suspensions)
  /\ storage \in StorageRecords

LEMMA ConnectionTyped == TypeOK => ConnectionType
  BY DEF TypeOK, ConnectionType, StorageRecords

LEMMA ConnectionTypes ==
  ASSUME TypeOK, UNCHANGED <<pending, operations, storing, accepted>>, ConnectionType'
  PROVE  TypeOK'
  BY DEF TypeOK, ConnectionType, StorageRecords

----------------------------------------------------------------------------
(* The queue of suspended methods                                          *)

LEMMA SuspendIs ==
  ASSUME NEW by \in Methods, NEW manual \in BOOLEAN, NEW number \in 0..MaxCodes
  PROVE  /\ Suspend(by, manual, number) \in Suspensions
         /\ Suspend(by, manual, number).by = by /\ Suspend(by, manual, number).manual = manual
  BY DEF Suspend, Suspensions

LEMMA SettingsReadIs ==
  ASSUME ConnectionType
  PROVE  SettingsRead \in Suspensions /\ SettingsRead.by = "connect" /\ SettingsRead.manual = storage.manual
  <1>1. storage.manual \in BOOLEAN /\ storage.token \in 0..MaxCodes
    BY DEF ConnectionType, StorageRecords
  <1> QED
    BY <1>1 DEF SettingsRead, Suspend, Suspensions, Methods

LEMMA SuspendedHead ==
  ASSUME suspended \in Seq(Suspensions), suspended # <<>>
  PROVE  /\ Head(suspended) \in Suspensions /\ Head(suspended) = suspended[1]
         /\ Tail(suspended) \in Seq(Suspensions) /\ Len(Tail(suspended)) = Len(suspended) - 1
         /\ \A p \in 1..Len(Tail(suspended)) : Tail(suspended)[p] = suspended[p + 1]
  <1>1. PICK calls0 \in Seq(Suspensions) : calls0 = suspended
    OBVIOUS
  <1>2. /\ Head(calls0) \in Suspensions /\ Head(calls0) = calls0[1]
        /\ Tail(calls0) \in Seq(Suspensions) /\ Len(Tail(calls0)) = Len(calls0) - 1
        /\ \A p \in 1..Len(Tail(calls0)) : Tail(calls0)[p] = calls0[p + 1]
    BY <1>1, HeadTailProperties
  <1> QED
    BY <1>1, <1>2

LEMMA SuspendedLonger ==
  ASSUME suspended \in Seq(Suspensions), NEW call \in Suspensions, Suspends(call)
  PROVE  /\ suspended' \in Seq(Suspensions) /\ Len(suspended') = Len(suspended) + 1
         /\ suspended'[Len(suspended')] = call
         /\ \A p \in 1..Len(suspended) : suspended'[p] = suspended[p]
  BY AppendProperties DEF Suspends

LEMMA SuspendedLast ==
  ASSUME suspended \in Seq(Suspensions), NEW by, GoesOn(by, <<>>)
  PROVE  /\ Head(suspended) \in Suspensions /\ Head(suspended) = suspended[1] /\ suspended[1].by = by
         /\ suspended' \in Seq(Suspensions) /\ Len(suspended') = Len(suspended) - 1
         /\ \A p \in 1..Len(suspended') : suspended'[p] = suspended[p + 1]
  <1>1. suspended # <<>> /\ suspended' = Tail(suspended) \o <<>> /\ Head(suspended).by = by
    BY DEF GoesOn
  <1>2. PICK rest \in Seq(Suspensions) : rest = Tail(suspended)
    BY <1>1, SuspendedHead
  <1>3. rest \o <<>> = rest
    OBVIOUS
  <1> QED
    BY <1>1, <1>2, <1>3, SuspendedHead

LEMMA SuspendedNext ==
  ASSUME suspended \in Seq(Suspensions), NEW by, NEW call \in Suspensions, GoesOn(by, <<call>>)
  PROVE  /\ Head(suspended) \in Suspensions /\ Head(suspended) = suspended[1] /\ suspended[1].by = by
         /\ suspended' \in Seq(Suspensions) /\ Len(suspended') = Len(suspended)
         /\ suspended'[Len(suspended')] = call
         /\ \A p \in 1..(Len(suspended') - 1) : suspended'[p] = suspended[p + 1]
  <1>1. suspended # <<>> /\ suspended' = Tail(suspended) \o <<call>> /\ Head(suspended).by = by
    BY DEF GoesOn
  <1>2. PICK rest \in Seq(Suspensions) : rest = Tail(suspended)
    BY <1>1, SuspendedHead
  <1>4. Len(rest) = Len(suspended) - 1 /\ \A p \in 1..Len(rest) : rest[p] = suspended[p + 1]
    BY <1>1, <1>2, SuspendedHead
  <1>3. /\ rest \o <<call>> \in Seq(Suspensions) /\ Len(rest \o <<call>>) = Len(rest) + 1
        /\ (rest \o <<call>>)[Len(rest) + 1] = call
        /\ \A p \in 1..Len(rest) : (rest \o <<call>>)[p] = rest[p]
    BY ConcatProperties
  <1>5. Head(suspended) \in Suspensions /\ Head(suspended) = suspended[1]
    BY <1>1, SuspendedHead
  <1>6. suspended' = rest \o <<call>> /\ Len(suspended) \in Nat
    BY <1>1, <1>2
  <1>7. Len(suspended') = Len(suspended) /\ suspended'[Len(suspended')] = call
    BY <1>3, <1>4, <1>6
  <1>8. \A p \in 1..(Len(suspended') - 1) : suspended'[p] = suspended[p + 1]
    BY <1>3, <1>4, <1>6, <1>7
  <1> QED
    BY <1>1, <1>3, <1>5, <1>6, <1>7, <1>8

----------------------------------------------------------------------------
(* The end of a session, and quiet steps of the connection                 *)

\* failProtocol and block, whatever ended.
LEMMA EndSessionQuiet ==
  ASSUME Types, OneEnd, UNCHANGED <<storage, toBridge>>, UNCHANGED bridgeVars, storing' \subseteq storing,
         NEW next \in {"disconnected", "blocked"}, EndSession(next)
  PROVE  Types' /\ OneEnd' /\ Quiet
  <1>1. TypeOK /\ ToBridgeType /\ ToClientType /\ ReviewTypes
    BY DEF Types
  <1>2. CloseSocket /\ state' = next /\ UNCHANGED <<greeting, suspended>>
        /\ pending' = Emptied(Kinds) /\ operations' = Ended("rejected", Rejecting(Kinds))
    BY DEF EndSession
  <1>3. OneEnd' /\ socket' = None /\ webSocket' \in [Conns -> {"none", "connecting", "open", "closing", "closed"}]
    BY <1>1, <1>2, CloseSocketKeeps
  <1>4. ToClientType' /\ \A m : ClientFlow(m)
    BY <1>1, <1>2, CloseFlows
  <1>5. ToBridgeType' /\ BridgeGreets
    BY <1>1, BridgeKeeps
  <1>6. ReviewTypes' /\ ReviewSame /\ accepted' = accepted
    BY <1>1, ReviewRests DEF bridgeVars
  <1>7. operations' \in [Operations -> OperationRecords] /\ OperationsSame
    BY <1>1, <1>2, EndedIs, EndedSame
  <1>8. pending' \in [Kinds -> Maybe(Operations)] /\ SlotsSame
    BY <1>1, <1>2, EmptiedIs, SlotsEmptied
  <1>9. TypeOK'
    BY <1>1, <1>2, <1>3, <1>6, <1>7, <1>8 DEF TypeOK, OperationRecords, Maybe
  <1>10. Quiet
    BY <1>4, <1>5, <1>6, <1>7, <1>8, StorageRests DEF Quiet, Undisturbed, Noise
  <1> QED
    BY <1>3, <1>4, <1>5, <1>6, <1>9, <1>10 DEF Types

\* Steps after which only the connection and what is received differ.
LEMMA SocketStepQuiet ==
  ASSUME Types, UNCHANGED <<pending, operations, storing>>, UNCHANGED bridgeVars, StorageSame,
         BridgeGreets, ToBridgeType',
         NEW noise \in Noise, ClientFlow(noise), ToClientType', ConnectionType'
  PROVE  Types' /\ Quiet
  <1>1. ReviewTypes' /\ ReviewSame /\ accepted' = accepted
    BY ReviewRests DEF Types, bridgeVars
  <1>2. OperationsSame /\ SlotsSame
    BY OperationsRest DEF SlotsSame
  <1>3. TypeOK'
    BY <1>1, ConnectionTypes DEF Types
  <1> QED
    BY <1>1, <1>2, <1>3 DEF Types, Quiet, Undisturbed

\* The same, when nothing is received, or what is under way is dropped.
LEMMA ConnectionStepQuiet ==
  ASSUME Types, UNCHANGED RestOfClient, UNCHANGED bridgeVars, StorageSame, ConnectionType',
         UNCHANGED toClient \/ CloseSocket \/ \E c \in Conns : toClient[c] # <<>> /\ Consume(c)
  PROVE  Types' /\ Quiet
  <1>1. UNCHANGED <<pending, operations, storing, toBridge>>
    BY DEF RestOfClient
  <1>2. ToBridgeType' /\ BridgeGreets
    BY <1>1, BridgeKeeps DEF Types
  <1>3. ToClientType' /\ \A m : ClientFlow(m)
    BY ClientKeeps, CloseFlows, ConsumeFlows DEF Types
  <1>4. Message("error", 0) \in Noise
    BY DEF Noise
  <1> QED
    BY <1>1, <1>2, <1>3, <1>4, SocketStepQuiet

\* The manual flag and the token are written.
LEMMA FlagStored ==
  ASSUME TypeOK, NEW b \in BOOLEAN, NEW n \in 0..MaxCodes,
         \/ storage' = [storage EXCEPT !.manual = b] \/ storage' = [storage EXCEPT !.token = n]
         \/ storage' = [storage EXCEPT !.manual = b, !.token = n]
  PROVE  storage' \in StorageRecords /\ StorageSame
  <1>1. storage \in StorageRecords
    BY DEF TypeOK, StorageRecords
  <1> QED
    BY <1>1 DEF StorageRecords, StorageSame

\* Methods are called, or await the storage again.
LEMMA StorageCallQuiet ==
  ASSUME Types, OneEnd, UNCHANGED bridgeVars,
         \/ Connect \/ ConnectExplicitly \/ ConnectClears \/ ConnectReadsAgain
         \/ Disconnect \/ Revoke \/ RevokeDisconnects \/ \E n \in Codes : Pair(n)
  PROVE  Types' /\ OneEnd' /\ Quiet
  <1>0. TypeOK /\ ConnectionType /\ 0 \in 0..MaxCodes /\ Codes \subseteq 0..MaxCodes
    BY ConnectionTyped, HandoffAssumption DEF Types, Codes
  <1>1. UNCHANGED <<RestOfConnection, RestOfClient, toClient>>
    BY DEF Connect, ConnectExplicitly, ConnectClears, ConnectReadsAgain, Disconnect, Revoke,
           RevokeDisconnects, Pair
  <1>2. \/ \E call \in Suspensions : Suspends(call)
        \/ \E by \in Methods : \E call \in Suspensions : GoesOn(by, <<call>>)
    <2>1. SettingsRead \in Suspensions
      BY <1>0, SettingsReadIs
    <2>2. CASE Connect \/ ConnectExplicitly \/ Disconnect \/ Revoke \/ \E n \in Codes : Pair(n)
      BY <1>0, <2>1, <2>2, SuspendIs DEF Connect, ConnectExplicitly, Disconnect, Revoke, Pair, Starts, Methods
    <2>3. CASE ConnectClears \/ ConnectReadsAgain \/ RevokeDisconnects
      BY <1>0, <2>1, <2>3, SuspendIs DEF ConnectClears, ConnectReadsAgain, RevokeDisconnects, Methods
    <2> QED
      BY <2>2, <2>3
  <1>3. suspended' \in Seq(Suspensions)
    BY <1>0, <1>2, SuspendedLonger, SuspendedNext DEF ConnectionType
  <1>4. storage' \in StorageRecords /\ StorageSame
    <2>1. CASE UNCHANGED storage
      BY <1>0, <2>1, StorageRests DEF ConnectionType
    <2>2. CASE ~UNCHANGED storage
      <3>1. \E b \in BOOLEAN, n \in 0..MaxCodes :
              storage' = [storage EXCEPT !.manual = b] \/ storage' = [storage EXCEPT !.token = n]
        BY <1>0, <2>2 DEF Connect, ConnectExplicitly, ConnectClears, ConnectReadsAgain, Disconnect, Revoke,
                          RevokeDisconnects, Pair
      <3> QED
        BY <1>0, <3>1, FlagStored
    <2> QED
      BY <2>1, <2>2
  <1>5. ConnectionType'
    BY <1>0, <1>1, <1>3, <1>4 DEF ConnectionType, RestOfConnection
  <1>6. OneEnd'
    BY <1>1 DEF OneEnd, RestOfConnection
  <1> QED
    BY <1>1, <1>4, <1>5, <1>6, ConnectionStepQuiet

LEMMA OpenKeeps ==
  ASSUME Types, OneEnd, UNCHANGED toClient, NEW c \in Conns, NEW message \in Greetings, ~Alive, Open(c, message)
  PROVE  /\ OneEnd' /\ state' = "connecting" /\ socket' = c
         /\ webSocket' \in [Conns -> {"none", "connecting", "open", "closing", "closed"}]
         /\ greeting' \in [Conns -> Greetings] /\ greeting'[c] = message
  <1>1. /\ webSocket[c] = "none" /\ socket' = c /\ state' = "connecting"
        /\ webSocket' = [webSocket EXCEPT ![c] = "connecting"]
        /\ greeting' = [greeting EXCEPT ![c] = message]
    BY DEF Open
  <1>2. webSocket \in [Conns -> {"none", "connecting", "open", "closing", "closed"}]
        /\ greeting \in [Conns -> Greetings] /\ socket \in Maybe(Conns)
    BY DEF Types, TypeOK
  <1>3. \A b \in Conns : webSocket[b] # "open"
    BY <1>2, HandoffAssumption DEF OneEnd, Alive, Maybe
  <1>4. \A b \in Conns : webSocket'[b] # "open" /\ toClient'[b] = <<>>
    BY <1>1, <1>2, <1>3 DEF OneEnd
  <1>5. OneEnd'
    BY <1>4 DEF OneEnd
  <1> QED
    BY <1>1, <1>2, <1>5

\* connect() and pair() go on to open a connection, or do not.
LEMMA OpenQuiet ==
  ASSUME Types, OneEnd, NEW c \in Conns, ConnectGoesOn(c) \/ PairOpens(c), UNCHANGED bridgeVars
  PROVE  Types' /\ OneEnd' /\ Quiet
  <1>0. TypeOK /\ ConnectionType
    BY ConnectionTyped DEF Types
  <1>1. UNCHANGED <<storage, RestOfClient, toClient>> /\ \E by : GoesOn(by, <<>>)
    BY DEF ConnectGoesOn, PairOpens
  <1>2. Head(suspended) \in Suspensions /\ suspended' \in Seq(Suspensions)
    BY <1>0, <1>1, SuspendedLast DEF ConnectionType
  <1>3. \/ UNCHANGED RestOfConnection
        \/ state' = "disconnected" /\ UNCHANGED <<socket, webSocket, greeting>>
        \/ ~Alive /\ \E message \in Greetings : Open(c, message)
    <2>1. PICK n : n = Head(suspended).number
      OBVIOUS
    <2>2. n \in 0..MaxCodes
      BY <1>2, <2>1 DEF Suspensions
    <2>3. Message("authenticate", n) \in Greetings /\ Message("pair_request", n) \in Greetings
      BY <2>2 DEF Message, Greetings
    <2> QED
      BY <2>1, <2>3 DEF ConnectGoesOn, PairOpens
  <1>4. OneEnd' /\ state' \in {state, "connecting", "disconnected"} /\ socket' \in {socket, c}
        /\ webSocket' \in [Conns -> {"none", "connecting", "open", "closing", "closed"}]
        /\ greeting' \in [Conns -> Greetings]
    <2>1. CASE UNCHANGED <<socket, webSocket, greeting>>
      <3>1. OneEnd'
        BY <1>1, <2>1 DEF OneEnd
      <3>2. state' \in {state, "connecting", "disconnected"}
        BY <1>3 DEF RestOfConnection, Open
      <3> QED
        BY <1>0, <2>1, <3>1, <3>2 DEF ConnectionType
    <2>2. CASE ~Alive /\ \E message \in Greetings : Open(c, message)
      BY <1>1, <2>2, OpenKeeps
    <2> QED
      BY <1>3, <2>1, <2>2 DEF RestOfConnection
  <1>5. ConnectionType'
    BY <1>0, <1>1, <1>2, <1>4 DEF ConnectionType, Maybe
  <1> QED
    BY <1>1, <1>4, <1>5, ConnectionStepQuiet, StorageRests

\* pair(), handlePairSuccess and disconnect() go on to close the socket.
LEMMA SocketClosedQuiet ==
  ASSUME Types, OneEnd, UNCHANGED bridgeVars, PairReads \/ PairedConnects \/ Disconnected
  PROVE  Types' /\ OneEnd' /\ Quiet
  <1>0. TypeOK /\ ConnectionType /\ 0 \in 0..MaxCodes
    BY ConnectionTyped, HandoffAssumption DEF Types
  <1>1. /\ CloseSocket /\ UNCHANGED <<greeting, storage, RestOfClient>>
        /\ state' \in {"pairing", "disconnected", "manually_disconnected"}
    BY DEF PairReads, PairedConnects, Disconnected
  <1>2. \E by : GoesOn(by, <<>>) \/ \E call \in Suspensions : GoesOn(by, <<call>>)
    <2>1. CASE PairReads
      <3>1. GoesOn("pair", <<Suspend("pair opens", FALSE, Head(suspended).number)>>)
        BY <2>1 DEF PairReads
      <3>2. Head(suspended) \in Suspensions
        BY <1>0, <3>1, SuspendedHead DEF ConnectionType, GoesOn
      <3>3. Suspend("pair opens", FALSE, Head(suspended).number) \in Suspensions
        BY <3>2, SuspendIs DEF Suspensions, Methods
      <3> QED
        BY <3>1, <3>3
    <2>2. CASE PairedConnects
      BY <1>0, <2>2, SettingsReadIs DEF PairedConnects
    <2>3. CASE Disconnected
      BY <2>3 DEF Disconnected
    <2> QED
      BY <2>1, <2>2, <2>3
  <1>3. suspended' \in Seq(Suspensions)
    BY <1>0, <1>2, SuspendedNext, SuspendedLast DEF ConnectionType
  <1>4. OneEnd' /\ socket' = None
        /\ webSocket' \in [Conns -> {"none", "connecting", "open", "closing", "closed"}]
    BY <1>0, <1>1, CloseSocketKeeps
  <1>5. ConnectionType'
    BY <1>0, <1>1, <1>3, <1>4 DEF ConnectionType, Maybe
  <1> QED
    BY <1>1, <1>4, <1>5, ConnectionStepQuiet, StorageRests

LEMMA ConsumeKeepsOneEnd ==
  ASSUME Types, OneEnd, UNCHANGED <<socket, webSocket>>, NEW c \in Conns, toClient[c] # <<>>, Consume(c)
  PROVE  OneEnd'
  <1>1. /\ \A b \in Conns \ {c} : toClient'[b] = toClient[b]
        /\ webSocket[c] = "open"
    BY ConsumeFlows DEF Types, OneEnd
  <1> QED
    BY <1>1 DEF OneEnd

LEMMA AnswerHeardQuiet ==
  ASSUME Types, OneEnd, NEW c \in Conns, UNCHANGED bridgeVars,
         HandleAuthenticated(c) \/ \E n \in Codes : HandlePairSuccess(c, n)
  PROVE  Types' /\ OneEnd' /\ Quiet
  <1>0. TypeOK /\ ConnectionType /\ 0 \in 0..MaxCodes /\ Codes \subseteq 0..MaxCodes
    BY ConnectionTyped, HandoffAssumption DEF Types, Codes
  <1>1. /\ toClient[c] # <<>> /\ Consume(c) /\ UNCHANGED <<socket, webSocket, greeting, RestOfClient>>
        /\ state' \in {state, "authenticated"}
    BY DEF HandleAuthenticated, HandlePairSuccess, Receives, RestOfClient, RestOfConnection
  <1>2. suspended' \in Seq(Suspensions)
    <2>1. CASE HandleAuthenticated(c)
      BY <1>0, <2>1 DEF HandleAuthenticated, ConnectionType
    <2>2. CASE \E n \in Codes : HandlePairSuccess(c, n)
      <3>1. Suspend("paired", FALSE, 0) \in Suspensions
        BY <1>0, SuspendIs DEF Methods
      <3>2. Suspends(Suspend("paired", FALSE, 0))
        BY <2>2 DEF HandlePairSuccess
      <3> QED
        BY <1>0, <3>1, <3>2, SuspendedLonger DEF ConnectionType
    <2> QED
      BY <2>1, <2>2
  <1>3. storage' \in StorageRecords /\ StorageSame
    <2>1. CASE HandleAuthenticated(c)
      BY <1>0, <2>1, StorageRests DEF HandleAuthenticated, ConnectionType
    <2>2. ASSUME NEW n \in Codes, HandlePairSuccess(c, n)
          PROVE  storage' \in StorageRecords /\ StorageSame
      BY <1>0, <2>2, FlagStored DEF HandlePairSuccess
    <2> QED
      BY <2>1, <2>2
  <1>4. ConnectionType'
    BY <1>0, <1>1, <1>2, <1>3 DEF ConnectionType
  <1>5. OneEnd'
    BY <1>1, ConsumeKeepsOneEnd
  <1> QED
    BY <1>1, <1>3, <1>4, <1>5, ConnectionStepQuiet

\* The end that the bridge began, of this socket or of an older one, and the
\* state that onClose sets.
LEMMA SocketsEndQuiet ==
  ASSUME Types, OneEnd, UNCHANGED bridgeVars,
         Closed \/ \E c \in Conns : ClosingBegins(c) \/ OldSocketCloses(c)
  PROVE  Types' /\ OneEnd' /\ Quiet
  <1>0. TypeOK /\ ConnectionType
    BY ConnectionTyped DEF Types
  <1>1. /\ UNCHANGED <<socket, greeting, storage, RestOfClient, toClient>>
        /\ state' \in {state, "disconnected", "manually_disconnected"}
    BY DEF Closed, ClosingBegins, OldSocketCloses
  <1>2. suspended' \in Seq(Suspensions)
    <2>1. CASE Closed
      <3>1. GoesOn("onClose", <<>>)
        BY <2>1 DEF Closed
      <3> QED
        BY <1>0, <3>1, SuspendedLast DEF ConnectionType
    <2>2. CASE \E c \in Conns : ClosingBegins(c) \/ OldSocketCloses(c)
      BY <1>0, <2>2 DEF ClosingBegins, OldSocketCloses, ConnectionType
    <2> QED
      BY <2>1, <2>2
  <1>3. /\ OneEnd'
        /\ webSocket' \in [Conns -> {"none", "connecting", "open", "closing", "closed"}]
    <2>1. CASE UNCHANGED webSocket
      BY <1>0, <1>1, <2>1 DEF ConnectionType, OneEnd
    <2>2. ASSUME NEW c \in Conns, ClosingBegins(c) \/ OldSocketCloses(c)
          PROVE  /\ OneEnd'
                 /\ webSocket' \in [Conns -> {"none", "connecting", "open", "closing", "closed"}]
      <3>1. \E r \in {"closing", "closed"} : webSocket' = [webSocket EXCEPT ![c] = r]
        BY <2>2 DEF ClosingBegins, OldSocketCloses
      <3>2. toClient[c] = <<>>
        BY <2>2 DEF ClosingBegins, OldSocketCloses, OneEnd
      <3>3. webSocket' \in [Conns -> {"none", "connecting", "open", "closing", "closed"}]
        BY <1>0, <3>1 DEF ConnectionType
      <3>4. \A b \in Conns : /\ webSocket'[b] = "open" => webSocket[b] = "open"
                             /\ b # c => webSocket'[b] = webSocket[b]
        BY <1>0, <3>1 DEF ConnectionType
      <3>5. OneEnd'
        BY <1>1, <3>2, <3>4 DEF OneEnd
      <3> QED
        BY <3>3, <3>5
    <2> QED
      BY <2>1, <2>2 DEF Closed
  <1>4. ConnectionType'
    BY <1>0, <1>1, <1>2, <1>3 DEF ConnectionType
  <1> QED
    BY <1>1, <1>3, <1>4, ConnectionStepQuiet, StorageRests

LEMMA SessionEndsQuiet ==
  ASSUME Types, OneEnd, UNCHANGED bridgeVars,
         \/ HeartbeatTimesOut
         \/ \E c \in Conns : HandleError(c) \/ Unexpected(c) \/ \E i \in Operations : AcknowledgementMismatched(c, i)
         \/ \E d \in Deliveries : EnvelopeNotAcknowledged(d)
  PROVE  Types' /\ OneEnd' /\ Quiet
  <1>1. \E next \in {"disconnected", "blocked"} : EndSession(next)
    BY DEF HeartbeatTimesOut, HandleError, Unexpected, AcknowledgementMismatched, EnvelopeNotAcknowledged,
           FailProtocol, Block
  <1>2. UNCHANGED <<storage, toBridge>> /\ storing' \subseteq storing
    BY DEF HeartbeatTimesOut, HandleError, Unexpected, AcknowledgementMismatched, EnvelopeNotAcknowledged
  <1> QED
    BY <1>1, <1>2, EndSessionQuiet

\* The socket is closed and the operations end with it, on a close event and
\* when the browser restarts.
LEMMA AllEndsQuiet ==
  ASSUME Types, OneEnd, UNCHANGED bridgeVars, BrowserRestarts \/ \E c \in Conns : OnClose(c)
  PROVE  Types' /\ OneEnd' /\ Quiet
  <1>0. TypeOK /\ ConnectionType /\ 0 \in 0..MaxCodes
    BY ConnectionTyped, HandoffAssumption DEF Types
  <1>1. /\ CloseSocket /\ state' \in {state, "disconnected"} /\ storing' \subseteq storing
        /\ UNCHANGED <<greeting, storage, toBridge, accepted, reviewVars>>
        /\ pending' = Emptied(Kinds)
        /\ \E promise \in {"rejected", "lost"} : \E is : operations' = Ended(promise, is)
    BY DEF BrowserRestarts, OnClose, bridgeVars
  <1>2. OneEnd' /\ socket' = None
        /\ webSocket' \in [Conns -> {"none", "connecting", "open", "closing", "closed"}]
    BY <1>0, <1>1, CloseSocketKeeps
  <1>3. ToBridgeType' /\ ToClientType' /\ BridgeGreets /\ (\A m : ClientFlow(m))
    BY <1>1, BridgeKeeps, CloseFlows DEF Types
  <1>4. operations' \in [Operations -> OperationRecords] /\ OperationsSame
    BY <1>0, <1>1, EndedIs, EndedSame
  <1>5. pending' \in [Kinds -> Maybe(Operations)] /\ SlotsSame
    BY <1>0, <1>1, EmptiedIs, SlotsEmptied
  <1>6. ReviewTypes' /\ ReviewSame
    BY <1>1, ReviewRests DEF Types
  <1>7. suspended' \in Seq(Suspensions)
    <2>1. CASE BrowserRestarts
      BY <2>1, EmptySeq DEF BrowserRestarts
    <2>2. CASE \E c \in Conns : OnClose(c)
      <3>1. storage.manual \in BOOLEAN
        BY <1>0 DEF ConnectionType, StorageRecords
      <3>2. Suspend("onClose", storage.manual, 0) \in Suspensions
        BY <1>0, <3>1, SuspendIs DEF Methods
      <3>3. \E call \in Suspensions : Suspends(call)
        BY <2>2, <3>2 DEF OnClose
      <3> QED
        BY <1>0, <3>3, SuspendedLonger DEF ConnectionType
    <2> QED
      BY <2>1, <2>2
  <1>8. TypeOK'
    BY <1>0, <1>1, <1>2, <1>4, <1>5, <1>7 DEF TypeOK, ConnectionType, StorageRecords, OperationRecords, Maybe
  <1>9. Quiet
    BY <1>1, <1>3, <1>4, <1>5, <1>6, StorageRests DEF Quiet, Undisturbed, Noise
  <1> QED
    BY <1>2, <1>3, <1>6, <1>8, <1>9 DEF Types
\* Calls of the popup end without an answer, or repeat an accepted request.
LEMMA OperationsEndQuiet ==
  ASSUME Types, OneEnd, UNCHANGED bridgeVars, NEW i \in Operations,
         RequestRepeated(i) \/ OperationNotSent(i) \/ AcknowledgementMissing(i)
  PROVE  Types' /\ OneEnd' /\ Quiet
  <1>1. UNCHANGED <<sessionVars, storage, storing, channels>>
    BY DEF RequestRepeated, OperationNotSent, AcknowledgementMissing
  <1>2. UNCHANGED <<state, socket, webSocket, greeting, suspended, toBridge, toClient, accepted, reviewVars>>
    BY <1>1 DEF sessionVars, channels, bridgeVars
  <1>3. ToBridgeType' /\ ToClientType' /\ BridgeGreets /\ (\A m : ClientFlow(m))
    BY <1>2, BridgeKeeps, ClientKeeps DEF Types
  <1>4. OneEnd'
    BY <1>2 DEF OneEnd
  <1>5. ReviewTypes' /\ ReviewSame
    BY <1>2, ReviewRests DEF Types
  <1>6. pending' \in [Kinds -> Maybe(Operations)] /\ SlotsSame
    <2>1. CASE UNCHANGED pending
      BY <2>1, OperationsType DEF SlotsSame, Types
    <2>2. CASE AcknowledgementMissing(i)
      BY <2>2, EmptiedIs, SlotsEmptied DEF Types, AcknowledgementMissing
    <2> QED
      BY <2>1, <2>2 DEF RequestRepeated, OperationNotSent
  <1>7. operations' \in [Operations -> OperationRecords] /\ OperationsSame
    <2>1. CASE RequestRepeated(i)
      <3>1. /\ operations' = Ended("resolved", {i})
            /\ operations[i].kind = "review_request" /\ operations[i].request.number # i
        BY <2>1 DEF RequestRepeated, IsRepeated
      <3> QED
        BY <3>1, EndedIs DEF Types, OperationsSame
    <2>2. CASE OperationNotSent(i)
      BY <2>2, EndedIs, EndedSame DEF Types, OperationNotSent
    <2>3. CASE AcknowledgementMissing(i)
      <3>1. PICK is : operations' = [Ended("rejected", is) EXCEPT ![i].timer = FALSE]
        BY <2>3 DEF AcknowledgementMissing
      <3>2. PICK ops \in [Operations -> OperationRecords] :
              /\ ops = Ended("rejected", is)
              /\ \A j \in Operations : /\ ops[j].kind = operations[j].kind
                                       /\ ops[j].request = operations[j].request
                                       /\ ops[j].verdict = operations[j].verdict
                                       /\ j \in is => ops[j].promise = "rejected"
                                       /\ j \notin is => ops[j].promise = operations[j].promise
        BY EndedIs DEF Types
      <3>3. \A o \in OperationRecords :
              /\ [o EXCEPT !.timer = FALSE] \in OperationRecords
              /\ [o EXCEPT !.timer = FALSE].kind = o.kind
              /\ [o EXCEPT !.timer = FALSE].request = o.request
              /\ [o EXCEPT !.timer = FALSE].verdict = o.verdict
              /\ [o EXCEPT !.timer = FALSE].promise = o.promise
        BY DEF OperationRecords
      <3>4. operations' = [ops EXCEPT ![i] = [ops[i] EXCEPT !.timer = FALSE]]
        BY <3>1, <3>2
      <3>5. \A j \in Operations : /\ operations'[j].kind = ops[j].kind
                                  /\ operations'[j].request = ops[j].request
                                  /\ operations'[j].verdict = ops[j].verdict
                                  /\ operations'[j].promise = ops[j].promise
                                  /\ operations'[j] \in OperationRecords
        BY <3>3, <3>4
      <3>6. operations' \in [Operations -> OperationRecords]
        BY <3>4, <3>5
      <3>7. \A j \in Operations : operations'[j].promise \in {"rejected", operations[j].promise}
        BY <3>2, <3>5
      <3>8. OperationsSame
        BY <3>2, <3>5, <3>7 DEF OperationsSame
      <3> QED
        BY <3>6, <3>8
    <2> QED
      BY <2>1, <2>2, <2>3
  <1>8. TypeOK'
    BY <1>1, <1>2, <1>6, <1>7 DEF Types, TypeOK, OperationRecords
  <1>9. Quiet
    BY <1>1, <1>2, <1>3, <1>5, <1>6, <1>7, StorageRests DEF Quiet, Undisturbed, Noise
  <1> QED
    BY <1>3, <1>4, <1>5, <1>8, <1>9 DEF Types

----------------------------------------------------------------------------
(* The quiet steps of the bridge                                           *)

LEMMA OneEndKept ==
  ASSUME OneEnd, UNCHANGED <<socket, webSocket>>,
         \A b \in Conns : toClient'[b] = toClient[b] \/ webSocket[b] = "open"
  PROVE  OneEnd'
  BY DEF OneEnd

\* The client has no part in the step: it may be sent one more message that
\* does not matter, and less of what it sent is under way.
LEMMA BridgeStepQuiet ==
  ASSUME Types, OneEnd,
         UNCHANGED <<sessionVars, storage, pending, operations, storing, accepted>>,
         ReviewTypes', ReviewSame,
         ToBridgeType', BridgeGreets,
         ToClientType', NEW noise \in Noise, ClientFlow(noise),
         \A b \in Conns : toClient'[b] = toClient[b] \/ webSocket[b] = "open"
  PROVE  Types' /\ OneEnd' /\ Quiet
  <1>1. UNCHANGED <<state, socket, webSocket, greeting, suspended>>
    BY DEF sessionVars
  <1>2. OneEnd'
    BY <1>1, OneEndKept
  <1>3. TypeOK'
    BY <1>1 DEF Types, TypeOK
  <1>4. OperationsSame /\ SlotsSame /\ StorageSame
    BY OperationsRest, StorageRests DEF SlotsSame
  <1>5. Types'
    BY <1>3 DEF Types
  <1>6. Quiet
    BY <1>4 DEF Quiet, Undisturbed
  <1> QED
    BY <1>2, <1>5, <1>6

LEMMA ClientConnectsQuiet ==
  ASSUME Types, OneEnd, NEW c \in Conns, ClientConnects(c)
  PROVE  Types' /\ OneEnd' /\ Quiet
  <1>1. /\ socket = c /\ webSocket' = [webSocket EXCEPT ![c] = "open"] /\ state' \in {"pairing", "authenticating"}
        /\ Send(greeting[c])
        /\ UNCHANGED <<socket, greeting, suspended, storage, pending, operations, storing, toClient, accepted>>
    BY DEF ClientConnects, OnOpen
  <1>2. UNCHANGED reviewVars
    BY DEF ClientConnects, Bridge!Connect, Bridge!reviewVars, reviewVars
  <1>3. PICK g \in Greetings : g = greeting[c]
    BY DEF Types, TypeOK
  <1>4. ToBridgeType' /\ BridgeGreets
    BY <1>1, <1>3, SendFlows, GreetingIs DEF Types, BridgeGreets
  <1>5. ToClientType' /\ \A m : ClientFlow(m)
    BY <1>1, ClientKeeps DEF Types
  <1>6. TypeOK'
    BY <1>1 DEF Types, TypeOK
  <1>7. OneEnd'
    BY <1>1 DEF OneEnd, Types, TypeOK
  <1>8. ReviewTypes' /\ ReviewSame
    BY <1>2, ReviewRests DEF Types
  <1>9. OperationsSame /\ SlotsSame
    BY <1>1, OperationsRest DEF SlotsSame
  <1>10. Quiet
    BY <1>1, <1>4, <1>5, <1>8, <1>9, StorageRests DEF Quiet, Undisturbed, Noise
  <1> QED
    BY <1>4, <1>5, <1>6, <1>7, <1>8, <1>10 DEF Types

\* The bridge hears something and sends nothing.
LEMMA HearsQuiet ==
  ASSUME Types, OneEnd, NEW c \in Conns, NEW m, Hears(c, m), UNCHANGED <<toClient, accepted>>,
         ReviewTypes', ReviewSame
  PROVE  Types' /\ OneEnd' /\ Quiet
  <1>1. UNCHANGED <<sessionVars, storage, pending, operations, storing, accepted, toClient>>
    BY DEF Hears
  <1>2. ToBridgeType' /\ BridgeGreets
    BY HearsFlows DEF Types
  <1>3. ToClientType' /\ \A n : ClientFlow(n)
    BY <1>1, ClientKeeps DEF Types
  <1>4. ClientFlow(Message("error", 0)) /\ Message("error", 0) \in Noise
    BY <1>3 DEF Noise
  <1> QED
    BY <1>1, <1>2, <1>3, <1>4, BridgeStepQuiet

\* The bridge hears something and answers with an error.
LEMMA HearsErrorQuiet ==
  ASSUME Types, OneEnd, NEW c \in Conns, NEW m, Hears(c, m), ReplyError(c), UNCHANGED accepted,
         ReviewTypes', ReviewSame
  PROVE  Types' /\ OneEnd' /\ Quiet
  <1>1. UNCHANGED <<sessionVars, storage, pending, operations, storing, accepted>>
    BY DEF Hears
  <1>2. ToBridgeType' /\ BridgeGreets
    BY HearsFlows DEF Types
  <1>3. Message("error", 0) \in ToClientMessages /\ Message("error", 0) \in Noise
    BY DEF Message, ToClientMessages, Noise
  <1>4. /\ ToClientType' /\ ClientFlow(Message("error", 0))
        /\ \A b \in Conns : toClient'[b] = toClient[b] \/ webSocket[b] = "open"
    BY <1>3, ReplyFlows DEF Types, ReplyError
  <1> QED
    BY <1>1, <1>2, <1>3, <1>4, BridgeStepQuiet

\* The bridge sends something that does not matter of its own accord.
LEMMA RepliesQuiet ==
  ASSUME Types, OneEnd, NEW m \in Noise, NEW c, Reply(c, m), ClientWaits, UNCHANGED accepted,
         UNCHANGED reviewVars
  PROVE  Types' /\ OneEnd' /\ Quiet
  <1>1. UNCHANGED <<sessionVars, storage, pending, operations, storing, accepted, toBridge>>
    BY DEF ClientWaits
  <1>2. ToBridgeType' /\ BridgeGreets
    BY <1>1, BridgeKeeps DEF Types
  <1>3. m \in ToClientMessages
    BY DEF Message, ToClientMessages, Noise
  <1>4. /\ ToClientType' /\ ClientFlow(m)
        /\ \A b \in Conns : toClient'[b] = toClient[b] \/ webSocket[b] = "open"
    BY <1>3, ReplyFlows DEF Types
  <1>5. ReviewTypes' /\ ReviewSame
    BY ReviewRests DEF Types
  <1> QED
    BY <1>1, <1>2, <1>4, <1>5, BridgeStepQuiet

\* Closing connections and the timeout of an acknowledgement.
LEMMA BridgeAloneQuiet ==
  ASSUME Types, OneEnd, DeliveriesInTurn, UNCHANGED <<clientVars, accepted>>,
         UNCHANGED reviewVars \/ Bridge!RejectPending
  PROVE  Types' /\ OneEnd' /\ Quiet
  <1>1. UNCHANGED <<sessionVars, storage, pending, operations, storing, accepted, toBridge, toClient>>
    BY DEF clientVars, channels
  <1>2. ReviewTypes' /\ ReviewSame
    BY ReviewRests, RejectPendingKeeps DEF Types
  <1>3. ToBridgeType' /\ ToClientType' /\ BridgeGreets /\ (\A m : ClientFlow(m))
    BY <1>1, BridgeKeeps, ClientKeeps DEF Types
  <1>4. ClientFlow(Message("error", 0)) /\ Message("error", 0) \in Noise
    BY <1>3 DEF Noise
  <1> QED
    BY <1>1, <1>2, <1>3, <1>4, BridgeStepQuiet

LEMMA AuthenticationAcceptedQuiet ==
  ASSUME Types, OneEnd, AuthenticationAccepted
  PROVE  Types' /\ OneEnd' /\ Quiet
  <1>1. UNCHANGED reviewVars
    BY DEF AuthenticationAccepted, Bridge!AuthenticateAccepted, Bridge!reviewVars, reviewVars
  <1>2. PICK c : Reply(c, Message("authenticated", 0))
    BY DEF AuthenticationAccepted
  <1>3. ClientWaits /\ UNCHANGED accepted /\ Message("authenticated", 0) \in Noise
    BY DEF AuthenticationAccepted, Noise
  <1> QED
    BY <1>1, <1>2, <1>3, RepliesQuiet

LEMMA AuthenticationRejectedQuiet ==
  ASSUME Types, OneEnd, AuthenticationRejected \/ PairingFails
  PROVE  Types' /\ OneEnd' /\ Quiet
  <1>1. UNCHANGED reviewVars
    BY DEF AuthenticationRejected, PairingFails, Bridge!AuthenticateRejected, Bridge!StoreFails,
           Bridge!reviewVars, reviewVars
  <1>2. PICK c : Reply(c, Message("error", 0))
    BY DEF AuthenticationRejected, PairingFails, ReplyError
  <1>3. ClientWaits /\ UNCHANGED accepted /\ Message("error", 0) \in Noise
    BY DEF AuthenticationRejected, PairingFails, Noise
  <1> QED
    BY <1>1, <1>2, <1>3, RepliesQuiet

LEMMA PairingSucceedsQuiet ==
  ASSUME Types, OneEnd, NEW n \in Codes, PairingSucceeds(n)
  PROVE  Types' /\ OneEnd' /\ Quiet
  <1>1. UNCHANGED reviewVars
    BY DEF PairingSucceeds, Bridge!ExtensionStored, Bridge!reviewVars, reviewVars
  <1>2. PICK c : Reply(c, Message("pair_success", n))
    BY DEF PairingSucceeds
  <1>3. ClientWaits /\ UNCHANGED accepted /\ Message("pair_success", n) \in Noise
    BY DEF PairingSucceeds, Noise, Codes
  <1> QED
    BY <1>1, <1>2, <1>3, RepliesQuiet

\* What pairing, revoke() and the storage of VS Code do is no matter of the
\* review.
LEMMA PairingQuiet ==
  ASSUME Types, OneEnd, DeliveriesInTurn, CodeShown \/ PairingRevoked \/ TokenStored
  PROVE  Types' /\ OneEnd' /\ Quiet
  <1>1. UNCHANGED <<clientVars, accepted>>
    BY DEF CodeShown, PairingRevoked, TokenStored, ClientWaits, clientVars, channels
  <1>2. UNCHANGED reviewVars
    BY DEF CodeShown, PairingRevoked, TokenStored, Bridge!BeginPairing, Bridge!Revoke, Bridge!RevokeResumes,
           Bridge!HashStored, Bridge!reviewVars, reviewVars
  <1> QED
    BY <1>1, <1>2, BridgeAloneQuiet

LEMMA HandshakeEndsQuiet ==
  ASSUME Types, OneEnd, NEW c \in Conns, HandshakeEnds(c)
  PROVE  Types' /\ OneEnd' /\ Quiet
  <1>1. UNCHANGED reviewVars
    BY DEF HandshakeEnds, Bridge!HandshakeTimesOut, Bridge!reviewVars, reviewVars
  <1>2. Reply(c, Message("error", 0)) /\ ClientWaits /\ UNCHANGED accepted /\ Message("error", 0) \in Noise
    BY DEF HandshakeEnds, ReplyError, Noise
  <1> QED
    BY <1>1, <1>2, RepliesQuiet

LEMMA ClosingQuiet ==
  ASSUME Types, OneEnd, DeliveriesInTurn,
         BridgeTimesOut \/ \E c \in Conns : BridgeSeesClose(c) \/ BridgeCloseEvent(c)
  PROVE  Types' /\ OneEnd' /\ Quiet
  <1>1. UNCHANGED <<clientVars, accepted>>
    BY DEF BridgeTimesOut, BridgeSeesClose, BridgeCloseEvent
  <1>2. UNCHANGED reviewVars \/ Bridge!RejectPending
    BY DEF BridgeTimesOut, BridgeSeesClose, BridgeCloseEvent, Bridge!AcknowledgementTimesOut,
           Bridge!PeerCloses, Bridge!CloseEvent, Bridge!reviewVars, reviewVars
  <1> QED
    BY <1>1, <1>2, BridgeAloneQuiet

\* What the bridge hears and does not take.
LEMMA RefusalQuiet ==
  ASSUME Types, OneEnd, NEW c \in Conns, NEW m, Hears(c, m), Refuses(c)
  PROVE  Types' /\ OneEnd' /\ Quiet
  <1>1. ReplyError(c) /\ UNCHANGED reviewVars /\ UNCHANGED accepted
    BY DEF Refuses
  <1>2. ReviewTypes' /\ ReviewSame
    BY <1>1, ReviewRests DEF Types
  <1> QED
    BY <1>1, <1>2, HearsErrorQuiet

LEMMA GreetingHeardQuiet ==
  ASSUME Types, OneEnd, NEW c \in Conns,
         HeardTooEarly(c) \/ \E n \in Codes : BridgeHearsToken(c, n) \/ BridgeHearsCode(c, n)
  PROVE  Types' /\ OneEnd' /\ Quiet
  <1>1. UNCHANGED reviewVars /\ UNCHANGED accepted
    BY DEF BridgeHearsToken, BridgeHearsCode, HeardTooEarly, Bridge!Authenticate, Bridge!PairRequest,
           Bridge!UnacceptableMessage, Bridge!reviewVars, reviewVars
  <1>2. ReviewTypes' /\ ReviewSame
    BY <1>1, ReviewRests DEF Types
  <1>3. \E m : Hears(c, m)
    BY DEF BridgeHearsToken, BridgeHearsCode, HeardTooEarly
  <1>4. UNCHANGED toClient \/ ReplyError(c)
    BY DEF BridgeHearsToken, BridgeHearsCode, HeardTooEarly
  <1> QED
    BY <1>1, <1>2, <1>3, <1>4, HearsQuiet, HearsErrorQuiet

\* An acknowledgement of a delivery that is not pending, or of a browser that
\* is not authenticated.
LEMMA OtherAckQuiet ==
  ASSUME Types, OneEnd, DeliveriesInTurn, NEW c \in Conns, NEW d \in Deliveries,
         BridgeHearsAck(c, d), ~(Bridge!IsAuthenticated(c) /\ Bridge!Acknowledge(c, d))
  PROVE  Types' /\ OneEnd' /\ Quiet
  <1>1. Hears(c, Message("ack", d)) /\ UNCHANGED accepted
    BY DEF BridgeHearsAck
  <1>2. CASE ~Bridge!IsAuthenticated(c)
    <2>1. ReplyError(c) /\ UNCHANGED reviewVars
      BY <1>2 DEF BridgeHearsAck, Bridge!UnacceptableMessage, Bridge!reviewVars, reviewVars
    <2>2. ReviewTypes' /\ ReviewSame
      BY <2>1, ReviewRests DEF Types
    <2> QED
      BY <1>1, <2>1, <2>2, HearsErrorQuiet
  <1>3. CASE Bridge!IsAuthenticated(c)
    <2>1. UNCHANGED toClient /\ (UNCHANGED reviewVars \/ Bridge!RejectPending)
      BY <1>3 DEF BridgeHearsAck, Bridge!AcknowledgeOther
    <2>2. ReviewTypes' /\ ReviewSame
      BY <2>1, ReviewRests, RejectPendingKeeps DEF Types
    <2> QED
      BY <1>1, <2>1, <2>2, HearsQuiet
  <1> QED
    BY <1>2, <1>3

----------------------------------------------------------------------------
(* Steps that leave the bridge's review and the channels alone             *)

LEMMA ChannelsRest ==
  ASSUME UNCHANGED <<toBridge, toClient>>
  PROVE  /\ \A m : Carries(toBridge, m)' <=> Carries(toBridge, m)
         /\ \A m : Carries(toClient, m)' <=> Carries(toClient, m)
         /\ EnvelopeUnderWay' <=> EnvelopeUnderWay
  BY DEF Carries, EnvelopeUnderWay

LEMMA DeliveriesRest ==
  ASSUME DeliveriesInTurn, UNCHANGED <<reviewVars, storing>>,
         \A d : Carries(toBridge, Message("ack", d))' => Carries(toBridge, Message("ack", d)),
         \A d : Carries(toClient, Message("implementation_review_envelope", d))'
                  => Carries(toClient, Message("implementation_review_envelope", d))
  PROVE  DeliveriesInTurn'
  BY DEF DeliveriesInTurn, Sent, reviewVars

\* A call of the popup begins: operation i is not known anywhere yet.
LEMMA NothingOfUnissued ==
  ASSUME Types, Agreement, NEW i \in Operations, ~Issued(i)
  PROVE  /\ i \notin accepted
         /\ \A k \in Kinds : pending[k] # i
         /\ \A k \in Kinds : ~Carries(toBridge, Message(k, i))
         /\ ~Carries(toClient, Message("ack", i))
  <1>1. OperationsSent /\ i \in Nat
    BY DEF Agreement, Operations
  <1>2. i \notin accepted
    BY <1>1 DEF OperationsSent
  <1>3. ASSUME NEW k \in Kinds PROVE pending[k] # i
    <2>1. i # None
      BY HandoffAssumption
    <2>2. pending[k] = i => Issued(i)
      BY <1>1, <2>1 DEF OperationsSent
    <2> QED
      BY <2>2
  <1>4. \A k \in Kinds : ~Carries(toBridge, Message(k, i))
    BY <1>1 DEF OperationsSent
  <1>5. ~Carries(toClient, Message("ack", i))
    BY <1>1 DEF OperationsSent
  <1> QED
    BY <1>2, <1>3, <1>4, <1>5

BeginsWith(i, kind, request, verdict) ==
  /\ kind = "review_request" => request \in Requests /\ request.number \in accepted \union {i}
  /\ kind = "review_decision" =>
       /\ request \in Requests /\ verdict \in Verdicts
       /\ request.number \in accepted /\ request = storage.request

LEMMA BeginsKeeps ==
  ASSUME Types, OneEnd, Agreement, NEW i \in Operations, NEW kind \in Kinds,
         NEW request \in Maybe(Requests), NEW verdict \in Maybe(Verdicts),
         Begins(i, kind, request, verdict), BeginsWith(i, kind, request, verdict), UNCHANGED bridgeVars
  PROVE  Types' /\ OneEnd' /\ Agreement'
  <1> DEFINE new == [kind |-> kind, request |-> request, verdict |-> verdict,
                     promise |-> "preparing", timer |-> FALSE]
  <1>1. /\ operations[i] = NoOperation /\ operations' = [operations EXCEPT ![i] = new]
        /\ UNCHANGED <<sessionVars, storage, pending, storing, channels, accepted, reviewVars>>
    BY DEF Begins, bridgeVars
  <1>2. UNCHANGED <<state, socket, webSocket, greeting, suspended, toBridge, toClient>>
    BY <1>1 DEF sessionVars, channels
  <1>3. new \in OperationRecords
    BY DEF OperationRecords, Maybe
  <1> HIDE DEF new
  <1>4. operations' \in [Operations -> OperationRecords]
    BY <1>1, <1>3, OperationsType DEF Types
  <1>5. /\ \A j \in Operations : j # i => operations'[j] = operations[j]
        /\ operations'[i] = new
    BY <1>1, OperationsType DEF Types
  <1>6. /\ new.kind = kind /\ new.request = request /\ new.verdict = verdict /\ new.promise = "preparing"
    BY DEF new
  <1>7. ~Issued(i)
    BY <1>1 DEF Issued, NoOperation
  <1>8. /\ i \notin accepted
        /\ \A k \in Kinds : pending[k] # i
        /\ \A k \in Kinds : ~Carries(toBridge, Message(k, i))
        /\ ~Carries(toClient, Message("ack", i))
    BY <1>7, NothingOfUnissued
  <1>9. /\ \A m : Carries(toBridge, m)' <=> Carries(toBridge, m)
        /\ \A m : Carries(toClient, m)' <=> Carries(toClient, m)
        /\ EnvelopeUnderWay' <=> EnvelopeUnderWay
    BY <1>2, ChannelsRest
  <1>10. Types'
    <2>1. TypeOK'
      BY <1>1, <1>2, <1>4 DEF Types, TypeOK, OperationRecords
    <2>2. ToBridgeType' /\ ToClientType'
      BY <1>2, BridgeKeeps, ClientKeeps DEF Types
    <2>3. ReviewTypes'
      BY <1>1, ReviewRests DEF Types
    <2> QED
      BY <2>1, <2>2, <2>3 DEF Types
  <1>11. OneEnd'
    BY <1>2 DEF OneEnd
  <1>12. DeliveriesInTurn'
    BY <1>1, <1>9, DeliveriesRest DEF Agreement
  <1>13. \A j \in Operations : Issued(j)' => Issued(j) /\ j # i
    BY <1>5, <1>6 DEF Issued
  <1>14. \A j \in Operations : Issued(j) => Issued(j)' /\ operations'[j] = operations[j]
    BY <1>5, <1>7 DEF Issued
  <1>15. OperationsSent'
    <2>1. OperationsSent
      BY DEF Agreement
    <2>2. \A j \in Operations : /\ operations'[j].promise = "preparing" => operations'[j].kind \in Kinds
                                /\ j \in accepted' => Issued(j)'
      BY <1>1, <1>5, <1>6, <1>8, <1>14, <2>1 DEF OperationsSent
    <2>3. (\A k \in Kinds : pending[k] # None => operations[pending[k]].kind = k /\ Issued(pending[k]))'
      <3> SUFFICES ASSUME NEW k \in Kinds, pending'[k] # None
                   PROVE  (operations[pending[k]].kind = k /\ Issued(pending[k]))'
        OBVIOUS
      <3>1. PICK j \in Operations : j = pending[k] /\ j = pending'[k]
        BY <1>1, OperationsType DEF Types, Maybe
      <3>2. operations[j].kind = k /\ Issued(j)
        BY <1>1, <2>1, <3>1 DEF OperationsSent
      <3>3. operations'[j].kind = k /\ Issued(j)'
        BY <1>14, <3>2
      <3> QED
        BY <3>1, <3>3 DEF Issued
    <2>4. (\A k \in Kinds, j \in Nat : Carries(toBridge, Message(k, j)) =>
            /\ j \in Operations /\ operations[j].kind = k
            /\ Issued(j) /\ j \notin accepted
            /\ k = "review_request" => operations[j].request.number = j)'
      BY <1>1, <1>9, <1>14, <2>1 DEF OperationsSent
    <2>5. (\A j \in Nat : Carries(toClient, Message("ack", j)) =>
            j \in Operations /\ Issued(j) /\ j \in accepted)'
      BY <1>1, <1>9, <1>14, <2>1 DEF OperationsSent
    <2> QED
      BY <2>2, <2>3, <2>4, <2>5 DEF OperationsSent
  <1>16. SentOnce'
    BY <1>2 DEF Agreement, SentOnce
  <1>17. ReviewsAccepted'
    <2>1. storage.request # None => storage.request.number \in accepted
      BY DEF Agreement, ReviewsAccepted
    <2>2. ASSUME NEW j \in Operations
          PROVE  (/\ operations[j].kind = "review_request" =>
                       /\ operations[j].request \in Requests
                       /\ operations[j].request.number \in accepted \union {j}
                  /\ operations[j].kind = "review_decision" =>
                       /\ operations[j].request \in Requests /\ operations[j].verdict \in Verdicts
                       /\ operations[j].request.number \in accepted
                       /\ operations[j].request = storage.request
                            \/ operations[j].request # latestReviewRequest)'
      <3>1. CASE j = i
        BY <1>1, <1>5, <1>6, <3>1 DEF BeginsWith
      <3>2. CASE j # i
        <4>1. operations'[j] = operations[j] /\ latestReviewRequest' = latestReviewRequest
          BY <1>1, <1>5, <3>2 DEF reviewVars
        <4> QED
          BY <1>1, <4>1 DEF Agreement, ReviewsAccepted
      <3> QED
        BY <3>1, <3>2
    <2> QED
      BY <1>1, <2>1, <2>2 DEF ReviewsAccepted
  <1>18. \A j \in Operations : \A k : Answered(j, k)' => Answered(j, k) /\ operations'[j] = operations[j]
    BY <1>5, <1>8, <1>9 DEF Answered
  <1>19. ChannelInOrder'
    <2>1. AnswersKeepKinds
      BY <1>14 DEF AnswersKeepKinds, Agreement, OperationsSent
    <2>2. ClientFlow(Message("error", 0))
      BY <1>2, ClientKeeps DEF Types
    <2>3. Message("error", 0).type = "error"
      BY DEF Message
    <2> QED
      BY <1>10, <2>1, <2>2, <2>3, OrderKept DEF Agreement
  <1>20. AnswersBelong'
    BY <1>1, <1>18 DEF Agreement, AnswersBelong
  <1>21. AcknowledgementHolds'
    BY <1>1, <1>9, <1>18 DEF Agreement, AcknowledgementHolds, reviewVars
  <1>22. AcknowledgedHolds'
    BY <1>1, <1>9, <1>18 DEF Agreement, AcknowledgedHolds, reviewVars
  <1>23. StoredReviewBelongs'
    BY <1>1 DEF Agreement, StoredReviewBelongs
  <1>24. ResolvedWasAccepted'
    BY <1>1, <1>5, <1>6 DEF Agreement, ResolvedWasAccepted
  <1>25. Agreement'
    BY <1>12, <1>15, <1>16, <1>17, <1>19, <1>20, <1>21, <1>22, <1>23, <1>24 DEF Agreement
  <1> QED
    BY <1>10, <1>11, <1>25

LEMMA CallsBegin ==
  ASSUME Types, OneEnd, Agreement, NEW i \in Operations, UNCHANGED bridgeVars,
         \/ SendTestPrompt(i) \/ CreateReviewRequest(i)
         \/ \E verdict \in Verdicts : SendReviewDecision(i, verdict)
  PROVE  Types' /\ OneEnd' /\ Agreement'
  <1>1. ReviewsAccepted /\ TypeOK
    BY DEF Agreement, Types
  <1>2. CASE SendTestPrompt(i)
    <2>1. "browser_test_prompt" \in Kinds /\ None \in Maybe(Requests) /\ None \in Maybe(Verdicts)
      BY DEF Kinds, Maybe
    <2>2. Begins(i, "browser_test_prompt", None, None) /\ BeginsWith(i, "browser_test_prompt", None, None)
      BY <1>2 DEF SendTestPrompt, BeginsWith
    <2> QED
      BY <2>1, <2>2, BeginsKeeps
  <1>3. CASE CreateReviewRequest(i)
    <2>1. PICK request : request = RequestOf(i)
      OBVIOUS
    <2>2. request \in Requests /\ request.number \in accepted \union {i}
      <3>1. CASE HasRequest
        BY <1>1, <2>1, <3>1 DEF HasRequest, RequestOf, ReviewsAccepted, TypeOK, Maybe
      <3>2. CASE ~HasRequest
        BY <1>1, <1>3, <2>1, <3>2 DEF CreateReviewRequest, RequestOf, Requests, TypeOK, Maybe
      <3> QED
        BY <3>1, <3>2
    <2>3. "review_request" \in Kinds /\ request \in Maybe(Requests) /\ None \in Maybe(Verdicts)
      BY <2>2 DEF Kinds, Maybe
    <2>4. Begins(i, "review_request", request, None) /\ BeginsWith(i, "review_request", request, None)
      BY <1>3, <2>1, <2>2 DEF CreateReviewRequest, BeginsWith
    <2> QED
      BY <2>3, <2>4, BeginsKeeps
  <1>4. CASE \E verdict \in Verdicts : SendReviewDecision(i, verdict)
    <2>1. PICK verdict \in Verdicts : SendReviewDecision(i, verdict)
      BY <1>4
    <2>2. PICK request : request = storage.request
      OBVIOUS
    <2>3. request \in Requests /\ request.number \in accepted
      BY <1>1, <2>1, <2>2 DEF SendReviewDecision, HasRequest, ReviewsAccepted, TypeOK, Maybe
    <2>4. "review_decision" \in Kinds /\ request \in Maybe(Requests) /\ verdict \in Maybe(Verdicts)
      BY <2>3 DEF Kinds, Maybe
    <2>5. Begins(i, "review_decision", request, verdict) /\ BeginsWith(i, "review_decision", request, verdict)
      BY <2>1, <2>2, <2>3 DEF SendReviewDecision, BeginsWith
    <2> QED
      BY <2>4, <2>5, BeginsKeeps
  <1> QED
    BY <1>2, <1>3, <1>4

----------------------------------------------------------------------------
(* The client sends                                                        *)

\* A message that is not under way yet is sent once.
LEMMA SentOnceAppend ==
  ASSUME Types, Types', SentOnce, NEW message \in ToBridgeMessages, Send(message),
         message.type \in Kinds => ~Carries(toBridge, message)
  PROVE  SentOnce'
  <1>1. \A a \in Conns : toBridge[a] \in Seq(ToBridgeMessages)
    BY DEF Types, ToBridgeType
  <1>2. toBridge' = [b \in Conns |-> IF b = socket THEN Append(toBridge[b], message) ELSE toBridge[b]]
    BY DEF Send, Types, ToBridgeType
  <1>3. \A a \in Conns : /\ Len(Append(toBridge[a], message)) = Len(toBridge[a]) + 1
                         /\ \A r \in 1..Len(toBridge[a]) : Append(toBridge[a], message)[r] = toBridge[a][r]
                         /\ Append(toBridge[a], message)[Len(toBridge[a]) + 1] = message
    BY <1>1, AppendProperties
  <1>4. ASSUME NEW a \in Conns, NEW r \in 1..Len(toBridge'[a])
        PROVE  \/ r \in 1..Len(toBridge[a]) /\ toBridge'[a][r] = toBridge[a][r]
               \/ a = socket /\ r = Len(toBridge[a]) + 1 /\ toBridge'[a][r] = message
    <2>1. CASE a = socket
      <3>1. toBridge'[a] = Append(toBridge[a], message)
        BY <1>2, <2>1
      <3>2. Len(toBridge[a]) \in Nat
        BY <1>1
      <3>3. r \in 1..Len(toBridge[a]) \/ r = Len(toBridge[a]) + 1
        BY <1>3, <3>1, <3>2
      <3> QED
        BY <1>3, <2>1, <3>1, <3>3
    <2>2. CASE a # socket
      BY <1>2, <2>2
    <2> QED
      BY <2>1, <2>2
  <1>5. \A a \in Conns : \A r \in 1..Len(toBridge[a]) :
          toBridge[a][r] = message => message.type \notin Kinds
    BY DEF Carries
  <1> SUFFICES ASSUME NEW c \in Conns, NEW b \in Conns,
                      NEW p \in 1..Len(toBridge'[c]), NEW q \in 1..Len(toBridge'[b]),
                      toBridge'[c][p] = toBridge'[b][q], toBridge'[c][p].type \in Kinds
               PROVE  c = b /\ p = q
    BY DEF SentOnce
  <1>6. CASE p \in 1..Len(toBridge[c]) /\ toBridge'[c][p] = toBridge[c][p]
    <2>1. toBridge'[b][q] # message
      BY <1>5, <1>6
    <2>2. q \in 1..Len(toBridge[b]) /\ toBridge'[b][q] = toBridge[b][q]
      BY <1>4, <2>1
    <2>3. toBridge[c][p] = toBridge[b][q] /\ toBridge[c][p].type \in Kinds
      BY <1>6, <2>2
    <2> QED
      BY <1>6, <2>2, <2>3 DEF SentOnce
  <1>7. CASE c = socket /\ p = Len(toBridge[c]) + 1 /\ toBridge'[c][p] = message
    <2>1. ~(q \in 1..Len(toBridge[b]) /\ toBridge'[b][q] = toBridge[b][q])
      BY <1>5, <1>7
    <2>2. b = socket /\ q = Len(toBridge[b]) + 1
      BY <1>4, <2>1
    <2> QED
      BY <1>7, <2>2
  <1> QED
    BY <1>4, <1>6, <1>7

\* Storage, review, calls and what is received stay: what is left is what the
\* sent message may disturb.
LEMMA UndisturbedAgreement ==
  ASSUME Types, Types', Undisturbed, Agreement,
         DeliveriesInTurn', OperationsSent', SentOnce', AcknowledgementHolds'
  PROVE  Agreement'
  BY ReviewsUndisturbed, OrderUndisturbed, BelongsUndisturbed, AcknowledgedUndisturbed,
     StoredUndisturbed, ResolvedUndisturbed DEF Agreement

LEMMA OperationSentKeeps ==
  ASSUME Types, OneEnd, Agreement, NEW i \in Operations, OperationSent(i), UNCHANGED bridgeVars
  PROVE  Types' /\ OneEnd' /\ Agreement'
  <1>1. PICK kind : kind = operations[i].kind
    OBVIOUS
  <1>2. /\ operations[i].promise = "preparing"
        /\ kind = "review_request" => operations[i].request.number = i
        /\ Send(Message(kind, i))
        /\ operations' = [operations EXCEPT ![i].promise = "waiting", ![i].timer = TRUE]
        /\ pending' = [pending EXCEPT ![kind] = i]
        /\ UNCHANGED <<sessionVars, storage, storing, toClient, accepted, reviewVars>>
    BY <1>1 DEF OperationSent, IsRepeated, bridgeVars
  <1>3. TypeOK /\ operations \in [Operations -> OperationRecords] /\ pending \in [Kinds -> Maybe(Operations)]
    BY OperationsType DEF Types
  <1>4. kind \in Kinds
    BY <1>1, <1>2 DEF Agreement, OperationsSent
  <1>5. /\ operations' \in [Operations -> OperationRecords]
        /\ \A j \in Operations : /\ operations'[j].kind = operations[j].kind
                                 /\ operations'[j].request = operations[j].request
                                 /\ operations'[j].verdict = operations[j].verdict
                                 /\ operations'[j].promise = IF j = i THEN "waiting" ELSE operations[j].promise
    <2>1. \A o \in OperationRecords :
            /\ [o EXCEPT !.promise = "waiting", !.timer = TRUE] \in OperationRecords
            /\ [o EXCEPT !.promise = "waiting", !.timer = TRUE].kind = o.kind
            /\ [o EXCEPT !.promise = "waiting", !.timer = TRUE].request = o.request
            /\ [o EXCEPT !.promise = "waiting", !.timer = TRUE].verdict = o.verdict
            /\ [o EXCEPT !.promise = "waiting", !.timer = TRUE].promise = "waiting"
      BY DEF OperationRecords
    <2>2. operations[i] \in OperationRecords
      BY <1>3
    <2>3. operations' = [operations EXCEPT ![i] = [operations[i] EXCEPT !.promise = "waiting", !.timer = TRUE]]
      BY <1>2, <1>3
    <2>4. PICK new \in OperationRecords :
            /\ new = [operations[i] EXCEPT !.promise = "waiting", !.timer = TRUE]
            /\ new.kind = operations[i].kind /\ new.request = operations[i].request
            /\ new.verdict = operations[i].verdict /\ new.promise = "waiting"
      BY <2>1, <2>2
    <2>5. operations' = [operations EXCEPT ![i] = new]
      BY <2>3, <2>4
    <2> QED
      BY <1>3, <2>4, <2>5
  <1>6. i \in Nat /\ Message(kind, i) \in ToBridgeMessages /\ Message(kind, i).type = kind
    BY <1>4 DEF Operations, Message, ToBridgeMessages
  <1>7. ToBridgeType' /\ BridgeFlow(Message(kind, i))
    BY <1>2, <1>6, SendFlows DEF Types
  <1>8. ToClientType' /\ \A m : ClientFlow(m)
    BY <1>2, ClientKeeps DEF Types
  <1>9. Types'
    <2>1. UNCHANGED <<state, socket, webSocket, greeting, suspended>>
      BY <1>2 DEF sessionVars
    <2>2. pending' \in [Kinds -> Maybe(Operations)]
      BY <1>2, <1>3, <1>4 DEF Maybe
    <2>3. TypeOK'
      BY <1>2, <1>3, <1>5, <2>1, <2>2 DEF TypeOK, OperationRecords
    <2>4. ReviewTypes'
      BY <1>2, ReviewRests DEF Types
    <2> QED
      BY <1>7, <1>8, <2>3, <2>4 DEF Types
  <1>10. OneEnd'
    BY <1>2 DEF OneEnd, sessionVars
  <1>11. OperationsSame
    BY <1>5 DEF OperationsSame
  <1>12. Undisturbed
    <2>1. ReviewSame
      BY <1>2, ReviewRests DEF Types
    <2> QED
      BY <1>2, <1>8, <1>11, <2>1, StorageRests DEF Undisturbed, Noise
  <1>13. ~Issued(i)
    BY <1>2 DEF Issued
  <1>14. i \notin accepted /\ ~Carries(toBridge, Message(kind, i)) /\ ~Carries(toClient, Message("ack", i))
    BY <1>4, <1>13, NothingOfUnissued
  <1>15. \A m : Carries(toBridge, m)' => m = Message(kind, i) \/ Carries(toBridge, m)
    BY <1>7, <1>9, BridgeFlowCarries DEF Types
  <1>16. \A d : Message("ack", d) # Message(kind, i)
    BY <1>4 DEF Message, Kinds
  <1>17. \A d : Carries(toBridge, Message("ack", d))' => Carries(toBridge, Message("ack", d))
    BY <1>15, <1>16
  <1>18. \A m : Carries(toClient, m)' <=> Carries(toClient, m)
    BY <1>2 DEF Carries
  <1>19. DeliveriesInTurn'
    BY <1>2, <1>17, <1>18, DeliveriesRest DEF Agreement
  <1>20. OperationsSent'
    <2>1. OperationsSent /\ accepted' = accepted
      BY <1>2 DEF Agreement
    <2>2. \A j \in Operations : /\ Issued(j) => Issued(j)'
                                /\ operations'[j].kind = operations[j].kind
                                /\ operations'[j].request = operations[j].request
      BY <1>5 DEF Issued
    <2>3. Issued(i)'
      BY <1>5 DEF Issued
    <2>4. \A j \in Operations : /\ operations'[j].promise = "preparing" => operations'[j].kind \in Kinds
                                /\ j \in accepted' => Issued(j)'
      BY <1>5, <2>1, <2>2 DEF OperationsSent
    <2>5. (\A k \in Kinds : pending[k] # None => operations[pending[k]].kind = k /\ Issued(pending[k]))'
      <3> SUFFICES ASSUME NEW k \in Kinds, pending'[k] # None
                   PROVE  (operations[pending[k]].kind = k /\ Issued(pending[k]))'
        OBVIOUS
      <3>1. CASE k = kind
        <4>1. pending'[k] = i
          BY <1>2, <1>3, <3>1
        <4>2. operations'[i].kind = k
          BY <1>1, <2>2, <3>1
        <4> QED
          BY <2>3, <4>1, <4>2 DEF Issued
      <3>2. CASE k # kind
        <4>1. PICK j \in Operations : j = pending[k] /\ j = pending'[k]
          BY <1>2, <1>3, <3>2 DEF Maybe
        <4>2. operations[j].kind = k /\ Issued(j)
          <5>1. pending[k] # None
            BY <4>1
          <5>2. operations[pending[k]].kind = k /\ Issued(pending[k])
            BY <2>1, <5>1 DEF OperationsSent
          <5> QED
            BY <4>1, <5>2 DEF Issued
        <4>3. operations'[j].kind = k /\ Issued(j)'
          BY <2>2, <4>2
        <4> QED
          BY <4>1, <4>3 DEF Issued
      <3> QED
        BY <3>1, <3>2
    <2>6. (\A k \in Kinds, j \in Nat : Carries(toBridge, Message(k, j)) =>
            /\ j \in Operations /\ operations[j].kind = k
            /\ Issued(j) /\ j \notin accepted
            /\ k = "review_request" => operations[j].request.number = j)'
      <3> SUFFICES ASSUME NEW k \in Kinds, NEW j \in Nat, Carries(toBridge, Message(k, j))'
                   PROVE  /\ j \in Operations /\ operations'[j].kind = k
                          /\ Issued(j)' /\ j \notin accepted'
                          /\ k = "review_request" => operations'[j].request.number = j
        OBVIOUS
      <3>1. CASE Message(k, j) = Message(kind, i)
        <4>1. k = kind /\ j = i
          BY <3>1 DEF Message
        <4> QED
          BY <1>1, <1>2, <1>14, <2>1, <2>2, <2>3, <4>1
      <3>2. CASE Carries(toBridge, Message(k, j))
        BY <2>1, <2>2, <3>2 DEF OperationsSent
      <3> QED
        BY <1>15, <3>1, <3>2
    <2>7. (\A j \in Nat : Carries(toClient, Message("ack", j)) =>
            j \in Operations /\ Issued(j) /\ j \in accepted)'
      BY <1>18, <2>1, <2>2 DEF OperationsSent
    <2> QED
      BY <2>4, <2>5, <2>6, <2>7 DEF OperationsSent
  <1>21. SentOnce'
    BY <1>2, <1>6, <1>9, <1>14, SentOnceAppend DEF Agreement
  <1>22. AcknowledgementHolds'
    <2>1. \A j \in Operations : \A k : Answered(j, k)' <=> Answered(j, k)
      BY <1>5, <1>18 DEF Answered
    <2>2. EnvelopeUnderWay' <=> EnvelopeUnderWay
      BY <1>18 DEF EnvelopeUnderWay
    <2> QED
      BY <1>2, <1>17, <2>1, <2>2 DEF Agreement, AcknowledgementHolds, reviewVars
  <1> QED
    BY <1>9, <1>10, <1>12, <1>19, <1>20, <1>21, <1>22, UndisturbedAgreement

LEMMA EnvelopeStoredKeeps ==
  ASSUME Types, OneEnd, Agreement, NEW d \in Deliveries, EnvelopeStored(d), UNCHANGED bridgeVars
  PROVE  Types' /\ OneEnd' /\ Agreement'
  <1>1. /\ d \in storing /\ storing' = storing \ {d} /\ Send(Message("ack", d))
        /\ UNCHANGED <<sessionVars, storage, pending, operations, toClient, accepted, reviewVars>>
    BY DEF EnvelopeStored, bridgeVars
  <1>2. d \in Nat /\ Message("ack", d) \in ToBridgeMessages /\ Message("ack", d).type \notin Kinds
    BY DEF Deliveries, Message, ToBridgeMessages, Kinds
  <1>3. ToBridgeType' /\ BridgeFlow(Message("ack", d))
    BY <1>1, <1>2, SendFlows DEF Types
  <1>4. ToClientType' /\ \A m : ClientFlow(m)
    BY <1>1, ClientKeeps DEF Types
  <1>5. ReviewTypes' /\ ReviewSame
    BY <1>1, ReviewRests DEF Types
  <1>6. Types'
    <2>1. TypeOK'
      BY <1>1 DEF Types, TypeOK, sessionVars
    <2> QED
      BY <1>3, <1>4, <1>5, <2>1 DEF Types
  <1>7. OneEnd'
    BY <1>1 DEF OneEnd, sessionVars
  <1>8. Undisturbed
    BY <1>1, <1>4, <1>5, StorageRests, OperationsRest DEF Undisturbed, Noise
  <1>9. \A m : Carries(toBridge, m)' => m = Message("ack", d) \/ Carries(toBridge, m)
    BY <1>3, <1>6, BridgeFlowCarries DEF Types
  <1>10. /\ \A k \in Kinds : \A i : Carries(toBridge, Message(k, i))' => Carries(toBridge, Message(k, i))
         /\ \A p : Carries(toBridge, Message("ack", p))' => p = d \/ Carries(toBridge, Message("ack", p))
    <2>1. \A k \in Kinds : \A i : Message(k, i) # Message("ack", d)
      BY DEF Message, Kinds
    <2>2. \A p : Message("ack", p) = Message("ack", d) => p = d
      BY DEF Message
    <2> QED
      BY <1>9, <2>1, <2>2
  <1>11. \A m : Carries(toClient, m)' <=> Carries(toClient, m)
    BY <1>1 DEF Carries
  <1>12. DeliveriesInTurn'
    <2>1. DeliveriesInTurn
      BY DEF Agreement
    <2>2. \A p : Sent(p)' <=> Sent(p)
      BY <1>1 DEF Sent, reviewVars
    <2>3. (\A p \in Deliveries : p \in storing \/ Carries(toBridge, Message("ack", p)) => Sent(p))'
      BY <1>1, <1>10, <2>1, <2>2 DEF DeliveriesInTurn
    <2>4. (\A p \in Nat : Carries(toClient, Message("implementation_review_envelope", p)) =>
            p \in Deliveries /\ Sent(p))'
      BY <1>11, <2>1, <2>2 DEF DeliveriesInTurn
    <2>5. (/\ \A p \in Deliveries : Sent(p) => \A q \in 1..(p - 1) : Sent(q)
           /\ pendingDelivery # None =>
                /\ Sent(pendingDelivery) /\ latestAcknowledgedDelivery = None
                /\ \A p \in Deliveries : p > pendingDelivery => ~Sent(p)
           /\ latestAcknowledgedDelivery = None =>
                latestReviewRequest = None /\ latestReviewDecision = None)'
      BY <1>1, <2>1 DEF DeliveriesInTurn, Sent, reviewVars
    <2> QED
      BY <2>3, <2>4, <2>5 DEF DeliveriesInTurn
  <1>13. OperationsSent'
    BY <1>1, <1>10, <1>11 DEF Agreement, OperationsSent, Issued
  <1>14. SentOnce'
    BY <1>1, <1>2, <1>6, SentOnceAppend DEF Agreement
  <1>15. AcknowledgementHolds'
    <2>1. \A j \in Operations : \A k : Answered(j, k)' <=> Answered(j, k)
      BY <1>1, <1>11 DEF Answered
    <2>2. EnvelopeUnderWay' <=> EnvelopeUnderWay
      BY <1>11 DEF EnvelopeUnderWay
    <2>3. pendingDelivery' \in storing' \/ Carries(toBridge, Message("ack", pendingDelivery))'
            => pendingDelivery \in storing \/ Carries(toBridge, Message("ack", pendingDelivery))
      <3>1. PICK p : p = pendingDelivery /\ p = pendingDelivery'
        BY <1>1 DEF reviewVars
      <3>2. p \in storing' \/ Carries(toBridge, Message("ack", p))'
              => p \in storing \/ Carries(toBridge, Message("ack", p))
        BY <1>1, <1>10
      <3> QED
        BY <3>1, <3>2 DEF Carries
    <2> QED
      BY <1>1, <2>1, <2>2, <2>3 DEF Agreement, AcknowledgementHolds, reviewVars
  <1> QED
    BY <1>6, <1>7, <1>8, <1>12, <1>13, <1>14, <1>15, UndisturbedAgreement

----------------------------------------------------------------------------
(* The client receives                                                     *)

\* The next message of the current socket; nothing is under way elsewhere.
LEMMA ReceivesIs ==
  ASSUME Types, OneEnd, NEW c \in Conns, NEW m, Receives(c, m), Consume(c)
  PROVE  /\ toClient[c] # <<>> /\ toClient[c][1] = m /\ Carries(toClient, m)
         /\ ToClientType' /\ \A n : ClientFlow(n)
         /\ \A b \in Conns \ {c} : toClient'[b] = <<>>
         /\ Len(toClient'[c]) = Len(toClient[c]) - 1
         /\ \A q \in 1..Len(toClient'[c]) : toClient'[c][q] = toClient[c][q + 1]
  <1>1. toClient[c] # <<>> /\ Head(toClient[c]) = m /\ IsCurrent(c)
    BY DEF Receives
  <1>2. PICK old \in Seq(ToClientMessages) : old = toClient[c]
    BY DEF Types, ToClientType
  <1>3. /\ Head(old) = old[1] /\ Len(old) >= 1 /\ Len(Tail(old)) = Len(old) - 1
        /\ \A q \in 1..Len(Tail(old)) : Tail(old)[q] = old[q + 1]
    BY <1>1, <1>2, HeadTailProperties
  <1>4. ToClientType' /\ (\A n : ClientFlow(n)) /\ toClient'[c] = Tail(toClient[c])
        /\ \A b \in Conns \ {c} : toClient'[b] = toClient[b]
    BY <1>1, ConsumeFlows DEF Types
  <1>5. \A b \in Conns \ {c} : toClient[b] = <<>>
    BY <1>1 DEF OneEnd, IsCurrent
  <1>6. toClient[c][1] = m /\ 1 \in 1..Len(toClient[c])
    BY <1>1, <1>2, <1>3
  <1>7. Carries(toClient, m)
    BY <1>6 DEF Carries
  <1>8. /\ Len(toClient'[c]) = Len(toClient[c]) - 1
        /\ \A q \in 1..Len(toClient'[c]) : toClient'[c][q] = toClient[c][q + 1]
    BY <1>2, <1>3, <1>4
  <1> QED
    BY <1>1, <1>4, <1>5, <1>6, <1>7, <1>8

\* Behind an envelope come newer envelopes and no answers to reviews.
LEMMA BehindEnvelope ==
  ASSUME Types, OneEnd, ChannelInOrder, NEW c \in Conns, NEW d \in Nat,
         Receives(c, Message("implementation_review_envelope", d)), Consume(c)
  PROVE  /\ \A n \in Nat : Carries(toClient, Message("implementation_review_envelope", n))' => d < n
         /\ \A i : Carries(toClient, Message("ack", i))' => operations[i].kind \notin ReviewKinds
  <1>1. /\ toClient[c] # <<>> /\ toClient[c][1] = Message("implementation_review_envelope", d)
        /\ \A b \in Conns \ {c} : toClient'[b] = <<>>
        /\ Len(toClient'[c]) = Len(toClient[c]) - 1
        /\ \A q \in 1..Len(toClient'[c]) : toClient'[c][q] = toClient[c][q + 1]
    BY ReceivesIs
  <1>2. toClient[c] \in Seq(ToClientMessages)
    BY DEF Types, ToClientType
  <1>3. \A b \in Conns \ {c} : Len(toClient'[b]) = 0
    BY <1>1
  <1>4. ASSUME NEW m, Carries(toClient, m)'
        PROVE  \E r \in 2..Len(toClient[c]) : toClient[c][r] = m
    <2>1. PICK b \in Conns : \E q \in 1..Len(toClient'[b]) : toClient'[b][q] = m
      BY <1>4 DEF Carries
    <2>2. b = c
      BY <1>3, <2>1
    <2>3. PICK q \in 1..Len(toClient'[c]) : toClient'[c][q] = m
      BY <2>1, <2>2
    <2>4. q + 1 \in 2..Len(toClient[c]) /\ toClient[c][q + 1] = m
      BY <1>1, <1>2, <2>3
    <2> QED
      BY <2>4
  <1>5. \A r \in 2..Len(toClient[c]) : r \in 1..Len(toClient[c]) /\ 1 \in 1..(r - 1)
    BY <1>2
  <1>6. \A r \in 2..Len(toClient[c]) :
          /\ toClient[c][r].type = "implementation_review_envelope" => d < toClient[c][r].id
          /\ toClient[c][r].type = "ack" => operations[toClient[c][r].id].kind \notin ReviewKinds
    <2>1. toClient[c][1].type = "implementation_review_envelope" /\ toClient[c][1].id = d
      BY <1>1 DEF Message
    <2> QED
      BY <1>5, <2>1 DEF ChannelInOrder
  <1>7. ASSUME NEW n \in Nat, Carries(toClient, Message("implementation_review_envelope", n))'
        PROVE  d < n
    <2>1. PICK r \in 2..Len(toClient[c]) : toClient[c][r] = Message("implementation_review_envelope", n)
      BY <1>4, <1>7
    <2> QED
      BY <1>6, <2>1 DEF Message
  <1>8. ASSUME NEW i, Carries(toClient, Message("ack", i))'
        PROVE  operations[i].kind \notin ReviewKinds
    <2>1. PICK r \in 2..Len(toClient[c]) : toClient[c][r] = Message("ack", i)
      BY <1>4, <1>8
    <2> QED
      BY <1>6, <2>1 DEF Message
  <1> QED
    BY <1>7, <1>8

\* Operations, slots and what the bridge hears stay.
LEMMA OperationsSentRests ==
  ASSUME OperationsSent, UNCHANGED <<pending, operations, accepted, toBridge>>,
         \A i : Carries(toClient, Message("ack", i))' => Carries(toClient, Message("ack", i))
  PROVE  OperationsSent'
  <1>1. \A m : Carries(toBridge, m)' <=> Carries(toBridge, m)
    BY DEF Carries
  <1> QED
    BY <1>1 DEF OperationsSent, Issued

LEMMA HandleEnvelopeKeeps ==
  ASSUME Types, OneEnd, Agreement, NEW c \in Conns, NEW d \in Deliveries,
         HandleEnvelope(c, d, delivery[d].envelope), UNCHANGED bridgeVars
  PROVE  Types' /\ OneEnd' /\ Agreement'
  <1>1. /\ Receives(c, Message("implementation_review_envelope", d)) /\ Consume(c)
        /\ storage' = [storage EXCEPT !.envelope = delivery[d].envelope, !.request = None, !.decision = None]
        /\ storing' = storing \union {d}
        /\ UNCHANGED <<sessionVars, pending, operations, toBridge, accepted, reviewVars>>
    BY DEF HandleEnvelope, StoreEnvelope, bridgeVars
  <1>2. UNCHANGED <<state, socket, webSocket, greeting, suspended>>
    BY <1>1 DEF sessionVars
  <1>3. d \in Nat /\ delivery[d].envelope \in Maybe(Envelopes)
    BY DEF Deliveries, Types, ReviewTypes
  <1>4. /\ storage' \in [manual : BOOLEAN, token : 0..MaxCodes, envelope : Maybe(Envelopes), request : Maybe(Requests),
                         decision : Maybe([request : Requests, verdict : Verdicts])]
        /\ storage'.envelope = delivery[d].envelope /\ storage'.request = None /\ storage'.decision = None
    <2>1. storage \in [manual : BOOLEAN, token : 0..MaxCodes, envelope : Maybe(Envelopes), request : Maybe(Requests),
                       decision : Maybe([request : Requests, verdict : Verdicts])]
      BY DEF Types, TypeOK
    <2> QED
      BY <1>1, <1>3, <2>1 DEF Maybe
  <1>5. /\ toClient[c] # <<>> /\ Carries(toClient, Message("implementation_review_envelope", d))
        /\ ToClientType' /\ \A m : ClientFlow(m)
    BY <1>1, ReceivesIs
  <1>6. /\ \A n \in Nat : Carries(toClient, Message("implementation_review_envelope", n))' => d < n
        /\ \A i : Carries(toClient, Message("ack", i))' => operations[i].kind \notin ReviewKinds
    BY <1>1, <1>3, BehindEnvelope DEF Agreement
  <1>7. EnvelopeUnderWay
    BY <1>3, <1>5 DEF EnvelopeUnderWay
  <1>8. latestAcknowledgedDelivery = None /\ latestReviewRequest = None
    BY <1>7 DEF Agreement, AcknowledgedHolds, DeliveriesInTurn
  <1>9. Types'
    <2>1. TypeOK'
      BY <1>1, <1>2, <1>4 DEF Types, TypeOK
    <2>2. ToBridgeType'
      BY <1>1, BridgeKeeps DEF Types
    <2>3. ReviewTypes'
      BY <1>1, ReviewRests DEF Types
    <2> QED
      BY <1>5, <2>1, <2>2, <2>3 DEF Types
  <1>10. OneEnd'
    BY <1>1, <1>2, <1>5, ConsumeKeepsOneEnd
  <1>11. /\ \A n : Carries(toClient, Message("implementation_review_envelope", n))'
                     => Carries(toClient, Message("implementation_review_envelope", n))
         /\ \A i : Carries(toClient, Message("ack", i))' => Carries(toClient, Message("ack", i))
    <2>1. ClientFlow(Message("error", 0))
      BY <1>5
    <2>2. \A m : Carries(toClient, m)' => m = Message("error", 0) \/ Carries(toClient, m)
      BY <1>5, <2>1, ClientFlowCarries DEF Types
    <2>3. \A n : /\ Message("implementation_review_envelope", n) # Message("error", 0)
                 /\ Message("ack", n) # Message("error", 0)
      BY DEF Message
    <2> QED
      BY <2>2, <2>3
  <1>12. \A m : Carries(toBridge, m)' <=> Carries(toBridge, m)
    BY <1>1 DEF Carries
  <1>13. Sent(d)
    BY <1>3, <1>5 DEF Agreement, DeliveriesInTurn
  <1>14. DeliveriesInTurn'
    BY <1>1, <1>11, <1>12, <1>13 DEF Agreement, DeliveriesInTurn, Sent, reviewVars
  <1>15. OperationsSent'
    BY <1>1, <1>11, OperationsSentRests DEF Agreement
  <1>16. SentOnce'
    BY <1>1 DEF Agreement, SentOnce
  <1>17. ReviewsAccepted'
    <2>1. UNCHANGED <<operations, accepted, latestReviewRequest>>
      BY <1>1 DEF reviewVars
    <2>2. \A i \in Operations : operations[i].request \in Requests =>
            operations[i].request # latestReviewRequest
      BY <1>8, HandoffAssumption
    <2> QED
      BY <1>4, <2>1, <2>2 DEF Agreement, ReviewsAccepted
  <1>18. ChannelInOrder'
    <2>1. AnswersKeepKinds
      BY <1>1 DEF AnswersKeepKinds
    <2>2. Message("error", 0).type = "error" /\ ClientFlow(Message("error", 0))
      BY <1>5 DEF Message
    <2> QED
      BY <1>9, <2>1, <2>2, OrderKept DEF Agreement
  <1>19. \A i \in Operations : \A k \in ReviewKinds : ~Answered(i, k)'
    BY <1>1, <1>6 DEF Answered
  <1>20. "review_request" \in ReviewKinds /\ "review_decision" \in ReviewKinds
    BY DEF ReviewKinds, Kinds
  <1>21. AnswersBelong'
    BY <1>19, <1>20 DEF AnswersBelong
  <1>22. AcknowledgementHolds'
    <2> SUFFICES ASSUME (pendingDelivery # None
                          /\ (pendingDelivery \in storing \/ Carries(toBridge, Message("ack", pendingDelivery))))'
                 PROVE  (/\ ~EnvelopeUnderWay
                         /\ \A i \in Operations : \A k \in ReviewKinds : ~Answered(i, k)
                         /\ storage.envelope = delivery[pendingDelivery].envelope
                         /\ storage.request = None /\ storage.decision = None)'
      BY DEF AcknowledgementHolds
    <2>1. UNCHANGED <<pendingDelivery, delivery>> /\ pendingDelivery # None
      BY <1>1 DEF reviewVars
    <2>2. pendingDelivery = d
      <3>1. pendingDelivery \in storing' \/ Carries(toBridge, Message("ack", pendingDelivery))
        BY <1>12, <2>1
      <3>2. ~(pendingDelivery \in storing \/ Carries(toBridge, Message("ack", pendingDelivery)))
        BY <1>7, <2>1 DEF Agreement, AcknowledgementHolds
      <3> QED
        BY <1>1, <3>1, <3>2
    <2>3. \A n \in Deliveries : n > d => ~Sent(n)
      BY <2>1, <2>2 DEF Agreement, DeliveriesInTurn
    <2>4. ~EnvelopeUnderWay'
      <3> SUFFICES ASSUME NEW n \in Nat, Carries(toClient, Message("implementation_review_envelope", n))'
                   PROVE  FALSE
        BY DEF EnvelopeUnderWay
      <3>1. d < n
        BY <1>6
      <3>2. n \in Deliveries /\ Sent(n)
        BY <1>11 DEF Agreement, DeliveriesInTurn
      <3> QED
        BY <1>3, <2>3, <3>1, <3>2
    <2> QED
      BY <1>4, <1>19, <2>1, <2>2, <2>4
  <1>23. AcknowledgedHolds'
    BY <1>1, <1>8 DEF AcknowledgedHolds, reviewVars
  <1>24. StoredReviewBelongs'
    BY <1>4 DEF StoredReviewBelongs
  <1>25. ResolvedWasAccepted'
    BY <1>1 DEF Agreement, ResolvedWasAccepted
  <1>26. Agreement'
    BY <1>14, <1>15, <1>16, <1>17, <1>18, <1>21, <1>22, <1>23, <1>24, <1>25 DEF Agreement
  <1> QED
    BY <1>9, <1>10, <1>26

\* The slot that waits takes the answer.
LEMMA AwaitedIs ==
  ASSUME Types, OperationsSent, NEW i \in Operations, Matches(i)
  PROVE  \E k \in Kinds : pending[k] = i /\ operations[i].kind = k
  <1>1. i # None
    BY HandoffAssumption
  <1>2. \E k \in Kinds : pending[k] = i
    BY DEF Matches, Awaited, Kinds
  <1> QED
    BY <1>1, <1>2 DEF OperationsSent

LEMMA RecordedIs ==
  ASSUME Types, ReviewsAccepted, NEW i \in Operations, operations[i].kind \in Kinds, storage' = Recorded(i)
  PROVE  /\ storage' \in [manual : BOOLEAN, token : 0..MaxCodes, envelope : Maybe(Envelopes), request : Maybe(Requests),
                          decision : Maybe([request : Requests, verdict : Verdicts])]
         /\ storage'.envelope = storage.envelope
         /\ storage'.request = IF operations[i].kind = "review_request" THEN operations[i].request
                               ELSE storage.request
         /\ storage'.decision = IF operations[i].kind = "review_decision"
                                THEN [request |-> operations[i].request, verdict |-> operations[i].verdict]
                                ELSE storage.decision
  <1>1. storage \in [manual : BOOLEAN, token : 0..MaxCodes, envelope : Maybe(Envelopes), request : Maybe(Requests),
                     decision : Maybe([request : Requests, verdict : Verdicts])]
    BY DEF Types, TypeOK
  <1>2. CASE operations[i].kind = "review_request"
    <2>1. storage' = [storage EXCEPT !.request = operations[i].request] /\ operations[i].request \in Requests
      BY <1>2 DEF Recorded, ReviewsAccepted
    <2> QED
      BY <1>1, <1>2, <2>1 DEF Maybe
  <1>3. CASE operations[i].kind = "review_decision"
    <2>1. /\ storage' = [storage EXCEPT !.decision = [request |-> operations[i].request,
                                                      verdict |-> operations[i].verdict]]
          /\ operations[i].request \in Requests /\ operations[i].verdict \in Verdicts
      BY <1>3 DEF Recorded, ReviewsAccepted
    <2>2. [request |-> operations[i].request, verdict |-> operations[i].verdict]
            \in [request : Requests, verdict : Verdicts]
      BY <2>1
    <2> QED
      BY <1>1, <1>3, <2>1, <2>2 DEF Maybe
  <1>4. CASE operations[i].kind \notin ReviewKinds
    <2>1. operations[i].kind # "review_request" /\ operations[i].kind # "review_decision"
      BY <1>4 DEF ReviewKinds, Kinds
    <2>2. storage' = storage
      BY <2>1 DEF Recorded
    <2> QED
      BY <1>1, <2>1, <2>2
  <1> QED
    BY <1>2, <1>3, <1>4 DEF ReviewKinds, Kinds

LEMMA HandleAcknowledgementKeeps ==
  ASSUME Types, OneEnd, Agreement, NEW c \in Conns, NEW i \in Operations,
         HandleAcknowledgement(c, i), UNCHANGED bridgeVars
  PROVE  Types' /\ OneEnd' /\ Agreement'
  <1>1. /\ Receives(c, Message("ack", i)) /\ Consume(c) /\ Matches(i) /\ Awaited = i
        /\ UNCHANGED <<sessionVars, storing, toBridge, accepted, reviewVars>>
    BY DEF HandleAcknowledgement, Matches, bridgeVars
  <1>2. PICK kind \in Kinds : operations[i].kind = kind
    BY <1>1, AwaitedIs DEF Agreement
  <1>3. storage' = Recorded(i) /\ pending' = Emptied({kind}) /\ operations' = Ended("resolved", {i})
    BY <1>1, <1>2 DEF HandleAcknowledgement
  <1>4. UNCHANGED <<state, socket, webSocket, greeting, suspended>>
    BY <1>1 DEF sessionVars
  <1>5. /\ toClient[c] # <<>> /\ Carries(toClient, Message("ack", i))
        /\ ToClientType' /\ \A m : ClientFlow(m)
    BY <1>1, ReceivesIs
  <1>6. i \in Nat /\ i \in accepted /\ Issued(i)
    BY <1>5 DEF Agreement, OperationsSent, Operations
  <1>7. Answered(i, kind)
    BY <1>2, <1>5 DEF Answered
  <1>8. /\ operations' \in [Operations -> OperationRecords]
        /\ \A j \in Operations : /\ operations'[j].kind = operations[j].kind
                                 /\ operations'[j].request = operations[j].request
                                 /\ operations'[j].verdict = operations[j].verdict
                                 /\ operations'[j].promise = IF j = i THEN "resolved" ELSE operations[j].promise
    BY <1>3, EndedIs DEF Types
  <1>9. pending' \in [Kinds -> Maybe(Operations)] /\ SlotsSame
    BY <1>3, EmptiedIs, SlotsEmptied DEF Types
  <1>10. /\ storage' \in [manual : BOOLEAN, token : 0..MaxCodes, envelope : Maybe(Envelopes), request : Maybe(Requests),
                          decision : Maybe([request : Requests, verdict : Verdicts])]
         /\ storage'.envelope = storage.envelope
         /\ storage'.request = IF kind = "review_request" THEN operations[i].request ELSE storage.request
         /\ storage'.decision = IF kind = "review_decision"
                                THEN [request |-> operations[i].request, verdict |-> operations[i].verdict]
                                ELSE storage.decision
    BY <1>2, <1>3, RecordedIs DEF Agreement
  <1>11. Types'
    <2>1. TypeOK'
      BY <1>1, <1>4, <1>8, <1>9, <1>10 DEF Types, TypeOK, OperationRecords
    <2>2. ToBridgeType'
      BY <1>1, BridgeKeeps DEF Types
    <2>3. ReviewTypes'
      BY <1>1, ReviewRests DEF Types
    <2> QED
      BY <1>5, <2>1, <2>2, <2>3 DEF Types
  <1>12. OneEnd'
    BY <1>1, <1>4, <1>5, ConsumeKeepsOneEnd
  <1>13. /\ \A n : Carries(toClient, Message("implementation_review_envelope", n))'
                     => Carries(toClient, Message("implementation_review_envelope", n))
         /\ \A j : Carries(toClient, Message("ack", j))' => Carries(toClient, Message("ack", j))
    <2>1. ClientFlow(Message("error", 0))
      BY <1>5
    <2>2. \A m : Carries(toClient, m)' => m = Message("error", 0) \/ Carries(toClient, m)
      BY <1>5, <2>1, ClientFlowCarries DEF Types
    <2>3. \A n : /\ Message("implementation_review_envelope", n) # Message("error", 0)
                 /\ Message("ack", n) # Message("error", 0)
      BY DEF Message
    <2> QED
      BY <2>2, <2>3
  <1>14. \A m : Carries(toBridge, m)' <=> Carries(toBridge, m)
    BY <1>1 DEF Carries
  <1>15. /\ EnvelopeUnderWay' => EnvelopeUnderWay
         /\ \A j \in Operations : \A k : Answered(j, k)' => Answered(j, k)
    BY <1>8, <1>13 DEF EnvelopeUnderWay, Answered
  <1>16. /\ UNCHANGED <<pendingDelivery, latestAcknowledgedDelivery, latestReviewRequest,
                        latestReviewDecision, delivery>>
         /\ UNCHANGED <<accepted, storing>>
    BY <1>1 DEF reviewVars
  <1>17. DeliveriesInTurn'
    BY <1>1, <1>13, <1>14, DeliveriesRest DEF Agreement
  <1>18. OperationsSent'
    <2>1. OperationsFirm
      BY <1>8 DEF OperationsFirm, Issued
    <2> QED
      BY <1>9, <1>11, <1>13, <1>14, <1>16, <2>1, OperationsSentKept DEF Agreement
  <1>19. SentOnce'
    BY <1>1 DEF Agreement, SentOnce
  <1>20. ASSUME kind = "review_request"
         PROVE  /\ operations[i].request \in Requests
                /\ operations[i].request.number \in accepted
                /\ operations[i].request.envelope = storage.envelope
                /\ storage.request \in {None, operations[i].request}
                /\ \A j \in Operations : Answered(j, "review_request") =>
                     operations[j].request = operations[i].request
    BY <1>2, <1>6, <1>7, <1>20 DEF Agreement, AnswersBelong, ReviewsAccepted
  <1>21. ASSUME kind = "review_decision"
         PROVE  storage.request = operations[i].request
    BY <1>7, <1>21 DEF Agreement, AnswersBelong
  <1>22. ReviewsAccepted'
    <2>1. storage'.request # None => storage'.request.number \in accepted
      BY <1>10, <1>20 DEF Agreement, ReviewsAccepted
    <2>2. ASSUME NEW j \in Operations, operations[j].kind = "review_decision",
                 operations[j].request = storage.request
          PROVE  operations[j].request = storage'.request
      <3>1. operations[j].request \in Requests /\ operations[j].request # None
        BY <2>2, HandoffAssumption DEF Agreement, ReviewsAccepted
      <3> QED
        BY <1>10, <1>20, <2>2, <3>1
    <2> QED
      BY <1>8, <1>16, <2>1, <2>2 DEF Agreement, ReviewsAccepted
  <1>23. ChannelInOrder'
    <2>1. AnswersKeepKinds
      BY <1>8 DEF AnswersKeepKinds, Agreement, OperationsSent
    <2>2. Message("error", 0).type = "error" /\ ClientFlow(Message("error", 0))
      BY <1>5 DEF Message
    <2> QED
      BY <1>11, <2>1, <2>2, OrderKept DEF Agreement
  <1>24. AnswersBelong'
    <2> SUFFICES ASSUME NEW j \in Operations
                 PROVE  /\ Answered(j, "review_request")' =>
                             /\ operations[j].request.envelope = storage'.envelope
                             /\ storage'.request \in {None, operations[j].request}
                             /\ \A l \in Operations : Answered(l, "review_request")' =>
                                  operations[l].request = operations[j].request
                        /\ Answered(j, "review_decision")' => storage'.request = operations[j].request
      BY <1>8 DEF AnswersBelong
    <2>1. Answered(j, "review_request") =>
            /\ operations[j].request.envelope = storage.envelope
            /\ storage.request \in {None, operations[j].request}
            /\ \A l \in Operations : Answered(l, "review_request") =>
                 operations[l].request = operations[j].request
      BY DEF Agreement, AnswersBelong
    <2>2. Answered(j, "review_decision") => storage.request = operations[j].request
      BY DEF Agreement, AnswersBelong
    <2>3. Answered(j, "review_decision") => operations[j].request # None
      BY HandoffAssumption DEF Agreement, ReviewsAccepted, Answered
    <2>4. Answered(j, "review_request") => storage'.request \in {None, operations[j].request}
      BY <1>10, <1>20, <2>1
    <2>5. Answered(j, "review_decision") => storage'.request = operations[j].request
      BY <1>10, <1>20, <2>2, <2>3
    <2> QED
      BY <1>10, <1>15, <2>1, <2>4, <2>5
  <1>25. AcknowledgementHolds'
    <2> SUFFICES ASSUME (pendingDelivery # None
                          /\ (pendingDelivery \in storing \/ Carries(toBridge, Message("ack", pendingDelivery))))'
                 PROVE  (/\ ~EnvelopeUnderWay
                         /\ \A j \in Operations : \A k \in ReviewKinds : ~Answered(j, k)
                         /\ storage.envelope = delivery[pendingDelivery].envelope
                         /\ storage.request = None /\ storage.decision = None)'
      BY DEF AcknowledgementHolds
    <2>1. pendingDelivery # None
          /\ (pendingDelivery \in storing \/ Carries(toBridge, Message("ack", pendingDelivery)))
      BY <1>14, <1>16
    <2>2. /\ ~EnvelopeUnderWay
          /\ \A j \in Operations : \A k \in ReviewKinds : ~Answered(j, k)
          /\ storage.envelope = delivery[pendingDelivery].envelope
          /\ storage.request = None /\ storage.decision = None
      BY <2>1 DEF Agreement, AcknowledgementHolds
    <2>3. kind \notin ReviewKinds /\ "review_request" \in ReviewKinds /\ "review_decision" \in ReviewKinds
      BY <1>7, <2>2 DEF ReviewKinds, Kinds
    <2> QED
      BY <1>10, <1>15, <1>16, <2>2, <2>3
  <1>26. AcknowledgedHolds'
    <2> SUFFICES ASSUME latestAcknowledgedDelivery # None
                 PROVE  /\ ~EnvelopeUnderWay'
                        /\ storage'.envelope = delivery[latestAcknowledgedDelivery].envelope
                        /\ storage'.request \in {None, latestReviewRequest}
                        /\ storage'.decision \in {None, latestReviewDecision}
                        /\ \A j \in Operations :
                             /\ Answered(j, "review_request")' => operations[j].request = latestReviewRequest
                             /\ Answered(j, "review_decision")' =>
                                  latestReviewDecision = [request |-> operations[j].request,
                                                          verdict |-> operations[j].verdict]
      BY <1>8, <1>16 DEF AcknowledgedHolds
    <2>1. /\ ~EnvelopeUnderWay
          /\ storage.envelope = delivery[latestAcknowledgedDelivery].envelope
          /\ storage.request \in {None, latestReviewRequest}
          /\ storage.decision \in {None, latestReviewDecision}
          /\ \A j \in Operations :
               /\ Answered(j, "review_request") => operations[j].request = latestReviewRequest
               /\ Answered(j, "review_decision") =>
                    latestReviewDecision = [request |-> operations[j].request,
                                            verdict |-> operations[j].verdict]
      BY DEF Agreement, AcknowledgedHolds
    <2> QED
      BY <1>7, <1>10, <1>15, <2>1
  <1>27. StoredReviewBelongs'
    <2>1. storage'.request # None => storage'.request.envelope = storage'.envelope
      BY <1>10, <1>20 DEF Agreement, StoredReviewBelongs
    <2>2. storage.decision # None => storage.decision.request = storage.request /\ storage.request # None
      BY HandoffAssumption DEF Agreement, StoredReviewBelongs, Types, TypeOK, Maybe
    <2>3. storage'.decision # None => storage'.decision.request = storage'.request
      <3>1. CASE kind = "review_request"
        BY <1>10, <1>20, <2>2, <3>1
      <3>2. CASE kind = "review_decision"
        BY <1>10, <1>21, <3>2
      <3>3. CASE kind \notin {"review_request", "review_decision"}
        BY <1>10, <2>2, <3>3
      <3> QED
        BY <3>1, <3>2, <3>3
    <2> QED
      BY <2>1, <2>3 DEF StoredReviewBelongs
  <1>28. ResolvedWasAccepted'
    <2> SUFFICES ASSUME NEW j \in Operations, operations'[j].promise = "resolved"
                 PROVE  IF operations[j].kind = "review_request" THEN operations[j].request.number \in accepted
                        ELSE j \in accepted
      BY <1>8, <1>16 DEF ResolvedWasAccepted
    <2>1. CASE j = i
      BY <1>2, <1>6, <1>20, <2>1
    <2>2. CASE j # i
      BY <1>8, <2>2 DEF Agreement, ResolvedWasAccepted
    <2> QED
      BY <2>1, <2>2
  <1>29. Agreement'
    BY <1>17, <1>18, <1>19, <1>22, <1>23, <1>24, <1>25, <1>26, <1>27, <1>28 DEF Agreement
  <1> QED
    BY <1>11, <1>12, <1>29

----------------------------------------------------------------------------
(* The bridge sends an envelope and hears its acknowledgement              *)

\* Storage, calls and slots have no part in a step of the bridge.
LEMMA ClientRests ==
  ASSUME UNCHANGED <<sessionVars, storage, pending, operations, storing>>
  PROVE  /\ UNCHANGED <<state, socket, webSocket, greeting, suspended, storage, pending, operations, storing>>
         /\ OperationsFirm /\ SlotsSame /\ AnswersKeepKinds
  BY DEF sessionVars, OperationsFirm, SlotsSame, AnswersKeepKinds, Issued

LEMMA BridgeSendsEnvelopeKeeps ==
  ASSUME Types, OneEnd, Agreement, NEW d \in Deliveries, NEW e \in Envelopes, BridgeSendsEnvelope(d, e)
  PROVE  Types' /\ OneEnd' /\ Agreement'
  <1> DEFINE message == Message("implementation_review_envelope", d)
  <1>1. PICK to : Reply(to, message)
    BY DEF BridgeSendsEnvelope
  <1>2. /\ ~Sent(d) /\ \A p \in 1..(d - 1) : Sent(p)
        /\ pendingDelivery' = d
        /\ delivery' = [delivery EXCEPT ![d] = [envelope |-> e, promise |-> "pending"]]
        /\ latestAcknowledgedDelivery' = None
        /\ latestReviewRequest' = None /\ latestReviewDecision' = None
    BY DEF BridgeSendsEnvelope, Bridge!SendEnvelope, Bridge!ForgetReview, Bridge!Sent, Sent
  <1>3. UNCHANGED <<sessionVars, storage, pending, operations, storing>> /\ UNCHANGED <<toBridge, accepted>>
    BY DEF BridgeSendsEnvelope, ClientWaits
  <1>4. /\ UNCHANGED <<state, socket, webSocket, greeting, suspended, storage, pending, operations, storing>>
        /\ OperationsFirm /\ SlotsSame /\ AnswersKeepKinds
    BY <1>3, ClientRests
  <1>5. d \in Nat /\ d # None
    BY HandoffAssumption DEF Deliveries
  <1>6. message \in ToClientMessages /\ message.type = "implementation_review_envelope" /\ message.id = d
    BY <1>5 DEF Message, ToClientMessages
  <1>7. /\ ToClientType' /\ ClientFlow(message)
        /\ \A b \in Conns : toClient'[b] = toClient[b] \/ webSocket[b] = "open"
    BY <1>1, <1>6, ReplyFlows DEF Types
  <1>8. \A p \in Deliveries : Sent(p)' <=> Sent(p) \/ p = d
    BY <1>2 DEF Sent, Types, ReviewTypes
  <1>9. Types'
    <2>1. TypeOK'
      BY <1>3, <1>4 DEF Types, TypeOK
    <2>2. ToBridgeType'
      BY <1>3, BridgeKeeps DEF Types
    <2>3. [envelope |-> e, promise |-> "pending"]
            \in [envelope : Maybe(Envelopes), promise : {"none", "pending", "acknowledged", "rejected"}]
      BY DEF Maybe
    <2>4. ReviewTypes'
      BY <1>2, <2>3 DEF Types, ReviewTypes, Maybe
    <2> QED
      BY <1>7, <2>1, <2>2, <2>4 DEF Types
  <1>10. OneEnd'
    BY <1>4, <1>7, OneEndKept
  <1>11. /\ \A n : Carries(toClient, Message("implementation_review_envelope", n))' =>
              n = d \/ Carries(toClient, Message("implementation_review_envelope", n))
         /\ \A j : Carries(toClient, Message("ack", j))' => Carries(toClient, Message("ack", j))
    <2>1. \A m : Carries(toClient, m)' => m = message \/ Carries(toClient, m)
      BY <1>7, <1>9, ClientFlowCarries DEF Types
    <2>2. \A n : /\ Message("implementation_review_envelope", n) = message => n = d
                 /\ Message("ack", n) # message
      BY DEF Message
    <2> QED
      BY <2>1, <2>2
  <1>12. \A m : Carries(toBridge, m)' <=> Carries(toBridge, m)
    BY <1>3 DEF Carries
  <1>13. \A j \in Operations : \A k : Answered(j, k)' => Answered(j, k)
    BY <1>4, <1>11 DEF Answered
  <1>14. \A p \in Deliveries : Sent(p) => p < d
    <2> SUFFICES ASSUME NEW p \in Deliveries, Sent(p) PROVE p < d
      OBVIOUS
    <2>1. p \in Nat /\ d \in Nat /\ d >= 1
      BY DEF Deliveries
    <2>2. d \notin 1..(p - 1) /\ p # d
      BY <1>2 DEF Agreement, DeliveriesInTurn
    <2> QED
      BY <2>1, <2>2
  <1>15. DeliveriesInTurn'
    <2>1. (\A p \in Deliveries : Sent(p) => \A q \in 1..(p - 1) : Sent(q))'
      <3>1. \A p \in Deliveries : \A q \in 1..(p - 1) : q \in Deliveries
        BY HandoffAssumption DEF Deliveries
      <3> QED
        BY <1>2, <1>8, <3>1 DEF Agreement, DeliveriesInTurn
    <2>2. (/\ Sent(pendingDelivery) /\ latestAcknowledgedDelivery = None
           /\ \A p \in Deliveries : p > pendingDelivery => ~Sent(p))'
      <3>1. \A p \in Deliveries : p > d => ~Sent(p)'
        <4>1. \A p \in Deliveries : p \in Nat
          BY DEF Deliveries
        <4> QED
          BY <1>5, <1>8, <1>14, <4>1
      <3>2. Sent(d)'
        BY <1>8
      <3>3. Sent(pendingDelivery)'
        BY <1>2, <3>2 DEF Sent
      <3> QED
        BY <1>2, <3>1, <3>3
    <2>3. (\A p \in Deliveries : p \in storing \/ Carries(toBridge, Message("ack", p)) => Sent(p))'
      BY <1>4, <1>8, <1>12 DEF Agreement, DeliveriesInTurn
    <2>4. (\A n \in Nat : Carries(toClient, Message("implementation_review_envelope", n)) =>
            n \in Deliveries /\ Sent(n))'
      BY <1>8, <1>11 DEF Agreement, DeliveriesInTurn
    <2> QED
      BY <1>2, <2>1, <2>2, <2>3, <2>4 DEF DeliveriesInTurn
  <1>16. OperationsSent'
    BY <1>3, <1>4, <1>9, <1>11, <1>12, OperationsSentKept DEF Agreement
  <1>17. SentOnce'
    BY <1>3 DEF Agreement, SentOnce
  <1>18. ReviewsAccepted'
    <2>1. \A j \in Operations : operations[j].request \in Requests => operations[j].request # None
      BY HandoffAssumption
    <2> QED
      BY <1>2, <1>3, <1>4, <2>1 DEF Agreement, ReviewsAccepted
  <1>19. ChannelInOrder'
    <2>1. \A n \in Nat : Carries(toClient, Message("implementation_review_envelope", n)) => n < message.id
      BY <1>6, <1>14 DEF Agreement, DeliveriesInTurn
    <2> HIDE DEF message
    <2> QED
      BY <1>4, <1>6, <1>7, <1>9, <2>1, OrderKept DEF Agreement
  <1>20. AnswersBelong'
    BY <1>4, <1>13 DEF Agreement, AnswersBelong
  <1>21. AcknowledgementHolds'
    <2>1. d \notin storing' /\ ~Carries(toBridge, Message("ack", d))'
      BY <1>2, <1>4, <1>12 DEF Agreement, DeliveriesInTurn
    <2>2. ~Carries(toBridge, Message("ack", pendingDelivery))'
      BY <1>2, <2>1 DEF Carries
    <2> QED
      BY <1>2, <2>1, <2>2 DEF AcknowledgementHolds
  <1>22. AcknowledgedHolds'
    BY <1>2 DEF AcknowledgedHolds
  <1>23. StoredReviewBelongs' /\ ResolvedWasAccepted'
    BY <1>3, <1>4 DEF Agreement, StoredReviewBelongs, ResolvedWasAccepted
  <1>24. Agreement'
    BY <1>15, <1>16, <1>17, <1>18, <1>19, <1>20, <1>21, <1>22, <1>23 DEF Agreement
  <1> QED
    BY <1>9, <1>10, <1>24

LEMMA AcknowledgeKeeps ==
  ASSUME Types, OneEnd, Agreement, NEW c \in Conns, NEW d \in Deliveries,
         BridgeHearsAck(c, d), Bridge!IsAuthenticated(c), Bridge!Acknowledge(c, d)
  PROVE  Types' /\ OneEnd' /\ Agreement'
  <1>1. Hears(c, Message("ack", d)) /\ UNCHANGED <<toClient, accepted>>
    BY DEF BridgeHearsAck
  <1>2. /\ pendingDelivery = d
        /\ delivery' = [delivery EXCEPT ![d].promise = "acknowledged"]
        /\ pendingDelivery' = None
        /\ latestAcknowledgedDelivery' = d
        /\ latestReviewRequest' = None /\ latestReviewDecision' = None
    BY DEF Bridge!Acknowledge
  <1>3. UNCHANGED <<sessionVars, storage, pending, operations, storing>>
    BY <1>1 DEF Hears
  <1>4. /\ UNCHANGED <<state, socket, webSocket, greeting, suspended, storage, pending, operations, storing>>
        /\ OperationsFirm /\ SlotsSame /\ AnswersKeepKinds
    BY <1>3, ClientRests
  <1>5. /\ ToBridgeType' /\ \A m : BridgeFlow(m)
        /\ toBridge[c] # <<>> /\ toBridge[c][1] = Message("ack", d)
    BY <1>1, HearsFlows DEF Types
  <1>6. d # None
    BY HandoffAssumption
  <1>7. /\ \A p \in Deliveries : Sent(p)' <=> Sent(p)
        /\ delivery'[d].envelope = delivery[d].envelope
        /\ delivery' \in [Deliveries -> [envelope : Maybe(Envelopes),
                                         promise : {"none", "pending", "acknowledged", "rejected"}]]
    <2>1. Sent(d)
      BY <1>2, <1>6 DEF Agreement, DeliveriesInTurn
    <2>2. delivery \in [Deliveries -> [envelope : Maybe(Envelopes),
                                       promise : {"none", "pending", "acknowledged", "rejected"}]]
      BY DEF Types, ReviewTypes
    <2> QED
      BY <1>2, <2>1, <2>2 DEF Sent
  <1>8. Types'
    <2>1. TypeOK'
      BY <1>1, <1>4 DEF Types, TypeOK
    <2>2. ToClientType'
      BY <1>1, ClientKeeps DEF Types
    <2>3. ReviewTypes'
      BY <1>2, <1>7 DEF Types, ReviewTypes, Maybe
    <2> QED
      BY <1>5, <2>1, <2>2, <2>3 DEF Types
  <1>9. OneEnd'
    BY <1>1, <1>4 DEF OneEnd
  <1>10. Carries(toBridge, Message("ack", d))
    <2>1. 1 \in 1..Len(toBridge[c])
      <3>1. toBridge[c] \in Seq(ToBridgeMessages)
        BY DEF Types, ToBridgeType
      <3> QED
        BY <1>5, <3>1
    <2> QED
      BY <1>5, <2>1 DEF Carries
  <1>11. /\ \A n : Carries(toBridge, Message("ack", n))' => Carries(toBridge, Message("ack", n))
         /\ \A k \in Kinds : \A i : Carries(toBridge, Message(k, i))' => Carries(toBridge, Message(k, i))
    <2>1. BridgeFlow(Message("authenticate", 0))
      BY <1>5
    <2>2. \A m : Carries(toBridge, m)' => m = Message("authenticate", 0) \/ Carries(toBridge, m)
      BY <1>8, <2>1, BridgeFlowCarries DEF Types
    <2>3. \A i : /\ Message("ack", i) # Message("authenticate", 0)
                 /\ \A k \in Kinds : Message(k, i) # Message("authenticate", 0)
      BY DEF Message, Kinds
    <2> QED
      BY <2>2, <2>3
  <1>12. /\ \A m : Carries(toClient, m)' <=> Carries(toClient, m)
         /\ EnvelopeUnderWay' <=> EnvelopeUnderWay
         /\ \A j \in Operations : \A k : Answered(j, k)' <=> Answered(j, k)
    BY <1>1, <1>4 DEF Carries, EnvelopeUnderWay, Answered
  <1>13. /\ ~EnvelopeUnderWay
         /\ \A i \in Operations : \A k \in ReviewKinds : ~Answered(i, k)
         /\ storage.envelope = delivery[d].envelope
         /\ storage.request = None /\ storage.decision = None
    BY <1>2, <1>6, <1>10 DEF Agreement, AcknowledgementHolds
  <1>14. DeliveriesInTurn'
    BY <1>2, <1>4, <1>6, <1>7, <1>11, <1>12, HandoffAssumption DEF Agreement, DeliveriesInTurn, Deliveries
  <1>15. OperationsSent'
    BY <1>1, <1>4, <1>8, <1>11, <1>12, OperationsSentKept DEF Agreement
  <1>16. SentOnce'
    <2>1. Message("authenticate", 0).type \notin Kinds /\ BridgeFlow(Message("authenticate", 0))
      BY <1>5 DEF Message, Kinds
    <2> QED
      BY <1>8, <2>1, QuietSentOnce DEF Agreement
  <1>17. ReviewsAccepted'
    <2>1. \A j \in Operations : operations[j].request \in Requests => operations[j].request # None
      BY HandoffAssumption
    <2> QED
      BY <1>1, <1>2, <1>4, <2>1 DEF Agreement, ReviewsAccepted
  <1>18. ChannelInOrder'
    BY <1>1, <1>4 DEF Agreement, ChannelInOrder
  <1>19. AnswersBelong'
    BY <1>4, <1>12 DEF Agreement, AnswersBelong
  <1>20. AcknowledgementHolds'
    BY <1>2 DEF AcknowledgementHolds
  <1>21. AcknowledgedHolds'
    <2>1. "review_request" \in ReviewKinds /\ "review_decision" \in ReviewKinds
      BY DEF ReviewKinds, Kinds
    <2> QED
      BY <1>2, <1>4, <1>7, <1>12, <1>13, <2>1 DEF AcknowledgedHolds
  <1>22. StoredReviewBelongs' /\ ResolvedWasAccepted'
    BY <1>1, <1>4 DEF Agreement, StoredReviewBelongs, ResolvedWasAccepted
  <1>23. Agreement'
    BY <1>14, <1>15, <1>16, <1>17, <1>18, <1>19, <1>20, <1>21, <1>22 DEF Agreement
  <1> QED
    BY <1>8, <1>9, <1>23

----------------------------------------------------------------------------
(* The bridge accepts                                                      *)

\* What holds of an operation of this kind once the bridge has heard and
\* answered it.
Answers(i, kind) ==
  /\ operations[i].kind = kind /\ i \notin accepted /\ accepted' = accepted \union {i}
  /\ kind = "review_request" => operations[i].request.number = i
  /\ UNCHANGED <<storage, operations, storing>>
  /\ \A d : Carries(toClient, Message("implementation_review_envelope", d))'
              => Carries(toClient, Message("implementation_review_envelope", d))
  /\ \A d : Carries(toBridge, Message("ack", d))' => Carries(toBridge, Message("ack", d))
  /\ \A j \in Operations : \A k : Answered(j, k)' => Answered(j, k) \/ (j = i /\ k = kind)
  /\ ClientFlow(Message("ack", i))

\* What was heard is not heard again.
LEMMA HeardOnce ==
  ASSUME Types, OperationsSent, SentOnce, NEW c \in Conns, NEW i \in Operations, NEW kind \in Kinds,
         Hears(c, Message(kind, i)), NEW k \in Kinds
  PROVE  ~Carries(toBridge, Message(k, i))'
  <1> SUFFICES ASSUME Carries(toBridge, Message(k, i))' PROVE FALSE
    OBVIOUS
  <1>1. /\ ToBridgeType' /\ \A m : BridgeFlow(m)
        /\ \A b \in Conns \ {c} : toBridge'[b] = toBridge[b]
        /\ toBridge'[c] = Tail(toBridge[c])
        /\ toBridge[c] # <<>> /\ toBridge[c][1] = Message(kind, i)
    BY HearsFlows DEF Types
  <1>2. PICK old \in Seq(ToBridgeMessages) : old = toBridge[c]
    BY DEF Types, ToBridgeType
  <1>3. /\ Len(Tail(old)) = Len(old) - 1 /\ 1 \in 1..Len(old)
        /\ \A q \in 1..Len(Tail(old)) : Tail(old)[q] = old[q + 1] /\ q + 1 \in 1..Len(old) /\ q + 1 # 1
    <2>1. Len(old) \in Nat /\ Len(old) >= 1
      BY <1>1, <1>2
    <2>2. Len(Tail(old)) = Len(old) - 1 /\ \A q \in 1..Len(Tail(old)) : Tail(old)[q] = old[q + 1]
      BY <1>1, <1>2, HeadTailProperties
    <2>3. \A q \in 1..(Len(old) - 1) : q + 1 \in 1..Len(old) /\ q + 1 # 1
      BY <2>1
    <2>4. 1 \in 1..Len(old)
      BY <2>1
    <2> QED
      BY <2>2, <2>3, <2>4
  <1>4. PICK b \in Conns : \E q \in 1..Len(toBridge'[b]) : toBridge'[b][q] = Message(k, i)
    BY DEF Carries
  <1>5. PICK q \in 1..Len(toBridge'[b]) : toBridge'[b][q] = Message(k, i)
    BY <1>4
  <1>6. \E r \in 1..Len(toBridge[b]) : toBridge[b][r] = Message(k, i) /\ (b # c \/ r # 1)
    <2>1. CASE b = c
      <3>1. toBridge'[b] = Tail(old) /\ q \in 1..Len(Tail(old))
        BY <1>1, <1>2, <2>1
      <3>2. old[q + 1] = Message(k, i) /\ q + 1 \in 1..Len(old) /\ q + 1 # 1
        BY <1>3, <1>5, <3>1
      <3> QED
        BY <1>2, <2>1, <3>2
    <2>2. CASE b # c
      <3>1. toBridge'[b] = toBridge[b]
        BY <1>1, <2>2
      <3> QED
        BY <1>5, <2>2, <3>1
    <2> QED
      BY <2>1, <2>2
  <1>7. PICK r \in 1..Len(toBridge[b]) : toBridge[b][r] = Message(k, i) /\ (b # c \/ r # 1)
    BY <1>6
  <1>8. 1 \in 1..Len(toBridge[c])
    BY <1>2, <1>3
  <1>9. Carries(toBridge, Message(k, i)) /\ Carries(toBridge, Message(kind, i))
    BY <1>1, <1>7, <1>8 DEF Carries
  <1>10. k = kind
    BY <1>9 DEF OperationsSent, Operations
  <1>11. Message(kind, i).type \in Kinds
    BY DEF Message
  <1> QED
    BY <1>1, <1>7, <1>8, <1>10, <1>11 DEF SentOnce

LEMMA AcceptsKeeps ==
  ASSUME Types, OneEnd, Agreement, NEW c \in Conns, NEW i \in Operations, NEW kind \in Kinds,
         Hears(c, Message(kind, i)), Accepts(c, i), ReviewTypes',
         UNCHANGED <<pendingDelivery, latestAcknowledgedDelivery, delivery>>,
         latestAcknowledgedDelivery = None => latestReviewRequest' = None /\ latestReviewDecision' = None,
         kind \in ReviewKinds => ~EnvelopeUnderWay
  PROVE  /\ Types' /\ OneEnd' /\ Answers(i, kind)
         /\ DeliveriesInTurn' /\ OperationsSent' /\ SentOnce' /\ ChannelInOrder'
         /\ StoredReviewBelongs' /\ ResolvedWasAccepted'
  <1>1. /\ UNCHANGED <<sessionVars, storage, pending, operations, storing>>
        /\ accepted' = accepted \union {i} /\ Reply(c, Message("ack", i))
    BY DEF Hears, Accepts, ReplyAck
  <1>2. /\ UNCHANGED <<state, socket, webSocket, greeting, suspended, storage, pending, operations, storing>>
        /\ OperationsFirm /\ SlotsSame /\ AnswersKeepKinds
    BY <1>1, ClientRests
  <1>3. i \in Nat /\ Message("ack", i) \in ToClientMessages
    BY DEF Operations, Message, ToClientMessages
  <1>4. /\ ToBridgeType' /\ BridgeFlow(Message("authenticate", 0))
        /\ toBridge[c] # <<>> /\ toBridge[c][1] = Message(kind, i)
    BY HearsFlows DEF Types
  <1>5. /\ ToClientType' /\ ClientFlow(Message("ack", i))
        /\ \A b \in Conns : toClient'[b] = toClient[b] \/ webSocket[b] = "open"
    BY <1>1, <1>3, ReplyFlows DEF Types
  <1>6. Types'
    <2>1. TypeOK'
      BY <1>1, <1>2 DEF Types, TypeOK
    <2> QED
      BY <1>4, <1>5, <2>1 DEF Types
  <1>7. OneEnd'
    BY <1>2, <1>5, OneEndKept
  <1>8. Carries(toBridge, Message(kind, i))
    <2>1. 1 \in 1..Len(toBridge[c])
      <3>1. toBridge[c] \in Seq(ToBridgeMessages)
        BY DEF Types, ToBridgeType
      <3> QED
        BY <1>4, <3>1
    <2> QED
      BY <1>4, <2>1 DEF Carries
  <1>9. /\ operations[i].kind = kind /\ Issued(i) /\ i \notin accepted
        /\ kind = "review_request" => operations[i].request.number = i
    BY <1>3, <1>8 DEF Agreement, OperationsSent
  <1>10. /\ \A n : Carries(toBridge, Message("ack", n))' => Carries(toBridge, Message("ack", n))
         /\ \A k \in Kinds : \A j : Carries(toBridge, Message(k, j))' => Carries(toBridge, Message(k, j))
    <2>1. \A m : Carries(toBridge, m)' => m = Message("authenticate", 0) \/ Carries(toBridge, m)
      BY <1>4, <1>6, BridgeFlowCarries DEF Types
    <2>2. \A j : /\ Message("ack", j) # Message("authenticate", 0)
                 /\ \A k \in Kinds : Message(k, j) # Message("authenticate", 0)
      BY DEF Message, Kinds
    <2> QED
      BY <2>1, <2>2
  <1>11. \A k \in Kinds : ~Carries(toBridge, Message(k, i))'
    BY HeardOnce DEF Agreement
  <1>12. /\ \A n : Carries(toClient, Message("implementation_review_envelope", n))'
                     => Carries(toClient, Message("implementation_review_envelope", n))
         /\ \A j : Carries(toClient, Message("ack", j))' => j = i \/ Carries(toClient, Message("ack", j))
    <2>1. \A m : Carries(toClient, m)' => m = Message("ack", i) \/ Carries(toClient, m)
      BY <1>3, <1>5, <1>6, ClientFlowCarries DEF Types
    <2>2. \A n : /\ Message("implementation_review_envelope", n) # Message("ack", i)
                 /\ Message("ack", n) = Message("ack", i) => n = i
      BY DEF Message
    <2> QED
      BY <2>1, <2>2
  <1>13. \A j \in Operations : \A k : Answered(j, k)' => Answered(j, k) \/ (j = i /\ k = kind)
    BY <1>2, <1>9, <1>12 DEF Answered
  <1>14. Answers(i, kind)
    BY <1>1, <1>2, <1>5, <1>9, <1>10, <1>12, <1>13 DEF Answers
  <1>15. DeliveriesInTurn'
    <2>1. \A d : Sent(d)' <=> Sent(d)
      BY DEF Sent
    <2>2. (pendingDelivery # None =>
            /\ Sent(pendingDelivery) /\ latestAcknowledgedDelivery = None
            /\ \A d \in Deliveries : d > pendingDelivery => ~Sent(d))'
      BY DEF Agreement, DeliveriesInTurn, Sent
    <2>3. (\A d \in Deliveries : d \in storing \/ Carries(toBridge, Message("ack", d)) => Sent(d))'
      BY <1>2, <1>10, <2>1 DEF Agreement, DeliveriesInTurn
    <2>4. (\A d \in Nat : Carries(toClient, Message("implementation_review_envelope", d)) =>
            d \in Deliveries /\ Sent(d))'
      BY <1>12, <2>1 DEF Agreement, DeliveriesInTurn
    <2>5. (\A d \in Deliveries : Sent(d) => \A p \in 1..(d - 1) : Sent(p))'
      BY <2>1 DEF Agreement, DeliveriesInTurn
    <2> QED
      BY <2>2, <2>3, <2>4, <2>5 DEF DeliveriesInTurn
  <1>16. OperationsSent'
    <2>1. \A j \in Operations : /\ operations[j].promise = "preparing" => operations[j].kind \in Kinds
                                /\ j \in accepted' => Issued(j)
      BY <1>1, <1>9 DEF Agreement, OperationsSent
    <2>2. \A k \in Kinds : pending[k] # None => operations[pending[k]].kind = k /\ Issued(pending[k])
      BY DEF Agreement, OperationsSent
    <2>3. \A k \in Kinds, j \in Nat : Carries(toBridge, Message(k, j))' =>
            /\ j \in Operations /\ operations[j].kind = k
            /\ Issued(j) /\ j \notin accepted'
            /\ k = "review_request" => operations[j].request.number = j
      BY <1>1, <1>10, <1>11 DEF Agreement, OperationsSent
    <2>4. \A j \in Nat : Carries(toClient, Message("ack", j))' =>
            j \in Operations /\ Issued(j) /\ j \in accepted'
      BY <1>1, <1>9, <1>12 DEF Agreement, OperationsSent
    <2> QED
      BY <1>2, <2>1, <2>2, <2>3, <2>4 DEF OperationsSent, Issued
  <1>17. SentOnce'
    <2>1. Message("authenticate", 0).type \notin Kinds
      BY DEF Message, Kinds
    <2> QED
      BY <1>4, <1>6, <2>1, QuietSentOnce DEF Agreement
  <1>18. ChannelInOrder'
    <2>1. Message("ack", i).type = "ack" /\ Message("ack", i).id = i
      BY DEF Message
    <2>2. operations'[i].kind = kind
      BY <1>2, <1>9
    <2> QED
      BY <1>2, <1>5, <1>6, <2>1, <2>2, OrderKept DEF Agreement
  <1>19. StoredReviewBelongs'
    BY <1>1 DEF Agreement, StoredReviewBelongs
  <1>20. ResolvedWasAccepted'
    BY <1>1, <1>2 DEF Agreement, ResolvedWasAccepted
  <1> QED
    BY <1>6, <1>7, <1>14, <1>15, <1>16, <1>17, <1>18, <1>19, <1>20

LEMMA BridgeHearsPromptKeeps ==
  ASSUME Types, OneEnd, Agreement, NEW c \in Conns, NEW i \in Operations, BridgeHearsPrompt(c, i)
  PROVE  Types' /\ OneEnd' /\ Agreement'
  <1> DEFINE kind == "browser_test_prompt"
  <1>1. Hears(c, Message(kind, i)) /\ Accepts(c, i) /\ UNCHANGED reviewVars
    BY DEF BridgeHearsPrompt
  <1>2. UNCHANGED <<pendingDelivery, latestAcknowledgedDelivery, latestReviewRequest,
                    latestReviewDecision, delivery>>
    BY <1>1 DEF reviewVars
  <1>3. ReviewTypes'
    BY <1>1, ReviewRests DEF Types
  <1>4. kind \in Kinds /\ kind \notin ReviewKinds
    BY DEF Kinds, ReviewKinds
  <1>5. latestAcknowledgedDelivery = None => latestReviewRequest' = None /\ latestReviewDecision' = None
    BY <1>2 DEF Agreement, DeliveriesInTurn
  <1>6. /\ Types' /\ OneEnd' /\ Answers(i, kind)
        /\ DeliveriesInTurn' /\ OperationsSent' /\ SentOnce' /\ ChannelInOrder'
        /\ StoredReviewBelongs' /\ ResolvedWasAccepted'
    BY <1>1, <1>2, <1>3, <1>4, <1>5, AcceptsKeeps
  <1>7. /\ UNCHANGED <<storage, operations, storing>> /\ accepted' = accepted \union {i}
        /\ \A j \in Operations : \A k \in ReviewKinds : Answered(j, k)' => Answered(j, k)
        /\ EnvelopeUnderWay' => EnvelopeUnderWay
        /\ \A d : Carries(toBridge, Message("ack", d))' => Carries(toBridge, Message("ack", d))
    BY <1>4, <1>6 DEF Answers, EnvelopeUnderWay
  <1>8. "review_request" \in ReviewKinds /\ "review_decision" \in ReviewKinds
    BY DEF ReviewKinds, Kinds
  <1>9. ReviewsAccepted'
    BY <1>2, <1>7 DEF Agreement, ReviewsAccepted
  <1>10. AnswersBelong'
    BY <1>7, <1>8 DEF Agreement, AnswersBelong
  <1>11. AcknowledgementHolds'
    <2>1. Carries(toBridge, Message("ack", pendingDelivery))' =>
            Carries(toBridge, Message("ack", pendingDelivery))
      <3>1. PICK d : d = pendingDelivery /\ d = pendingDelivery'
        BY <1>2
      <3>2. Carries(toBridge, Message("ack", d))' => Carries(toBridge, Message("ack", d))
        BY <1>7
      <3> QED
        BY <3>1, <3>2 DEF Carries
    <2> QED
      BY <1>2, <1>7, <2>1 DEF Agreement, AcknowledgementHolds
  <1>12. AcknowledgedHolds'
    BY <1>2, <1>7, <1>8 DEF Agreement, AcknowledgedHolds
  <1>13. Agreement'
    BY <1>6, <1>9, <1>10, <1>11, <1>12 DEF Agreement
  <1> QED
    BY <1>6, <1>13

\* A review request is accepted.  It is a new one: the bridge has accepted none
\* for this delivery.
LEMMA RequestAcceptedKeeps ==
  ASSUME Types, OneEnd, Agreement, NEW c \in Conns, NEW i \in Operations,
         Hears(c, Message("review_request", i)), Accepts(c, i),
         Bridge!ReviewRequest(c, operations[i].request)
  PROVE  Types' /\ OneEnd' /\ Agreement'
  <1> DEFINE kind == "review_request"
  <1>1. /\ latestAcknowledgedDelivery # None
        /\ delivery[latestAcknowledgedDelivery].envelope = operations[i].request.envelope
        /\ latestReviewRequest = None /\ latestReviewDecision = None
        /\ latestReviewRequest' = operations[i].request
        /\ UNCHANGED <<pendingDelivery, latestAcknowledgedDelivery, latestReviewDecision, delivery>>
    BY DEF Bridge!ReviewRequest
  <1>2. kind \in Kinds /\ kind \in ReviewKinds /\ "review_decision" \in ReviewKinds
    BY DEF Kinds, ReviewKinds
  <1>3. /\ ~EnvelopeUnderWay
        /\ storage.envelope = delivery[latestAcknowledgedDelivery].envelope
        /\ storage.request = None /\ storage.decision = None
        /\ \A j \in Operations : ~Answered(j, kind) /\ ~Answered(j, "review_decision")
    <2>1. /\ ~EnvelopeUnderWay
          /\ storage.envelope = delivery[latestAcknowledgedDelivery].envelope
          /\ storage.request = None /\ storage.decision = None
          /\ \A j \in Operations :
               /\ Answered(j, kind) => operations[j].request = None
               /\ Answered(j, "review_decision") =>
                    None = [request |-> operations[j].request, verdict |-> operations[j].verdict]
      BY <1>1 DEF Agreement, AcknowledgedHolds
    <2>2. \A j \in Operations :
            /\ operations[j].kind = kind => operations[j].request # None
            /\ operations[j].kind = "review_decision" =>
                 [request |-> operations[j].request, verdict |-> operations[j].verdict] # None
      <3>1. \A j \in Operations :
              /\ operations[j].kind = kind => operations[j].request \in Requests
              /\ operations[j].kind = "review_decision" =>
                   [request |-> operations[j].request, verdict |-> operations[j].verdict]
                     \in [request : Requests, verdict : Verdicts]
        BY DEF Agreement, ReviewsAccepted
      <3> QED
        BY <3>1, HandoffAssumption
    <2> QED
      BY <2>1, <2>2 DEF Answered
  <1>4. operations[i].kind = kind
    <2>1. Carries(toBridge, Message(kind, i))
      <3>1. toBridge[c] # <<>> /\ toBridge[c][1] = Message(kind, i) /\ toBridge[c] \in Seq(ToBridgeMessages)
        BY HearsFlows DEF Types, ToBridgeType
      <3>2. 1 \in 1..Len(toBridge[c])
        BY <3>1
      <3> QED
        BY <3>1, <3>2 DEF Carries
    <2> QED
      BY <1>2, <2>1 DEF Agreement, OperationsSent, Operations
  <1>5. operations[i].request \in Requests
    BY <1>4 DEF Agreement, ReviewsAccepted
  <1>6. ReviewTypes'
    BY <1>1, <1>5 DEF Types, ReviewTypes, Maybe
  <1>7. /\ Types' /\ OneEnd' /\ Answers(i, kind)
        /\ DeliveriesInTurn' /\ OperationsSent' /\ SentOnce' /\ ChannelInOrder'
        /\ StoredReviewBelongs' /\ ResolvedWasAccepted'
    BY <1>1, <1>2, <1>3, <1>6, AcceptsKeeps
  <1>8. /\ UNCHANGED <<storage, operations, storing>> /\ accepted' = accepted \union {i}
        /\ i \notin accepted /\ operations[i].request.number = i
        /\ ~EnvelopeUnderWay'
        /\ \A j \in Operations : Answered(j, kind)' => j = i
        /\ \A j \in Operations : ~Answered(j, "review_decision")'
    BY <1>3, <1>7 DEF Answers, EnvelopeUnderWay
  <1>9. pendingDelivery' = None
    BY <1>1 DEF Agreement, DeliveriesInTurn
  <1>10. ReviewsAccepted'
    <2>1. \A j \in Operations : operations[j].kind = "review_decision" =>
            operations[j].request # operations[i].request
      BY <1>8 DEF Agreement, ReviewsAccepted
    <2> QED
      BY <1>1, <1>3, <1>8, <2>1 DEF Agreement, ReviewsAccepted
  <1>11. AnswersBelong'
    BY <1>1, <1>3, <1>8 DEF AnswersBelong
  <1>12. AcknowledgementHolds'
    BY <1>9 DEF AcknowledgementHolds
  <1>13. AcknowledgedHolds'
    BY <1>1, <1>3, <1>8 DEF AcknowledgedHolds
  <1>14. Agreement'
    BY <1>7, <1>10, <1>11, <1>12, <1>13 DEF Agreement
  <1> QED
    BY <1>7, <1>14

\* A decision is accepted.  It is about the request of the bridge, which the
\* browser has stored.
LEMMA DecisionAcceptedKeeps ==
  ASSUME Types, OneEnd, Agreement, NEW c \in Conns, NEW i \in Operations,
         Hears(c, Message("review_decision", i)), Accepts(c, i),
         Bridge!ReviewDecision(c, operations[i].request, operations[i].verdict)
  PROVE  Types' /\ OneEnd' /\ Agreement'
  <1> DEFINE kind == "review_decision"
             decision == [request |-> operations[i].request, verdict |-> operations[i].verdict]
  <1>1. /\ latestAcknowledgedDelivery # None
        /\ latestReviewRequest = operations[i].request /\ latestReviewDecision = None
        /\ latestReviewDecision' = decision
        /\ UNCHANGED <<pendingDelivery, latestAcknowledgedDelivery, latestReviewRequest, delivery>>
    BY DEF Bridge!ReviewDecision, Bridge!DecisionAccepted
  <1>2. kind \in Kinds /\ kind \in ReviewKinds
    BY DEF Kinds, ReviewKinds
  <1>3. operations[i].kind = kind
    <2>1. Carries(toBridge, Message(kind, i))
      <3>1. toBridge[c] # <<>> /\ toBridge[c][1] = Message(kind, i) /\ toBridge[c] \in Seq(ToBridgeMessages)
        BY HearsFlows DEF Types, ToBridgeType
      <3>2. 1 \in 1..Len(toBridge[c])
        BY <3>1
      <3> QED
        BY <3>1, <3>2 DEF Carries
    <2> QED
      BY <1>2, <2>1 DEF Agreement, OperationsSent, Operations
  <1>4. operations[i].request \in Requests /\ operations[i].verdict \in Verdicts
        /\ storage.request = operations[i].request
    BY <1>1, <1>3 DEF Agreement, ReviewsAccepted
  <1>5. /\ ~EnvelopeUnderWay
        /\ storage.envelope = delivery[latestAcknowledgedDelivery].envelope
        /\ storage.decision = None
        /\ \A j \in Operations : /\ Answered(j, "review_request") => operations[j].request = latestReviewRequest
                                 /\ ~Answered(j, kind)
    <2>1. /\ ~EnvelopeUnderWay
          /\ storage.envelope = delivery[latestAcknowledgedDelivery].envelope
          /\ storage.decision = None
          /\ \A j \in Operations :
               /\ Answered(j, "review_request") => operations[j].request = latestReviewRequest
               /\ Answered(j, kind) =>
                    None = [request |-> operations[j].request, verdict |-> operations[j].verdict]
      BY <1>1 DEF Agreement, AcknowledgedHolds
    <2>2. \A j \in Operations : operations[j].kind = kind =>
            [request |-> operations[j].request, verdict |-> operations[j].verdict] # None
      <3>1. \A j \in Operations : operations[j].kind = kind =>
              [request |-> operations[j].request, verdict |-> operations[j].verdict]
                \in [request : Requests, verdict : Verdicts]
        BY DEF Agreement, ReviewsAccepted
      <3> QED
        BY <3>1, HandoffAssumption
    <2> QED
      BY <2>1, <2>2 DEF Answered
  <1>6. ReviewTypes'
    BY <1>1, <1>4 DEF Types, ReviewTypes, Maybe, Decisions
  <1>7. /\ Types' /\ OneEnd' /\ Answers(i, kind)
        /\ DeliveriesInTurn' /\ OperationsSent' /\ SentOnce' /\ ChannelInOrder'
        /\ StoredReviewBelongs' /\ ResolvedWasAccepted'
    BY <1>1, <1>2, <1>5, <1>6, AcceptsKeeps
  <1>8. /\ UNCHANGED <<storage, operations, storing>> /\ accepted' = accepted \union {i}
        /\ ~EnvelopeUnderWay'
        /\ \A j \in Operations : Answered(j, "review_request")' => Answered(j, "review_request")
        /\ \A j \in Operations : Answered(j, kind)' => j = i
    BY <1>5, <1>7 DEF Answers, EnvelopeUnderWay
  <1>9. pendingDelivery' = None
    BY <1>1 DEF Agreement, DeliveriesInTurn
  <1>10. ReviewsAccepted'
    BY <1>1, <1>8 DEF Agreement, ReviewsAccepted
  <1>11. AnswersBelong'
    BY <1>4, <1>8 DEF Agreement, AnswersBelong
  <1>12. AcknowledgementHolds'
    BY <1>9 DEF AcknowledgementHolds
  <1>13. AcknowledgedHolds'
    <2>1. storage.request \in {None, latestReviewRequest}
      BY <1>1, <1>4
    <2> QED
      BY <1>1, <1>5, <1>8, <2>1 DEF AcknowledgedHolds
  <1>14. Agreement'
    BY <1>7, <1>10, <1>11, <1>12, <1>13 DEF Agreement
  <1> QED
    BY <1>7, <1>14

----------------------------------------------------------------------------
(* The invariant                                                           *)

LEMMA InitHandoff == Init => HandoffInvariant
  <1> SUFFICES ASSUME Init PROVE HandoffInvariant
    OBVIOUS
  <1>1. /\ toBridge = [c \in Conns |-> <<>>] /\ toClient = [c \in Conns |-> <<>>]
        /\ storage = [manual |-> FALSE, token |-> 1, envelope |-> None, request |-> None, decision |-> None]
        /\ pending = [k \in Kinds |-> None] /\ operations = [i \in Operations |-> NoOperation]
        /\ storing = {} /\ accepted = {}
        /\ state = "disconnected" /\ socket = None /\ suspended = <<>>
        /\ greeting = [c \in Conns |-> Message("authenticate", 0)]
        /\ webSocket = [c \in Conns |-> "none"]
    BY DEF Init, ClientInit
  <1>2. /\ pendingDelivery = None /\ latestAcknowledgedDelivery = None
        /\ latestReviewRequest = None /\ latestReviewDecision = None
        /\ delivery = [d \in Deliveries |-> [envelope |-> None, promise |-> "none"]]
    BY DEF Init
  <1>3. \A c \in Conns : Len(toBridge[c]) = 0 /\ Len(toClient[c]) = 0
    BY <1>1
  <1>4. \A m : ~Carries(toBridge, m) /\ ~Carries(toClient, m)
    BY <1>3 DEF Carries
  <1>5. TypeOK
    <2>1. NoOperation \in OperationRecords
      BY DEF NoOperation, OperationRecords, Maybe
    <2>2. suspended \in Seq(Suspensions) /\ greeting \in [Conns -> Greetings]
      BY <1>1, EmptySeq, GreetingIs
    <2>3. 1 \in 0..MaxCodes
      BY HandoffAssumption
    <2> QED
      BY <1>1, <2>1, <2>2, <2>3 DEF TypeOK, OperationRecords, Maybe
  <1>6. ToBridgeType /\ ToClientType
    BY <1>1, EmptySeq DEF ToBridgeType, ToClientType
  <1>7. ReviewTypes
    BY <1>2 DEF ReviewTypes, Maybe
  <1>8. OneEnd
    BY <1>1 DEF OneEnd
  <1>9. DeliveriesInTurn
    BY <1>1, <1>2, <1>4 DEF DeliveriesInTurn, Sent
  <1>10. \A i \in Operations : operations[i].kind = None /\ operations[i].promise = "none"
    BY <1>1 DEF NoOperation
  <1>11. OperationsSent
    BY <1>1, <1>4, <1>10 DEF OperationsSent
  <1>12. SentOnce
    BY <1>3 DEF SentOnce
  <1>13. ReviewsAccepted
    <2>1. \A i \in Operations : operations[i].kind \notin {"review_request", "review_decision"}
      BY <1>10, HandoffAssumption DEF Kinds
    <2> QED
      BY <1>1, <2>1 DEF ReviewsAccepted
  <1>14. ChannelInOrder
    BY <1>3 DEF ChannelInOrder
  <1>15. AnswersBelong
    BY <1>4 DEF AnswersBelong, Answered
  <1>16. AcknowledgementHolds /\ AcknowledgedHolds
    BY <1>2 DEF AcknowledgementHolds, AcknowledgedHolds
  <1>17. StoredReviewBelongs /\ ResolvedWasAccepted
    BY <1>1, <1>10 DEF StoredReviewBelongs, ResolvedWasAccepted
  <1> QED
    BY <1>5, <1>6, <1>7, <1>8, <1>9, <1>11, <1>12, <1>13, <1>14, <1>15, <1>16, <1>17
       DEF HandoffInvariant, Types

LEMMA ClientKeepsInvariant ==
  ASSUME Types, OneEnd, Agreement, ClientActs \/ UserActs, UNCHANGED bridgeVars
  PROVE  Types' /\ OneEnd' /\ Agreement'
  <1>1. CASE HeartbeatTimesOut
    BY <1>1, SessionEndsQuiet, QuietAgreement
  <1>2. CASE BrowserRestarts \/ \E c \in Conns : OnClose(c)
    BY <1>2, AllEndsQuiet, QuietAgreement
  <1>3. CASE PairReads \/ PairedConnects \/ Disconnected
    BY <1>3, SocketClosedQuiet, QuietAgreement
  <1>4. ASSUME NEW c \in Conns, ConnectGoesOn(c) \/ PairOpens(c)
        PROVE  Types' /\ OneEnd' /\ Agreement'
    BY <1>4, OpenQuiet, QuietAgreement
  <1>5. ASSUME NEW c \in Conns, HandleAuthenticated(c) \/ \E n \in Codes : HandlePairSuccess(c, n)
        PROVE  Types' /\ OneEnd' /\ Agreement'
    BY <1>5, AnswerHeardQuiet, QuietAgreement
  <1>6. ASSUME NEW c \in Conns, HandleError(c) \/ Unexpected(c)
        PROVE  Types' /\ OneEnd' /\ Agreement'
    BY <1>6, SessionEndsQuiet, QuietAgreement
  <1>7. ASSUME NEW c \in Conns, NEW d \in Deliveries, HandleEnvelope(c, d, delivery[d].envelope)
        PROVE  Types' /\ OneEnd' /\ Agreement'
    BY <1>7, HandleEnvelopeKeeps
  <1>8. ASSUME NEW c \in Conns, NEW i \in Operations, HandleAcknowledgement(c, i)
        PROVE  Types' /\ OneEnd' /\ Agreement'
    BY <1>8, HandleAcknowledgementKeeps
  <1>9. ASSUME NEW c \in Conns, NEW i \in Operations, AcknowledgementMismatched(c, i)
        PROVE  Types' /\ OneEnd' /\ Agreement'
    BY <1>9, SessionEndsQuiet, QuietAgreement
  <1>10. ASSUME NEW d \in Deliveries, EnvelopeStored(d)
         PROVE  Types' /\ OneEnd' /\ Agreement'
    BY <1>10, EnvelopeStoredKeeps
  <1>11. ASSUME NEW d \in Deliveries, EnvelopeNotAcknowledged(d)
         PROVE  Types' /\ OneEnd' /\ Agreement'
    BY <1>11, SessionEndsQuiet, QuietAgreement
  <1>12. ASSUME NEW i \in Operations, RequestRepeated(i) \/ OperationNotSent(i) \/ AcknowledgementMissing(i)
         PROVE  Types' /\ OneEnd' /\ Agreement'
    BY <1>12, OperationsEndQuiet, QuietAgreement
  <1>13. ASSUME NEW i \in Operations, OperationSent(i)
         PROVE  Types' /\ OneEnd' /\ Agreement'
    BY <1>13, OperationSentKeeps
  <1>14. CASE \/ Connect \/ ConnectExplicitly \/ ConnectClears \/ ConnectReadsAgain
              \/ Disconnect \/ Revoke \/ RevokeDisconnects \/ \E n \in Codes : Pair(n)
    BY <1>14, StorageCallQuiet, QuietAgreement
  <1>15. ASSUME NEW i \in Operations,
                \/ SendTestPrompt(i) \/ CreateReviewRequest(i)
                \/ \E verdict \in Verdicts : SendReviewDecision(i, verdict)
         PROVE  Types' /\ OneEnd' /\ Agreement'
    BY <1>15, CallsBegin
  <1>18. CASE Closed \/ \E c \in Conns : OldSocketCloses(c)
    BY <1>18, SocketsEndQuiet, QuietAgreement
  <1>16. CASE ClientActs
    BY <1>1, <1>2, <1>3, <1>4, <1>5, <1>6, <1>7, <1>8, <1>9, <1>10, <1>11, <1>12, <1>13, <1>14, <1>16, <1>18
       DEF ClientActs
  <1>17. CASE UserActs
    BY <1>14, <1>15, <1>17 DEF UserActs
  <1> QED
    BY <1>16, <1>17

LEMMA ConnectionKeepsInvariant ==
  ASSUME Types, OneEnd, Agreement, NEW c \in Conns, ConnectionActs(c)
  PROVE  Types' /\ OneEnd' /\ Agreement'
  <1>0. DeliveriesInTurn
    BY DEF Agreement
  <1>1. CASE ClientConnects(c)
    BY <1>1, ClientConnectsQuiet, QuietAgreement
  <1>2. CASE HeardTooEarly(c) \/ \E n \in Codes : BridgeHearsToken(c, n) \/ BridgeHearsCode(c, n)
    BY <1>2, GreetingHeardQuiet, QuietAgreement
  <1>3. CASE HandshakeEnds(c)
    BY <1>3, HandshakeEndsQuiet, QuietAgreement
  <1>4. CASE BridgeSeesClose(c) \/ BridgeCloseEvent(c)
    BY <1>0, <1>4, ClosingQuiet, QuietAgreement
  <1>5. CASE ClientSeesClose(c)
    <2>1. ClosingBegins(c) /\ UNCHANGED bridgeVars
      BY <1>5 DEF ClientSeesClose
    <2> QED
      BY <2>1, SocketsEndQuiet, QuietAgreement
  <1>6. ASSUME NEW d \in Deliveries, BridgeHearsAck(c, d)
        PROVE  Types' /\ OneEnd' /\ Agreement'
    <2>1. CASE Bridge!IsAuthenticated(c) /\ Bridge!Acknowledge(c, d)
      BY <1>6, <2>1, AcknowledgeKeeps
    <2>2. CASE ~(Bridge!IsAuthenticated(c) /\ Bridge!Acknowledge(c, d))
      BY <1>0, <1>6, <2>2, OtherAckQuiet, QuietAgreement
    <2> QED
      BY <2>1, <2>2
  <1>7. ASSUME NEW i \in Operations, BridgeHearsPrompt(c, i)
        PROVE  Types' /\ OneEnd' /\ Agreement'
    BY <1>7, BridgeHearsPromptKeeps
  <1>8. ASSUME NEW i \in Operations, BridgeHearsRequest(c, i)
        PROVE  Types' /\ OneEnd' /\ Agreement'
    <2>1. /\ Hears(c, Message("review_request", i))
          /\ \/ Bridge!ReviewRequest(c, operations[i].request) /\ Accepts(c, i)
             \/ Refuses(c)
      BY <1>8 DEF BridgeHearsRequest
    <2> QED
      BY <2>1, RequestAcceptedKeeps, RefusalQuiet, QuietAgreement
  <1>9. ASSUME NEW i \in Operations, BridgeHearsDecision(c, i)
        PROVE  Types' /\ OneEnd' /\ Agreement'
    <2>1. /\ Hears(c, Message("review_decision", i))
          /\ \/ Bridge!ReviewDecision(c, operations[i].request, operations[i].verdict) /\ Accepts(c, i)
             \/ Refuses(c)
      BY <1>9 DEF BridgeHearsDecision
    <2> QED
      BY <2>1, DecisionAcceptedKeeps, RefusalQuiet, QuietAgreement
  <1> QED
    BY <1>1, <1>2, <1>3, <1>4, <1>5, <1>6, <1>7, <1>8, <1>9 DEF ConnectionActs

LEMMA NextHandoff == HandoffInvariant /\ [Next]_vars => HandoffInvariant'
  <1> SUFFICES ASSUME Types, OneEnd, Agreement, [Next]_vars
               PROVE  Types' /\ OneEnd' /\ Agreement'
    BY DEF HandoffInvariant, Agreement
  <1>0. DeliveriesInTurn
    BY DEF Agreement
  <1>1. CASE (ClientActs \/ UserActs) /\ UNCHANGED bridgeVars
    BY <1>1, ClientKeepsInvariant
  <1>2. CASE BridgeActs
    <2>1. CASE AuthenticationAccepted
      BY <2>1, AuthenticationAcceptedQuiet, QuietAgreement
    <2>2. CASE BridgeTimesOut
      BY <1>0, <2>2, ClosingQuiet, QuietAgreement
    <2>3. ASSUME NEW d \in Deliveries, NEW e \in Envelopes, BridgeSendsEnvelope(d, e)
          PROVE  Types' /\ OneEnd' /\ Agreement'
      BY <2>3, BridgeSendsEnvelopeKeeps
    <2>4. CASE AuthenticationRejected \/ PairingFails
      BY <2>4, AuthenticationRejectedQuiet, QuietAgreement
    <2>5. CASE \E n \in Codes : PairingSucceeds(n)
      BY <2>5, PairingSucceedsQuiet, QuietAgreement
    <2>6. CASE CodeShown \/ PairingRevoked \/ TokenStored
      BY <1>0, <2>6, PairingQuiet, QuietAgreement
    <2> QED
      BY <1>2, <2>1, <2>2, <2>3, <2>4, <2>5, <2>6 DEF BridgeActs
  <1>3. CASE \E c \in Conns : ConnectionActs(c)
    BY <1>3, ConnectionKeepsInvariant
  <1>4. CASE UNCHANGED vars
    <2>1. UNCHANGED <<clientVars, accepted>> /\ UNCHANGED reviewVars
      BY <1>4 DEF vars, bridgeVars
    <2> QED
      BY <1>0, <2>1, BridgeAloneQuiet, QuietAgreement
  <1> QED
    BY <1>1, <1>2, <1>3, <1>4 DEF Next

----------------------------------------------------------------------------
(* Theorems                                                                *)

\* Every reachable state satisfies HandoffInvariant: whatever is under way
\* between the client and the bridge, it is still true where it arrives.
THEOREM HandoffInvariantHolds == Spec => []HandoffInvariant
  BY InitHandoff, NextHandoff, PTL DEF Spec

\* Every variable of the client has its type.
THEOREM TypeCorrect == Spec => []TypeOK
  <1>1. HandoffInvariant => TypeOK
    BY DEF HandoffInvariant, Types
  <1> QED
    BY <1>1, HandoffInvariantHolds, PTL

\* What handleEnvelope, handleAcknowledgement and the bridge's message handlers
\* leave on the two sides never contradicts: the popup and VS Code show the same
\* review, or the popup less of it.
THEOREM TwoEndsAgree == Spec => []EndsAgree
  <1>1. HandoffInvariant => EndsAgree
    BY DEF HandoffInvariant, AcknowledgedHolds, EndsAgree
  <1> QED
    BY <1>1, HandoffInvariantHolds, PTL

\* The stored request is of the stored envelope, the stored decision of the
\* stored request: handleEnvelope drops both, and no late answer brings them
\* back.
THEOREM StoredReviewIsOfEnvelope == Spec => []StoredReviewBelongs
  <1>1. HandoffInvariant => StoredReviewBelongs
    BY DEF HandoffInvariant
  <1> QED
    BY <1>1, HandoffInvariantHolds, PTL

\* sendTestPrompt, createReviewRequest and sendReviewDecision resolve only for
\* what the bridge accepted.
THEOREM ResolvedMeansAccepted == Spec => []ResolvedWasAccepted
  <1>1. HandoffInvariant => ResolvedWasAccepted
    BY DEF HandoffInvariant
  <1> QED
    BY <1>1, HandoffInvariantHolds, PTL

----------------------------------------------------------------------------
(* Disconnecting                                                           *)

\* While the flag is stored: a connect() that did not read it has a disconnect()
\* behind it in the queue, and so has a connection that connect() opened.
OffInvariant ==
  storage.manual =>
    /\ \A p \in 1..Len(suspended) : suspended[p].by = "connect" /\ ~suspended[p].manual =>
         \E q \in 1..Len(suspended) : q > p /\ suspended[q].by = "disconnect"
    /\ socket # None /\ greeting[socket].type = "authenticate" =>
         \E q \in 1..Len(suspended) : suspended[q].by = "disconnect"

\* The connection is closed or stays.
ConnectionRests == socket' = None \/ UNCHANGED <<socket, greeting>>

LEMMA OffRests ==
  ASSUME OffInvariant, ConnectionRests, UNCHANGED suspended, storage'.manual = storage.manual
  PROVE  OffInvariant'
  BY DEF OffInvariant, ConnectionRests

\* A method is called: a connect() reads the flag that is stored, and only
\* disconnect() stores it.
LEMMA OffLonger ==
  ASSUME suspended \in Seq(Suspensions), OffInvariant, ConnectionRests,
         NEW call \in Suspensions, Suspends(call),
         call.by = "connect" => call.manual = storage'.manual,
         storage'.manual => storage.manual \/ call.by = "disconnect"
  PROVE  OffInvariant'
  <1> SUFFICES ASSUME storage'.manual
               PROVE  /\ \A p \in 1..Len(suspended') : suspended'[p].by = "connect" /\ ~suspended'[p].manual =>
                           \E q \in 1..Len(suspended') : q > p /\ suspended'[q].by = "disconnect"
                      /\ socket' # None /\ greeting'[socket'].type = "authenticate" =>
                           \E q \in 1..Len(suspended') : suspended'[q].by = "disconnect"
    BY DEF OffInvariant
  <1>1. /\ Len(suspended) \in Nat /\ Len(suspended') = Len(suspended) + 1
        /\ suspended'[Len(suspended) + 1] = call
        /\ \A p \in 1..Len(suspended) : suspended'[p] = suspended[p]
    BY SuspendedLonger
  <1>2. CASE call.by = "disconnect"
    <2>1. \A p \in 1..Len(suspended') : p # Len(suspended) + 1 => p < Len(suspended) + 1
      BY <1>1
    <2>2. Len(suspended) + 1 \in 1..Len(suspended')
      BY <1>1
    <2> QED
      BY <1>1, <1>2, <2>1, <2>2
  <1>3. CASE call.by # "disconnect"
    <2>1. storage.manual
      BY <1>3
    <2>2. ASSUME NEW q \in 1..Len(suspended)
          PROVE  q \in 1..Len(suspended')
      BY <1>1
    <2>3. ASSUME NEW p \in 1..Len(suspended'), suspended'[p].by = "connect", ~suspended'[p].manual
          PROVE  \E q \in 1..Len(suspended') : q > p /\ suspended'[q].by = "disconnect"
      <3>1. p # Len(suspended) + 1
        BY <1>1, <2>3
      <3>2. p \in 1..Len(suspended)
        BY <1>1, <3>1
      <3>3. PICK q \in 1..Len(suspended) : q > p /\ suspended[q].by = "disconnect"
        BY <1>1, <2>1, <2>3, <3>2 DEF OffInvariant
      <3> QED
        BY <1>1, <2>2, <3>3
    <2>4. ASSUME socket' # None, greeting'[socket'].type = "authenticate"
          PROVE  \E q \in 1..Len(suspended') : suspended'[q].by = "disconnect"
      <3>1. PICK q \in 1..Len(suspended) : suspended[q].by = "disconnect"
        BY <2>1, <2>4 DEF OffInvariant, ConnectionRests
      <3> QED
        BY <1>1, <2>2, <3>1
    <2> QED
      BY <2>3, <2>4
  <1> QED
    BY <1>2, <1>3

\* A method other than disconnect() goes on and awaits another call.
LEMMA OffNext ==
  ASSUME suspended \in Seq(Suspensions), OffInvariant, ConnectionRests,
         NEW by, by # "disconnect", NEW call \in Suspensions, GoesOn(by, <<call>>),
         call.by = "connect" => call.manual = storage'.manual,
         storage'.manual => storage.manual \/ call.by = "disconnect"
  PROVE  OffInvariant'
  <1> SUFFICES ASSUME storage'.manual
               PROVE  /\ \A p \in 1..Len(suspended') : suspended'[p].by = "connect" /\ ~suspended'[p].manual =>
                           \E q \in 1..Len(suspended') : q > p /\ suspended'[q].by = "disconnect"
                      /\ socket' # None /\ greeting'[socket'].type = "authenticate" =>
                           \E q \in 1..Len(suspended') : suspended'[q].by = "disconnect"
    BY DEF OffInvariant
  <1>1. /\ Len(suspended) \in Nat /\ Len(suspended') = Len(suspended)
        /\ suspended[1].by = by
        /\ suspended'[Len(suspended)] = call
        /\ \A p \in 1..(Len(suspended) - 1) : suspended'[p] = suspended[p + 1]
    BY SuspendedNext
  <1>0. Len(suspended) >= 1
    BY DEF GoesOn
  <1>2. CASE call.by = "disconnect"
    <2>1. \A p \in 1..Len(suspended') : p # Len(suspended) => p < Len(suspended)
      BY <1>1
    <2>2. Len(suspended) \in 1..Len(suspended')
      BY <1>0, <1>1
    <2> QED
      BY <1>1, <1>2, <2>1, <2>2
  <1>3. CASE call.by # "disconnect"
    <2>1. storage.manual
      BY <1>3
    <2>2. ASSUME NEW q \in 1..Len(suspended), suspended[q].by = "disconnect"
          PROVE  q - 1 \in 1..Len(suspended') /\ suspended'[q - 1].by = "disconnect"
      <3>1. q # 1
        BY <1>1, <2>2
      <3>2. q - 1 \in 1..(Len(suspended) - 1) /\ (q - 1) + 1 = q
        BY <1>1, <3>1
      <3>3. suspended'[q - 1] = suspended[q]
        BY <1>1, <3>2
      <3> QED
        BY <1>1, <2>2, <3>2, <3>3
    <2>3. ASSUME NEW p \in 1..Len(suspended'), suspended'[p].by = "connect", ~suspended'[p].manual
          PROVE  \E q \in 1..Len(suspended') : q > p /\ suspended'[q].by = "disconnect"
      <3>1. p # Len(suspended)
        BY <1>1, <2>3
      <3>2. p + 1 \in 1..Len(suspended) /\ p \in 1..(Len(suspended) - 1)
        BY <1>1, <3>1
      <3>3. PICK q \in 1..Len(suspended) : q > p + 1 /\ suspended[q].by = "disconnect"
        BY <1>1, <2>1, <2>3, <3>2 DEF OffInvariant
      <3>4. q - 1 > p
        BY <3>3
      <3> QED
        BY <2>2, <3>3, <3>4
    <2>4. ASSUME socket' # None, greeting'[socket'].type = "authenticate"
          PROVE  \E q \in 1..Len(suspended') : suspended'[q].by = "disconnect"
      <3>1. PICK q \in 1..Len(suspended) : suspended[q].by = "disconnect"
        BY <2>1, <2>4 DEF OffInvariant, ConnectionRests
      <3> QED
        BY <2>2, <3>1
    <2> QED
      BY <2>3, <2>4
  <1> QED
    BY <1>2, <1>3

\* A method goes on for the last time: only disconnect() leaves the queue and
\* closes, only a connect() that did not read the flag opens what is not for
\* pairing.
LEMMA OffLast ==
  ASSUME suspended \in Seq(Suspensions), OffInvariant, NEW by, GoesOn(by, <<>>),
         storage'.manual = storage.manual,
         \/ socket' = None
         \/ UNCHANGED <<socket, greeting>> /\ by # "disconnect"
         \/ greeting'[socket'].type = "pair_request"
         \/ by = "connect" /\ ~Head(suspended).manual
  PROVE  OffInvariant'
  <1> SUFFICES ASSUME storage'.manual
               PROVE  /\ \A p \in 1..Len(suspended') : suspended'[p].by = "connect" /\ ~suspended'[p].manual =>
                           \E q \in 1..Len(suspended') : q > p /\ suspended'[q].by = "disconnect"
                      /\ socket' # None /\ greeting'[socket'].type = "authenticate" =>
                           \E q \in 1..Len(suspended') : suspended'[q].by = "disconnect"
    BY DEF OffInvariant
  <1>1. /\ Len(suspended) \in Nat /\ Len(suspended') = Len(suspended) - 1
        /\ suspended[1].by = by /\ Head(suspended) = suspended[1]
        /\ \A p \in 1..Len(suspended') : suspended'[p] = suspended[p + 1]
    BY SuspendedLast
  <1>0. Len(suspended) >= 1
    BY DEF GoesOn
  <1>2. ASSUME NEW q \in 1..Len(suspended), suspended[q].by = "disconnect", q # 1
        PROVE  q - 1 \in 1..Len(suspended') /\ suspended'[q - 1].by = "disconnect"
    <2>1. q - 1 \in 1..Len(suspended') /\ (q - 1) + 1 = q
      BY <1>1, <1>2
    <2> QED
      BY <1>1, <1>2, <2>1
  <1>3. ASSUME NEW p \in 1..Len(suspended'), suspended'[p].by = "connect", ~suspended'[p].manual
        PROVE  \E q \in 1..Len(suspended') : q > p /\ suspended'[q].by = "disconnect"
    <2>1. p + 1 \in 1..Len(suspended)
      BY <1>1
    <2>2. PICK q \in 1..Len(suspended) : q > p + 1 /\ suspended[q].by = "disconnect"
      BY <1>1, <1>3, <2>1 DEF OffInvariant
    <2>3. q - 1 > p /\ q # 1
      BY <2>2
    <2> QED
      BY <1>2, <2>2, <2>3
  <1>4. ASSUME socket' # None, greeting'[socket'].type = "authenticate"
        PROVE  \E q \in 1..Len(suspended') : suspended'[q].by = "disconnect"
    <2>1. PICK q \in 1..Len(suspended) : suspended[q].by = "disconnect" /\ q # 1
      <3>1. CASE UNCHANGED <<socket, greeting>> /\ by # "disconnect"
        BY <1>1, <1>4, <3>1 DEF OffInvariant
      <3>2. CASE by = "connect" /\ ~Head(suspended).manual
        BY <1>0, <1>1, <3>2 DEF OffInvariant
      <3> QED
        BY <1>4, <3>1, <3>2
    <2> QED
      BY <1>2, <2>1
  <1> QED
    BY <1>3, <1>4

LEMMA FlagWritten ==
  ASSUME TypeOK, NEW b \in BOOLEAN, NEW n \in 0..MaxCodes
  PROVE  /\ [storage EXCEPT !.manual = b].manual = b
         /\ [storage EXCEPT !.token = n].manual = storage.manual
         /\ [storage EXCEPT !.manual = b, !.token = n].manual = b
  <1>1. storage \in StorageRecords
    BY DEF TypeOK, StorageRecords
  <1> QED
    BY <1>1 DEF StorageRecords

\* The methods that open and close connections.
LEMMA MethodsStayOff ==
  ASSUME Types, OffInvariant,
         \/ Connect \/ ConnectExplicitly \/ ConnectClears \/ ConnectReadsAgain
         \/ PairReads \/ PairedConnects \/ Closed \/ Disconnect \/ Disconnected \/ Revoke \/ RevokeDisconnects
         \/ \E c \in Conns : \/ ConnectGoesOn(c) \/ PairOpens(c) \/ OnClose(c)
                             \/ \E n \in Codes : HandlePairSuccess(c, n)
         \/ \E n \in Codes : Pair(n)
  PROVE  OffInvariant'
  <1>0. /\ TypeOK /\ ConnectionType /\ suspended \in Seq(Suspensions) /\ storage.manual \in BOOLEAN
        /\ 0 \in 0..MaxCodes /\ Codes \subseteq 0..MaxCodes
    BY ConnectionTyped, HandoffAssumption DEF Types, Codes, ConnectionType, StorageRecords
  <1>1. SettingsRead \in Suspensions /\ SettingsRead.by = "connect" /\ SettingsRead.manual = storage.manual
    BY <1>0, SettingsReadIs
  <1>2. CASE Connect
    <2>1. PICK call \in Suspensions : call = SettingsRead
      BY <1>1
    <2>2. Suspends(call) /\ UNCHANGED <<socket, greeting, storage>>
      BY <1>2, <2>1 DEF Connect, Starts, RestOfConnection
    <2> QED
      BY <1>0, <1>1, <2>1, <2>2, OffLonger DEF ConnectionRests
  <1>3. CASE ConnectExplicitly
    <2>1. PICK call \in Suspensions : call = Suspend("connect(true)", TRUE, 0) /\ call.by # "connect"
      BY <1>0, SuspendIs DEF Methods
    <2>2. Suspends(call) /\ UNCHANGED <<socket, greeting, storage>>
      BY <1>3, <2>1 DEF ConnectExplicitly, Starts, RestOfConnection
    <2> QED
      BY <1>0, <2>1, <2>2, OffLonger DEF ConnectionRests
  <1>4. CASE ConnectClears
    <2>1. ~storage'.manual
      BY <1>0, <1>4, FlagWritten DEF ConnectClears
    <2> QED
      BY <2>1 DEF OffInvariant
  <1>5. CASE ConnectReadsAgain
    <2>1. PICK call \in Suspensions : call = SettingsRead
      BY <1>1
    <2>2. GoesOn("cleared", <<call>>) /\ UNCHANGED <<socket, greeting, storage>>
      BY <1>5, <2>1 DEF ConnectReadsAgain, RestOfConnection
    <2> QED
      BY <1>0, <1>1, <2>1, <2>2, OffNext DEF ConnectionRests
  <1>6. CASE PairReads
    <2>1. /\ GoesOn("pair", <<Suspend("pair opens", FALSE, Head(suspended).number)>>)
          /\ socket' = None /\ UNCHANGED storage
      BY <1>6 DEF PairReads, CloseSocket
    <2>2. Head(suspended) \in Suspensions
      BY <1>0, <2>1, SuspendedHead DEF GoesOn
    <2>3. PICK n \in 0..MaxCodes : n = Head(suspended).number
      BY <2>2 DEF Suspensions
    <2>4a. Suspend("pair opens", FALSE, n) \in Suspensions /\ Suspend("pair opens", FALSE, n).by = "pair opens"
      BY SuspendIs DEF Methods
    <2>4. PICK call \in Suspensions : call = Suspend("pair opens", FALSE, n) /\ call.by = "pair opens"
      BY <2>4a
    <2>5. GoesOn("pair", <<call>>) /\ call.by # "connect"
      BY <2>1, <2>3, <2>4
    <2> QED
      BY <1>0, <2>1, <2>5, OffNext DEF ConnectionRests
  <1>7. CASE PairedConnects
    <2>1. PICK call \in Suspensions : call = SettingsRead
      BY <1>1
    <2>2. GoesOn("paired", <<call>>) /\ socket' = None /\ UNCHANGED storage
      BY <1>7, <2>1 DEF PairedConnects, CloseSocket
    <2> QED
      BY <1>0, <1>1, <2>1, <2>2, OffNext DEF ConnectionRests
  <1>8. CASE Closed
    <2>1. GoesOn("onClose", <<>>) /\ UNCHANGED <<socket, greeting, storage>>
      BY <1>8 DEF Closed
    <2> QED
      BY <1>0, <2>1, OffLast
  <1>9. CASE Disconnect
    <2>1a. Suspend("disconnect", TRUE, 0) \in Suspensions /\ Suspend("disconnect", TRUE, 0).by = "disconnect"
      BY <1>0, SuspendIs DEF Methods
    <2>1. PICK call \in Suspensions : call = Suspend("disconnect", TRUE, 0) /\ call.by = "disconnect"
      BY <2>1a
    <2>2. Suspends(call) /\ UNCHANGED <<socket, greeting>>
      BY <1>9, <2>1 DEF Disconnect, Starts, RestOfConnection
    <2>3. call.by # "connect"
      BY <2>1
    <2> QED
      BY <1>0, <2>1, <2>2, <2>3, OffLonger DEF ConnectionRests
  <1>10. CASE Disconnected
    <2>1. GoesOn("disconnect", <<>>) /\ socket' = None /\ UNCHANGED storage
      BY <1>10 DEF Disconnected, CloseSocket
    <2> QED
      BY <1>0, <2>1, OffLast
  <1>11. CASE Revoke
    <2>1a. Suspend("revoke", FALSE, 0) \in Suspensions /\ Suspend("revoke", FALSE, 0).by = "revoke"
      BY <1>0, SuspendIs DEF Methods
    <2>1. PICK call \in Suspensions : call = Suspend("revoke", FALSE, 0) /\ call.by = "revoke"
      BY <2>1a
    <2>2. Suspends(call) /\ UNCHANGED <<socket, greeting>> /\ storage' = [storage EXCEPT !.token = 0]
      BY <1>11, <2>1 DEF Revoke, Starts, RestOfConnection
    <2>3. storage'.manual = storage.manual /\ call.by # "connect"
      BY <1>0, <2>1, <2>2, FlagWritten
    <2> QED
      BY <1>0, <2>1, <2>2, <2>3, OffLonger DEF ConnectionRests
  <1>12. CASE RevokeDisconnects
    <2>1a. Suspend("disconnect", TRUE, 0) \in Suspensions /\ Suspend("disconnect", TRUE, 0).by = "disconnect"
      BY <1>0, SuspendIs DEF Methods
    <2>1. PICK call \in Suspensions : call = Suspend("disconnect", TRUE, 0) /\ call.by = "disconnect"
      BY <2>1a
    <2>2. GoesOn("revoke", <<call>>) /\ UNCHANGED <<socket, greeting>>
      BY <1>12, <2>1 DEF RevokeDisconnects, RestOfConnection
    <2>3. call.by # "connect"
      BY <2>1
    <2> QED
      BY <1>0, <2>1, <2>2, <2>3, OffNext DEF ConnectionRests
  <1>13. ASSUME NEW c \in Conns, ConnectGoesOn(c)
         PROVE  OffInvariant'
    <2>1. /\ GoesOn("connect", <<>>) /\ UNCHANGED storage
          /\ UNCHANGED <<socket, greeting>> \/ MayConnect(Head(suspended))
      BY <1>13 DEF ConnectGoesOn, RestOfConnection
    <2>2. UNCHANGED <<socket, greeting>> \/ ~Head(suspended).manual
      BY <2>1 DEF MayConnect
    <2> QED
      BY <1>0, <2>1, <2>2, OffLast
  <1>14. ASSUME NEW c \in Conns, PairOpens(c)
         PROVE  OffInvariant'
    <2>1. GoesOn("pair opens", <<>>) /\ UNCHANGED storage
      BY <1>14 DEF PairOpens
    <2>2. CASE UNCHANGED <<socket, greeting>>
      BY <1>0, <2>1, <2>2, OffLast
    <2>3. CASE ~UNCHANGED <<socket, greeting>>
      <3>1. Open(c, Message("pair_request", Head(suspended).number))
        BY <1>14, <2>3 DEF PairOpens, RestOfConnection
      <3>2. greeting \in [Conns -> Greetings]
        BY <1>0 DEF ConnectionType
      <3>3. greeting'[socket'] = Message("pair_request", Head(suspended).number)
        BY <3>1, <3>2 DEF Open
      <3>4. greeting'[socket'].type = "pair_request"
        BY <3>3 DEF Message
      <3> QED
        BY <1>0, <2>1, <3>4, OffLast
    <2> QED
      BY <2>2, <2>3
  <1>15. ASSUME NEW c \in Conns, OnClose(c)
         PROVE  OffInvariant'
    <2>0. PICK m \in BOOLEAN : m = storage.manual
      BY <1>0
    <2>1a. Suspend("onClose", m, 0) \in Suspensions /\ Suspend("onClose", m, 0).by = "onClose"
      BY <1>0 DEF Suspend, Suspensions, Methods
    <2>1. PICK call \in Suspensions : call = Suspend("onClose", storage.manual, 0) /\ call.by = "onClose"
      BY <2>0, <2>1a
    <2>2. Suspends(call) /\ socket' = None /\ UNCHANGED storage /\ call.by # "connect"
      BY <1>15, <2>1 DEF OnClose, CloseSocket
    <2> QED
      BY <1>0, <2>1, <2>2, OffLonger DEF ConnectionRests
  <1>16. ASSUME NEW c \in Conns, NEW n \in Codes, HandlePairSuccess(c, n)
         PROVE  OffInvariant'
    <2>1. ~storage'.manual
      BY <1>0, <1>16, FlagWritten DEF HandlePairSuccess
    <2> QED
      BY <2>1 DEF OffInvariant
  <1>17. ASSUME NEW n \in Codes, Pair(n)
         PROVE  OffInvariant'
    <2>1. ~storage'.manual
      BY <1>0, <1>17, FlagWritten DEF Pair
    <2> QED
      BY <2>1 DEF OffInvariant
  <1> QED
    BY <1>2, <1>3, <1>4, <1>5, <1>6, <1>7, <1>8, <1>9, <1>10, <1>11, <1>12, <1>13, <1>14, <1>15, <1>16, <1>17

LEMMA ClientStaysOff ==
  ASSUME Types, Agreement, OffInvariant, ClientActs \/ UserActs
  PROVE  OffInvariant'
  <1>0. storage \in StorageRecords
    BY DEF Types, TypeOK, StorageRecords
  <1>1. CASE HeartbeatTimesOut
    BY <1>1, OffRests DEF HeartbeatTimesOut, FailProtocol, EndSession, CloseSocket, ConnectionRests
  <1>2. CASE BrowserRestarts
    <2>1. Len(suspended') = 0 /\ socket' = None
      BY <1>2 DEF BrowserRestarts, CloseSocket
    <2> QED
      BY <2>1 DEF OffInvariant
  <1>3. ASSUME NEW c \in Conns, OldSocketCloses(c)
        PROVE  OffInvariant'
    BY <1>3, OffRests DEF OldSocketCloses, ConnectionRests
  <1>4. ASSUME NEW c \in Conns, HandleAuthenticated(c)
        PROVE  OffInvariant'
    BY <1>4, OffRests DEF HandleAuthenticated, ConnectionRests
  <1>5. ASSUME NEW c \in Conns, HandleError(c) \/ Unexpected(c)
        PROVE  OffInvariant'
    BY <1>5, OffRests DEF HandleError, Unexpected, Block, FailProtocol, EndSession, CloseSocket, ConnectionRests
  <1>6. ASSUME NEW c \in Conns, NEW d \in Deliveries, HandleEnvelope(c, d, delivery[d].envelope)
        PROVE  OffInvariant'
    <2>1. storage' = [storage EXCEPT !.envelope = delivery[d].envelope, !.request = None, !.decision = None]
          /\ UNCHANGED <<socket, greeting, suspended>>
      BY <1>6 DEF HandleEnvelope, StoreEnvelope, sessionVars
    <2>2. storage'.manual = storage.manual
      BY <1>0, <2>1 DEF StorageRecords
    <2> QED
      BY <2>1, <2>2, OffRests DEF ConnectionRests
  <1>7. ASSUME NEW c \in Conns, NEW i \in Operations, HandleAcknowledgement(c, i)
        PROVE  OffInvariant'
    <2>1. storage' = Recorded(i) /\ UNCHANGED <<socket, greeting, suspended>>
      BY <1>7 DEF HandleAcknowledgement, Matches, sessionVars
    <2>2. PICK o : o = operations[i]
      OBVIOUS
    <2>3. Recorded(i) = CASE o.kind = "review_request" -> [storage EXCEPT !.request = o.request]
                          [] o.kind = "review_decision" ->
                               [storage EXCEPT !.decision = [request |-> o.request, verdict |-> o.verdict]]
                          [] OTHER -> storage
      BY <2>2 DEF Recorded
    <2>4. storage'.manual = storage.manual
      BY <1>0, <2>1, <2>3 DEF StorageRecords
    <2> QED
      BY <2>1, <2>4, OffRests DEF ConnectionRests
  <1>8. ASSUME NEW c \in Conns, NEW i \in Operations, AcknowledgementMismatched(c, i)
        PROVE  OffInvariant'
    BY <1>8, OffRests DEF AcknowledgementMismatched, FailProtocol, EndSession, CloseSocket, ConnectionRests
  <1>9. ASSUME NEW d \in Deliveries, EnvelopeStored(d)
        PROVE  OffInvariant'
    BY <1>9, OffRests DEF EnvelopeStored, sessionVars, ConnectionRests
  <1>10. ASSUME NEW d \in Deliveries, EnvelopeNotAcknowledged(d)
         PROVE  OffInvariant'
    BY <1>10, OffRests DEF EnvelopeNotAcknowledged, FailProtocol, EndSession, CloseSocket, ConnectionRests
  <1>11. ASSUME NEW i \in Operations,
                \/ RequestRepeated(i) \/ OperationSent(i) \/ OperationNotSent(i) \/ AcknowledgementMissing(i)
         PROVE  OffInvariant'
    BY <1>11, OffRests
       DEF RequestRepeated, OperationSent, OperationNotSent, AcknowledgementMissing, sessionVars, ConnectionRests
  <1>12. ASSUME NEW i \in Operations,
                \/ SendTestPrompt(i) \/ CreateReviewRequest(i)
                \/ \E verdict \in Verdicts : SendReviewDecision(i, verdict)
         PROVE  OffInvariant'
    BY <1>12, OffRests
       DEF SendTestPrompt, CreateReviewRequest, SendReviewDecision, Begins, sessionVars, ConnectionRests
  <1>13. CASE ClientActs
    BY <1>1, <1>2, <1>3, <1>4, <1>5, <1>6, <1>7, <1>8, <1>9, <1>10, <1>11, <1>13, MethodsStayOff DEF ClientActs
  <1>14. CASE UserActs
    BY <1>12, <1>14, MethodsStayOff DEF UserActs
  <1> QED
    BY <1>13, <1>14

LEMMA BridgeStaysOff ==
  ASSUME OffInvariant, BridgeActs \/ \E c \in Conns : ConnectionActs(c)
  PROVE  OffInvariant'
  <1>1. CASE BridgeActs
    <2>1. UNCHANGED <<socket, greeting, suspended, storage>>
      BY <1>1 DEF BridgeActs, CodeShown, PairingRevoked, TokenStored, PairingSucceeds, PairingFails,
                  AuthenticationAccepted, AuthenticationRejected, BridgeTimesOut, BridgeSendsEnvelope,
                  ClientWaits, clientVars, sessionVars
    <2> QED
      BY <2>1, OffRests DEF ConnectionRests
  <1>2. ASSUME NEW c \in Conns, ClientConnects(c) \/ ClientSeesClose(c)
        PROVE  UNCHANGED <<socket, greeting, suspended, storage>>
    BY <1>2 DEF ClientConnects, OnOpen, ClientSeesClose, ClosingBegins
  <1>3. ASSUME NEW c \in Conns, HandshakeEnds(c) \/ BridgeSeesClose(c) \/ BridgeCloseEvent(c)
        PROVE  UNCHANGED <<socket, greeting, suspended, storage>>
    BY <1>3 DEF HandshakeEnds, BridgeSeesClose, BridgeCloseEvent, ClientWaits, clientVars, sessionVars
  <1>4. ASSUME NEW c \in Conns, NEW m, Hears(c, m)
        PROVE  UNCHANGED <<socket, greeting, suspended, storage>>
    BY <1>4 DEF Hears, sessionVars
  <1>5. ASSUME NEW c \in Conns, ConnectionActs(c)
        PROVE  \/ ClientConnects(c) \/ ClientSeesClose(c) \/ \E m : Hears(c, m)
               \/ HandshakeEnds(c) \/ BridgeSeesClose(c) \/ BridgeCloseEvent(c)
    BY <1>5 DEF ConnectionActs, BridgeHearsToken, BridgeHearsCode, HeardTooEarly, BridgeHearsAck,
                BridgeHearsPrompt, BridgeHearsRequest, BridgeHearsDecision
  <1>6. ASSUME NEW c \in Conns, ConnectionActs(c)
        PROVE  OffInvariant'
    <2>1. UNCHANGED <<socket, greeting, suspended, storage>>
      BY <1>2, <1>3, <1>4, <1>5, <1>6
    <2> QED
      BY <2>1, OffRests DEF ConnectionRests
  <1> QED
    BY <1>1, <1>6

\* When the flag is stored and no disconnect(), setPort() or revoke() is still
\* suspended, the connection that is left, if there is one, was opened by
\* pair(): a connect() that read the settings before, in whatever order the
\* methods were called, has opened none that stays.
THEOREM DisconnectedMeansOff == Spec => []DisconnectedStaysOff
  <1>1. Init => OffInvariant
    BY DEF Init, ClientInit, OffInvariant
  <1>2. HandoffInvariant /\ OffInvariant /\ [Next]_vars => OffInvariant'
    <2> SUFFICES ASSUME Types, Agreement, OffInvariant, [Next]_vars PROVE OffInvariant'
      BY DEF HandoffInvariant, Agreement
    <2>1. CASE UNCHANGED vars
      <3>1. UNCHANGED <<socket, greeting, suspended, storage>>
        BY <2>1 DEF vars, clientVars, sessionVars
      <3> QED
        BY <3>1, OffRests DEF ConnectionRests
    <2> QED
      BY <2>1, ClientStaysOff, BridgeStaysOff DEF Next
  <1>3. HandoffInvariant /\ OffInvariant => DisconnectedStaysOff
    <2> SUFFICES ASSUME Types, OffInvariant, storage.manual, socket # None,
                        \A p \in DOMAIN suspended : suspended[p].by # "disconnect"
                 PROVE  greeting[socket].type = "pair_request"
      BY DEF HandoffInvariant, DisconnectedStaysOff
    <2>1. /\ suspended \in Seq(Suspensions) /\ greeting \in [Conns -> Greetings] /\ socket \in Conns
      BY DEF Types, TypeOK, Maybe
    <2>2. DOMAIN suspended = 1..Len(suspended)
      BY <2>1
    <2>3. greeting[socket].type # "authenticate"
      BY <2>2 DEF OffInvariant
    <2> QED
      BY <2>1, <2>3 DEF Greetings
  <1> QED
    BY <1>1, <1>2, <1>3, HandoffInvariantHolds, PTL DEF Spec
=============================================================================
