---------------------------- MODULE BridgeClient ----------------------------
(***************************************************************************)
(* What BrowserBridgeClient does over its connection: envelopes, test      *)
(* prompts, review requests and decisions, and their acknowledgements.     *)
(* ReviewHandoff joins it to the bridge.                                   *)
(***************************************************************************)
EXTENDS ClientConnection

----------------------------------------------------------------------------
(* Envelopes                                                               *)

\* The request and the decision of the envelope before stay.
StoreEnvelopeBug(e) == storage' = [storage EXCEPT !.envelope = e]

StoreEnvelope(e) ==
  storage' = [storage EXCEPT !.envelope = e, !.request = None, !.decision = None]

\* handleEnvelope up to its first await, for delivery d of envelope e.
HandleEnvelope(c, d, e) ==
  /\ Receives(c, Message("implementation_review_envelope", d))
  /\ state = "authenticated"
  /\ StoreEnvelope(e)
  /\ storing' = storing \union {d}
  /\ Consume(c)
  /\ UNCHANGED <<sessionVars, pending, operations, toBridge>>

\* It goes on: the acknowledgement leaves on the socket of this moment.
EnvelopeStored(d) ==
  /\ d \in storing /\ CanSend
  /\ storing' = storing \ {d}
  /\ Send(Message("ack", d))
  /\ UNCHANGED <<sessionVars, storage, pending, operations, toClient>>

\* send throws, and the catch of onMessage ends the session, whatever it is.
EnvelopeNotAcknowledged(d) ==
  /\ d \in storing /\ ~CanSend
  /\ storing' = storing \ {d}
  /\ FailProtocol
  /\ UNCHANGED <<storage, toBridge>>

----------------------------------------------------------------------------
(* Operations of the popup                                                 *)

\* No request or decision may be under way beside a request or a decision;
\* a prompt only looks at prompts.
Excludes(kind) == IF kind \in ReviewKinds THEN ReviewKinds ELSE {kind}

Ready(kind) ==
  /\ state = "authenticated" /\ socket # None
  /\ \A k \in Excludes(kind) : pending[k] = None

\* The stored request, if it is for the stored envelope.
HasRequest == storage.request # None /\ storage.request.envelope = storage.envelope

HasDecision == storage.decision # None /\ storage.decision.request = storage.request

\* The request of an operation: the stored one, or a new one.
RequestOf(i) ==
  IF HasRequest THEN storage.request ELSE [number |-> i, envelope |-> storage.envelope]

Begins(i, kind, request, verdict) ==
  /\ operations[i] = NoOperation /\ \A j \in 1..(i - 1) : operations[j] # NoOperation
  /\ Ready(kind)
  /\ operations' = [operations EXCEPT ![i] = [kind |-> kind, request |-> request, verdict |-> verdict,
                                              promise |-> "preparing", timer |-> FALSE]]
  /\ UNCHANGED <<sessionVars, storage, pending, storing, channels>>

SendTestPrompt(i) == Begins(i, "browser_test_prompt", None, None)

\* The envelope is not validated.
CreateReviewRequestBug(i) == Begins(i, "review_request", RequestOf(i), None)

CreateReviewRequest(i) ==
  /\ storage.envelope # None
  /\ Begins(i, "review_request", RequestOf(i), None)

SendReviewDecision(i, verdict) ==
  /\ HasRequest /\ ~HasDecision
  /\ Begins(i, "review_decision", storage.request, verdict)

\* createReviewRequest found the stored request: nothing is sent.
IsRepeated(i) == operations[i].kind = "review_request" /\ operations[i].request.number # i

RequestRepeated(i) ==
  /\ operations[i].promise = "preparing" /\ IsRepeated(i)
  /\ operations' = Ended("resolved", {i})
  /\ UNCHANGED <<sessionVars, storage, pending, storing, channels>>

\* A request or a decision goes into the storage, a prompt leaves nothing there
\* that matters here.
Recorded(i) ==
  LET o == operations[i] IN
  CASE o.kind = "review_request"  -> [storage EXCEPT !.request = o.request]
    [] o.kind = "review_decision" -> [storage EXCEPT !.decision = [request |-> o.request,
                                                                   verdict |-> o.verdict]]
    [] OTHER                      -> storage

\* The request or the decision is stored before it is acknowledged.
OperationSentBug(i) ==
  /\ operations[i].promise = "preparing" /\ ~IsRepeated(i)
  /\ CanSend
  /\ Send(Message(operations[i].kind, i))
  /\ operations' = [operations EXCEPT ![i].promise = "waiting", ![i].timer = TRUE]
  /\ pending' = [pending EXCEPT ![operations[i].kind] = i]
  /\ storage' = Recorded(i)
  /\ UNCHANGED <<sessionVars, storing, toClient>>

\* The awaits before send are over.  The guard is not looked at again: the slot
\* may be taken and the socket another one.
OperationSent(i) ==
  /\ operations[i].promise = "preparing" /\ ~IsRepeated(i)
  /\ CanSend
  /\ Send(Message(operations[i].kind, i))
  /\ operations' = [operations EXCEPT ![i].promise = "waiting", ![i].timer = TRUE]
  /\ pending' = [pending EXCEPT ![operations[i].kind] = i]
  /\ UNCHANGED <<sessionVars, storage, storing, toClient>>

OperationNotSent(i) ==
  /\ operations[i].promise = "preparing" /\ ~IsRepeated(i)
  /\ ~CanSend
  /\ operations' = Ended("rejected", {i})
  /\ UNCHANGED <<sessionVars, storage, pending, storing, channels>>

\* The timer that operation i armed rejects the operation in the slot.
AcknowledgementMissing(i) ==
  LET kind == operations[i].kind IN
  /\ operations[i].timer
  /\ operations' = [Ended("rejected", Rejecting({kind})) EXCEPT ![i].timer = FALSE]
  /\ pending' = Emptied({kind})
  /\ UNCHANGED <<sessionVars, storage, storing, channels>>

----------------------------------------------------------------------------
(* Acknowledgements of operations                                          *)

\* The slot an acknowledgement goes to: the first that is taken.
Awaited ==
  CASE pending["browser_test_prompt"] # None -> pending["browser_test_prompt"]
    [] pending["review_request"] # None      -> pending["review_request"]
    [] OTHER                                 -> pending["review_decision"]

\* The acknowledgement is not compared with the operation.
MatchesBug(i) == Awaited # None

Matches(i) == Awaited = i

HandleAcknowledgement(c, i) ==
  /\ Receives(c, Message("ack", i))
  /\ Matches(i)
  /\ storage' = Recorded(Awaited)
  /\ pending' = Emptied({operations[Awaited].kind})
  /\ operations' = Ended("resolved", {Awaited})
  /\ Consume(c)
  /\ UNCHANGED <<sessionVars, storing, toBridge>>

\* Another operation's, or nobody's.
AcknowledgementMismatched(c, i) ==
  /\ Receives(c, Message("ack", i))
  /\ ~Matches(i)
  /\ FailProtocol
  /\ UNCHANGED <<storage, storing, toBridge>>
=============================================================================
