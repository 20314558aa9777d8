--------------------------- MODULE SessionRecords ---------------------------
(***************************************************************************)
(* inspectTurnRecords of src/sessionStore.ts: what one reading of a Codex  *)
(* session file says about the turn that Aiflow asked for.                 *)
(*                                                                         *)
(* A record is abstracted to its kind, the turn_id it carries (or NoTurn), *)
(* and a text: the prompt of a user message, the words of an agent message *)
(* or of task_complete, the model of a turn_context.                       *)
(***************************************************************************)
EXTENDS Integers, Sequences, SequencesExt

CONSTANTS TurnIds, NoTurn,   \* turn identifiers, and their absence
          Texts, NoText,     \* contents of records, and their absence
          ExactPrompt        \* the prompt Aiflow sent

ASSUME RecordAssumption ==
  /\ NoTurn \notin TurnIds
  /\ NoText \notin Texts
  /\ ExactPrompt \in Texts

\* terminalFromEvent: the event types that end a turn.  turn_aborted stands
\* for task_interrupted too, error for task_failed and turn_failed.
TerminalKinds == {"task_complete", "turn_aborted", "error"}

TerminalFromEvent(kind) ==
  CASE kind = "task_complete" -> "completed"
    [] kind = "turn_aborted"  -> "cancelled"
    [] kind = "error"         -> "failed"

ScopingKinds == {"task_started", "turn_context"}

Records ==
  [kind : ScopingKinds \union TerminalKinds \union {"user_message", "agent_message", "other"},
   turn : TurnIds \union {NoTurn},
   text : Texts \union {NoText}]

AllTurnIds(records) == {records[i].turn : i \in DOMAIN records} \ {NoTurn}

\* The boundary swallows the first record of the turn.
BoundaryOfBug(records) == [recordCount |-> Len(records) + 1, turnIds |-> AllTurnIds(records)]

\* captureSessionBoundary
BoundaryOf(records) == [recordCount |-> Len(records), turnIds |-> AllTurnIds(records)]

NoTerminal == [outcome |-> "none", finalResponse |-> NoText]

----------------------------------------------------------------------------
(* The loop over the records after the boundary                            *)

ScanStart ==
  [activeTurnId |-> NoTurn, promptTurnIds |-> {}, unscopedExactPrompt |-> FALSE,
   observedTurnIds |-> {},
   terminals |-> [t \in TurnIds |-> NoTerminal],
   agentMessages |-> [t \in TurnIds |-> NoText],
   contexts |-> [t \in TurnIds |-> NoText]]

\* One iteration; s is what the iterations before it left.
ScanWith(s, record, scope) ==
  LET turnId == record.turn
      activeTurnId == IF record.kind \in ScopingKinds /\ turnId # NoTurn
                      THEN turnId ELSE s.activeTurnId
      recordTurnId == IF scope # NoTurn THEN scope ELSE activeTurnId
      isPrompt == record.kind = "user_message" /\ record.text = ExactPrompt
  IN [activeTurnId |-> activeTurnId,
      promptTurnIds |-> s.promptTurnIds \union
                          {t \in {recordTurnId} : isPrompt /\ t # NoTurn},
      unscopedExactPrompt |-> s.unscopedExactPrompt \/ (isPrompt /\ recordTurnId = NoTurn),
      observedTurnIds |-> s.observedTurnIds \union ({turnId} \ {NoTurn}),
      terminals |-> [t \in TurnIds |->
        IF record.kind \in TerminalKinds /\ t = turnId
        THEN [outcome |-> TerminalFromEvent(record.kind),
              finalResponse |-> IF record.kind = "task_complete" THEN record.text ELSE NoText]
        ELSE s.terminals[t]],
      agentMessages |-> [t \in TurnIds |->
        IF record.kind = "agent_message" /\ record.text # NoText /\ t = recordTurnId
        THEN record.text ELSE s.agentMessages[t]],
      contexts |-> [t \in TurnIds |->
        IF record.kind = "turn_context" /\ t = turnId THEN record.text ELSE s.contexts[t]]]

\* Every record is charged to the turn that is active, its own turn_id or not.
ScanRecordBug(s, record) == ScanWith(s, record, NoTurn)

ScanRecord(s, record) == ScanWith(s, record, record.turn)

\* The loop, record after record.
Scan(records) ==
  LET scan[n \in 0..Len(records)] ==
        IF n = 0 THEN ScanStart ELSE ScanRecord(scan[n - 1], records[n])
  IN scan[Len(records)]

\* The boundary is not used.
RecordsAfterBug(records, boundary) == records

\* records.slice(boundary.recordCount)
RecordsAfter(records, boundary) == SubSeq(records, boundary.recordCount + 1, Len(records))

----------------------------------------------------------------------------
(* Verdict on the scanned records                                          *)

Rejected(why) ==
  [error |-> why, turnId |-> NoTurn, turnObserved |-> FALSE, promptCorrelated |-> FALSE,
   outcome |-> "none", finalResponse |-> NoText, recordedModel |-> NoText]

Verdict(s, knownTurnId) ==
  LET promptTurnId == IF s.promptTurnIds = {} THEN NoTurn ELSE CHOOSE t \in s.promptTurnIds : TRUE
      turnId == IF knownTurnId # NoTurn THEN knownTurnId ELSE promptTurnId
      terminal == IF turnId = NoTurn THEN NoTerminal ELSE s.terminals[turnId]
  IN [error |-> "none",
      turnId |-> turnId,
      turnObserved |-> turnId \in s.observedTurnIds,
      promptCorrelated |-> turnId \in s.promptTurnIds,
      outcome |-> terminal.outcome,
      finalResponse |-> IF terminal.finalResponse # NoText \/ turnId = NoTurn
                        THEN terminal.finalResponse ELSE s.agentMessages[turnId],
      recordedModel |-> IF turnId = NoTurn THEN NoText ELSE s.contexts[turnId]]

\* The prompt in two turns is not noticed.
SeveralPromptTurnsBug(s) == FALSE

SeveralPromptTurns(s) == \E t, u \in s.promptTurnIds : t # u

InspectTurnRecords(records, boundary, knownTurnId) ==
  LET s == Scan(RecordsAfter(records, boundary)) IN
  CASE knownTurnId \in boundary.turnIds -> Rejected("turn before boundary")
    [] knownTurnId \notin boundary.turnIds /\ SeveralPromptTurns(s)
         -> Rejected("several prompt turns")
    [] OTHER ->
       IF s.unscopedExactPrompt THEN Rejected("unscoped prompt")
       ELSE IF knownTurnId # NoTurn /\ \E t \in s.promptTurnIds : t # knownTurnId
            THEN Rejected("turn mismatch")
            ELSE Verdict(s, knownTurnId)

\* waitForExactTurn has its result.
IsComplete(inspection) ==
  inspection.turnId # NoTurn /\ inspection.turnObserved /\ inspection.outcome # "none"
=============================================================================
