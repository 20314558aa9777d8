-------------------------- MODULE ExactTurnWatcher --------------------------
(***************************************************************************)
(* waitForExactTurn of src/sessionStore.ts polling the session file of one *)
(* conversation while Codex appends to it: the bootstrap turn may still be *)
(* writing when the boundary is captured, the turn Aiflow asked for starts *)
(* after it, and the user may run turns of his own in the same             *)
(* conversation, even with the same prompt.                                *)
(*                                                                         *)
(* readSession drops a last line that is still being written, so a record  *)
(* appears in "file" when its line is complete.                            *)
(***************************************************************************)
EXTENDS SessionRecords

CONSTANTS Bootstrap, Real,  \* the bootstrap turn, the turn asked for
          SamePrompt,       \* turns whose prompt is the exact prompt
          MaxRecords        \* bound on the length of the file

ASSUME TurnAssumption ==
  /\ Bootstrap \in TurnIds /\ Real \in TurnIds \ {Bootstrap}
  /\ Real \in SamePrompt /\ SamePrompt \subseteq TurnIds \ {Bootstrap}
  /\ TurnIds \subseteq Texts \ {ExactPrompt}
  /\ MaxRecords \in Nat \ {0}

VARIABLES
  file,           \* complete records of the session file
  open,           \* Codex: the turn that runs, or NoTurn
  phase,          \* where run() is: "boundary", "request", then the watcher
  boundary,       \* the captured SessionBoundary
  knownTurnId,    \* turn identifier of the start-turn response, or NoTurn
  emittedTurnId,  \* local of waitForExactTurn
  inspection,     \* the last TurnInspection
  outcome         \* how the watcher ended

watcherVars == <<phase, boundary, knownTurnId, emittedTurnId, inspection, outcome>>
vars == <<file, open, watcherVars>>

Record(kind, turn, text) == [kind |-> kind, turn |-> turn, text |-> text]

\* The bootstrap turn has completed: waitForBootstrapSession saw it.  Its last
\* records may still be on their way.
Init ==
  /\ file = <<Record("task_complete", Bootstrap, Bootstrap)>>
  /\ open \in {Bootstrap, NoTurn}
  /\ phase = "boundary"
  /\ boundary = BoundaryOf(<<>>)
  /\ knownTurnId = NoTurn
  /\ emittedTurnId = NoTurn
  /\ inspection = Rejected("none")
  /\ outcome = "none"

----------------------------------------------------------------------------
(* Codex (not in src/): one turn at a time in a conversation.  A turn      *)
(* begins with task_started, goes on with its context, its prompt, its     *)
(* answers and its terminal events, each of them any number of times.  Its *)
(* messages may lack the turn_id, everything else carries it.  Its words   *)
(* are its own name, so that a mix-up shows.  The turns of others complete, *)
(* with words; the turn asked for ends in every way.                       *)

\* What Codex writes once the watcher has ended is of no interest.
Append1(record) ==
  /\ Len(file) < MaxRecords
  /\ phase \in {"boundary", "request", "watch", "onTurnId"}
  /\ file' = Append(file, record)

PromptOf(t) == IF t \in SamePrompt THEN ExactPrompt ELSE t

Stage(kind) ==
  CASE kind = "task_started"    -> 0
    [] kind = "turn_context"    -> 1
    [] kind = "user_message"    -> 2
    [] kind = "agent_message"   -> 3
    [] kind \in TerminalKinds   -> 4

TurnRecords(t) ==
  {Record("turn_context", t, t), Record("task_complete", t, t), Record("agent_message", NoTurn, t)}
    \union {Record("user_message", id, PromptOf(t)) : id \in {t, NoTurn}}
    \union (IF t # Real THEN {}
            ELSE {Record("agent_message", t, t), Record("task_complete", t, NoText)}
                   \union {Record(kind, t, NoText) : kind \in {"turn_aborted", "error"}})

TurnBegins(t) ==
  /\ open = NoTurn
  /\ t \notin AllTurnIds(file)
  /\ t = Real => phase # "boundary"
  /\ Append1(Record("task_started", t, NoText))
  /\ open' = t
  /\ UNCHANGED watcherVars

TurnWrites(t) ==
  /\ open = t
  /\ \E record \in TurnRecords(t) :
       /\ Stage(record.kind) >= Stage(Last(file).kind)
       /\ Append1(record)
  /\ UNCHANGED <<open, watcherVars>>

HasEnded(t) == \E i \in DOMAIN file : file[i].turn = t /\ file[i].kind \in TerminalKinds

TurnEnds(t) ==
  /\ open = t
  /\ HasEnded(t)
  /\ open' = NoTurn
  /\ UNCHANGED <<file, watcherVars>>

----------------------------------------------------------------------------
(* The worker and the watcher                                              *)

CaptureBoundary ==
  /\ phase = "boundary"
  /\ boundary' = BoundaryOf(file)
  /\ phase' = "request"
  /\ UNCHANGED <<file, open, knownTurnId, emittedTurnId, inspection, outcome>>

\* The start-turn response, with or without the turn identifier.
StartResponse ==
  /\ phase = "request"
  /\ knownTurnId' \in {NoTurn, Real}
  /\ phase' = "watch"
  /\ UNCHANGED <<file, open, boundary, emittedTurnId, inspection, outcome>>

Return(i) ==
  /\ phase' = "returned"
  /\ outcome' = i.outcome

\* A turn that has already ended is returned without being announced.
PollBug ==
  LET i == InspectTurnRecords(file, boundary, knownTurnId)
      isNew == i.turnId # NoTurn /\ i.turnId # emittedTurnId IN
  /\ phase = "watch"
  /\ \/ /\ i.error # "none"
        /\ phase' = "threw"
        /\ UNCHANGED <<emittedTurnId, inspection, outcome>>
     \/ /\ i.error = "none" /\ isNew /\ ~IsComplete(i)
        /\ phase' = "onTurnId"
        /\ emittedTurnId' = i.turnId
        /\ inspection' = i
        /\ UNCHANGED outcome
     \/ /\ i.error = "none" /\ IsComplete(i)
        /\ inspection' = i
        /\ Return(i)
        /\ UNCHANGED emittedTurnId
  /\ UNCHANGED <<file, open, boundary, knownTurnId>>

\* One iteration of the loop over a file that could be read.  A new turn identifier is announced and awaited
\* before the verdict is used; a verdict with nothing in it is only waited on.
Poll ==
  LET i == InspectTurnRecords(file, boundary, knownTurnId)
      isNew == i.turnId # NoTurn /\ i.turnId # emittedTurnId IN
  /\ phase = "watch"
  /\ \/ /\ i.error # "none"
        /\ phase' = "threw"
        /\ UNCHANGED <<emittedTurnId, inspection, outcome>>
     \/ /\ i.error = "none" /\ isNew
        /\ phase' = "onTurnId"
        /\ emittedTurnId' = i.turnId
        /\ inspection' = i
        /\ UNCHANGED outcome
     \/ /\ i.error = "none" /\ ~isNew /\ IsComplete(i)
        /\ inspection' = i
        /\ Return(i)
        /\ UNCHANGED emittedTurnId
  /\ UNCHANGED <<file, open, boundary, knownTurnId>>

\* The reading at the head of the loop fails: the file is gone, too large or not
\* JSON lines, or its first session_meta names another conversation.  Codex does
\* not do this to a session that it writes; the records of such a file are not
\* modelled, none of them is inspected.
ReadingFails ==
  /\ phase = "watch"
  /\ phase' = "threw"
  /\ UNCHANGED <<file, open, boundary, knownTurnId, emittedTurnId, inspection, outcome>>

OnTurnIdReturns ==
  /\ phase = "onTurnId"
  /\ IF IsComplete(inspection)
     THEN Return(inspection)
     ELSE phase' = "watch" /\ UNCHANGED outcome
  /\ UNCHANGED <<file, open, boundary, knownTurnId, emittedTurnId, inspection>>

\* onTurnId throws when an interrupt fails.
OnTurnIdThrows ==
  /\ phase = "onTurnId"
  /\ phase' = "threw"
  /\ UNCHANGED <<file, open, boundary, knownTurnId, emittedTurnId, inspection, outcome>>

DeadlinePasses ==
  /\ phase = "watch"
  /\ phase' = "timedOut"
  /\ UNCHANGED <<file, open, boundary, knownTurnId, emittedTurnId, inspection, outcome>>

Next ==
  \/ \E t \in TurnIds : TurnBegins(t) \/ TurnWrites(t) \/ TurnEnds(t)
  \/ CaptureBoundary \/ StartResponse
  \/ Poll \/ ReadingFails \/ OnTurnIdReturns \/ OnTurnIdThrows \/ DeadlinePasses

Spec == Init /\ [][Next]_vars

----------------------------------------------------------------------------
(* The reference: the same verdict read off positions in the file          *)

NewIndices == {i \in DOMAIN file : i > boundary.recordCount}

\* The turn a record belongs to: its own turn_id, or the one of the last record
\* since the boundary that opened a turn.
Scopes(i) == {j \in NewIndices : j <= i /\ file[j].turn # NoTurn
                                 /\ (file[j].kind \in ScopingKinds \/ j = i)}
ScopeOf(i) == IF Scopes(i) = {} THEN NoTurn ELSE file[Max(Scopes(i))].turn

PromptTurns ==
  {ScopeOf(i) : i \in {j \in NewIndices : /\ file[j].kind = "user_message"
                                          /\ file[j].text = ExactPrompt}}

\* The text of the last new record of turn t with one of these kinds.
LastOf(t, kinds, scoped) ==
  {i \in NewIndices : file[i].kind \in kinds
                      /\ (IF scoped THEN ScopeOf(i) ELSE file[i].turn) = t}

Acceptable(known) ==
  /\ known \notin {file[i].turn : i \in DOMAIN file \ NewIndices} \ {NoTurn}
  /\ PromptTurns \subseteq IF known = NoTurn THEN TurnIds ELSE {known}
  /\ \A t, u \in PromptTurns : t = u

\* The kind of verdict that InspectTurnRecords must give.
Expected(known, i) ==
  LET t == i.turnId
      ends == LastOf(t, TerminalKinds, FALSE)
      says == LastOf(t, {"agent_message"}, TRUE) IN
  IF ~Acceptable(known) THEN i.error # "none"
  ELSE /\ i.error = "none"
       /\ {t} = IF known # NoTurn THEN {known}
                ELSE IF PromptTurns = {} THEN {NoTurn} ELSE PromptTurns
       /\ t # NoTurn =>
            /\ i.turnObserved <=> \E j \in NewIndices : file[j].turn = t
            /\ i.promptCorrelated <=> t \in PromptTurns
            /\ i.outcome = IF ends = {} THEN "none" ELSE TerminalFromEvent(file[Max(ends)].kind)
            /\ i.finalResponse =
                 IF ends # {} /\ file[Max(ends)].kind = "task_complete"
                    /\ file[Max(ends)].text # NoText
                 THEN file[Max(ends)].text
                 ELSE IF says = {} THEN NoText ELSE file[Max(says)].text

----------------------------------------------------------------------------
(* Properties                                                              *)

Phases == {"boundary", "request", "watch", "onTurnId", "returned", "threw", "timedOut"}
Outcomes == {"completed", "failed", "cancelled"}

TypeOK ==
  /\ file \in Seq(Records) /\ Len(file) <= MaxRecords
  /\ open \in TurnIds \union {NoTurn}
  /\ phase \in Phases
  /\ boundary.recordCount \in 0..Len(file) /\ boundary.turnIds \subseteq TurnIds
  /\ {knownTurnId, emittedTurnId, inspection.turnId} \subseteq TurnIds \union {NoTurn}
  /\ outcome \in Outcomes \union {"none"}

\* inspectTurnRecords is a single pass with running state; whatever the file
\* holds, it finds what the positions of the records after the boundary say.
InspectionMatchesReference ==
  phase # "boundary" =>
    \A known \in {NoTurn, Real} :
      Expected(known, InspectTurnRecords(file, boundary, known))

\* The watcher reports the turn Aiflow asked for, with an outcome and with
\* words that this turn wrote after the boundary.  Only when the start-turn
\* response named no turn can a turn of the user be taken for it, and then only
\* one that was given the exact prompt.  The worker hears of the turn before it
\* gets the result, so that a queued cancel is tried first.
ReportsExactTurn ==
  phase = "returned" =>
    /\ emittedTurnId = inspection.turnId
    /\ \/ inspection.turnId = Real
       \/ knownTurnId = NoTurn /\ inspection.turnId \in SamePrompt
    /\ knownTurnId # NoTurn => inspection.turnId \notin boundary.turnIds
    /\ \E i \in NewIndices : /\ file[i].turn = inspection.turnId
                             /\ file[i].kind \in TerminalKinds
                             /\ TerminalFromEvent(file[i].kind) = outcome
    /\ inspection.finalResponse \in {NoText, inspection.turnId}
    /\ inspection.recordedModel \in {NoText, inspection.turnId}

\* The worker never hears of two turns: an interrupt cannot go to one turn and
\* the result come from another, although the file grows between polls.
OneTurnAnnounced == [][emittedTurnId # NoTurn => emittedTurnId' = emittedTurnId]_vars
=============================================================================
