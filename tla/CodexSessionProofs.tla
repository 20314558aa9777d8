------------------------- MODULE CodexSessionProofs -------------------------
(***************************************************************************)
(* Theorems about how the worker finds the conversation that Codex opened  *)
(* (BootstrapSession as CodexSession uses it), for any number of session   *)
(* files, of records and of sessions that are not as Codex leaves them,    *)
(* and about the turn that the watcher then reports (ExactTurnWatcher),    *)
(* for a file of any length and any number of turns in it.                 *)
(***************************************************************************)
EXTENDS CodexSession, RecursionLemmas, SequenceTheorems, FiniteSetTheorems

SessionFiles == Old \union New

\* The candidates of a poll are sessions that the snapshot does not know, and
\* the matches among them hold the nonce.  Neither is so by a single step: the
\* walk, the readings and the second reading of the match each see the sessions
\* at another moment.
Candidates ==
  /\ unread \union matches \subseteq present \ snapshot.identities
  /\ stage = "snapshot" => unread = {} /\ matches = {}
  /\ stage = "validate" => \E f : matches = {f}
  /\ \A f \in matches : sessions[f].nonce

DiscoveryInvariant ==
  /\ sessions \in [SessionFiles -> Discovery!Evidence]
  /\ present \subseteq SessionFiles
  /\ Candidates
  /\ BootstrapCorrelated /\ NoFalseAlarm

----------------------------------------------------------------------------
(* Evidence                                                                *)

\* Evidence that is refused is odd, and accepted evidence is correlated.
LEMMA RefusedIsOdd ==
  ASSUME NEW e \in Discovery!Evidence,
         Discovery!Invalid(e) \/ (Discovery!Correlated(e) /\ e.cwd # "workspace")
  PROVE  Discovery!OddEvidence(e)
  BY DEF Discovery!Invalid, Discovery!Correlated, Discovery!TurnKnown, Discovery!OddEvidence,
         Discovery!Evidence

LEMMA AcceptedIsCorrelated ==
  ASSUME NEW e \in Discovery!Evidence,
         ~Discovery!Invalid(e), Discovery!Correlated(e), e.cwd = "workspace"
  PROVE  /\ e.markers = 1 /\ e.hasTurn /\ e.terminals = 0
         /\ e.metas = 1 /\ e.id = "own" /\ e.contexts = 1
  BY DEF Discovery!Invalid, Discovery!Correlated, Discovery!TurnKnown, Discovery!Evidence

\* A record that is appended takes no nonce away.
LEMMA AppendedRecord ==
  ASSUME NEW f, Discovery!RecordAppended(f), sessions \in [SessionFiles -> Discovery!Evidence],
         present \subseteq SessionFiles
  PROVE  /\ sessions' \in [SessionFiles -> Discovery!Evidence]
         /\ \A g \in SessionFiles : sessions[g].nonce => sessions'[g].nonce
         /\ stage \notin {"snapshot", "found", "threw", "timedOut"}
         /\ UNCHANGED <<present, moved, stage, settled, snapshot, unread, matches, result>>
  <1>1. /\ f \in SessionFiles
        /\ stage \notin {"snapshot", "found", "threw", "timedOut"}
        /\ UNCHANGED <<present, moved, stage, settled, snapshot, unread, matches, result>>
    BY DEF Discovery!RecordAppended, Discovery!Looking, Discovery!Stages, Discovery!seekVars
  <1>2. PICK next \in Discovery!Evidence :
          /\ sessions[f].nonce => next.nonce
          /\ sessions' = [sessions EXCEPT ![f] = next]
    <2> DEFINE e == sessions[f]
               meta(id) == [e EXCEPT !.metas = @ + 1, !.id = id]
               context(cwd) == [e EXCEPT !.contexts = @ + 1, !.cwd = cwd]
               marker(turn) == [e EXCEPT !.nonce = TRUE, !.markers = @ + 1, !.hasTurn = turn]
               variants == {meta(id) : id \in {"own", "none", "conflicting"}}
                           \union {context(cwd) : cwd \in {"workspace", "elsewhere", "none"}}
                           \union {marker(turn) : turn \in BOOLEAN}
                           \union {[e EXCEPT !.nonce = TRUE], [e EXCEPT !.terminals = 1],
                                   [e EXCEPT !.readable = FALSE]}
    <2>1. e \in Discovery!Evidence
      BY <1>1
    <2>2. PICK next \in Discovery!Evidence \intersect variants :
            sessions' = [sessions EXCEPT ![f] = next]
      BY DEF Discovery!RecordAppended
    <2>3. ASSUME NEW v \in variants, e.nonce PROVE v.nonce
      <3>1. CASE v \in {meta(id) : id \in {"own", "none", "conflicting"}}
        <4>1. PICK id : v = meta(id)
          BY <3>1
        <4> QED
          BY <2>1, <2>3, <4>1 DEF Discovery!Evidence
      <3>2. CASE v \in {context(cwd) : cwd \in {"workspace", "elsewhere", "none"}}
        <4>1. PICK cwd : v = context(cwd)
          BY <3>2
        <4> QED
          BY <2>1, <2>3, <4>1 DEF Discovery!Evidence
      <3>3. CASE v \in {marker(turn) : turn \in BOOLEAN}
        <4>1. PICK turn : v = marker(turn)
          BY <3>3
        <4> QED
          BY <2>1, <4>1 DEF Discovery!Evidence
      <3>4. CASE v \in {[e EXCEPT !.nonce = TRUE], [e EXCEPT !.terminals = 1],
                        [e EXCEPT !.readable = FALSE]}
        BY <2>1, <2>3, <3>4 DEF Discovery!Evidence
      <3> QED
        BY <2>3, <3>1, <3>2, <3>3, <3>4
    <2> QED
      BY <2>2, <2>3
  <1> QED
    BY <1>1, <1>2

----------------------------------------------------------------------------
(* The steps                                                               *)

LEMMA DiscoveryBegins == SessionInit => DiscoveryInvariant
  <1> SUFFICES ASSUME SessionInit PROVE DiscoveryInvariant
    OBVIOUS
  <1>1. Discovery!Init
    BY DEF SessionInit
  <1>2. sessions \in [SessionFiles -> Discovery!Evidence]
    <2>1. Discovery!Blank \in Discovery!Evidence
      BY DEF Discovery!Blank, Discovery!Evidence
    <2>2. PICK blank \in Discovery!Evidence : blank = Discovery!Blank
      BY <2>1
    <2>3. PICK old \in Discovery!Evidence : old = [blank EXCEPT !.metas = 1, !.id = "own"]
      <3>1. PICK withMeta \in Discovery!Evidence : withMeta = [blank EXCEPT !.metas = 1]
        <4>1. [blank EXCEPT !.metas = 1] \in Discovery!Evidence
          BY DEF Discovery!Evidence
        <4> QED
          BY <4>1
      <3>2. [withMeta EXCEPT !.id = "own"] \in Discovery!Evidence
        BY DEF Discovery!Evidence
      <3> QED
        BY <3>1, <3>2
    <2>4. sessions = [f \in SessionFiles |-> IF f \in Old THEN old ELSE blank]
      BY <1>1, <2>2, <2>3 DEF Discovery!Init, Discovery!Files, SessionFiles
    <2> QED
      BY <2>4
  <1>3. present \subseteq SessionFiles /\ Candidates
    BY <1>1 DEF Discovery!Init, SessionFiles, Candidates
  <1>4. BootstrapCorrelated /\ NoFalseAlarm
    BY <1>1 DEF Discovery!Init, BootstrapCorrelated, NoFalseAlarm, Discovery!BootstrapCorrelated,
                Discovery!NoFalseAlarm
  <1> QED
    BY <1>2, <1>3, <1>4 DEF DiscoveryInvariant

\* The cardinality of the instance is the one the library speaks of.
LEMMA SameCardinality ==
  ASSUME NEW S
  PROVE  Discovery!Cardinality(S) = Cardinality(S)
  BY DEF Discovery!Cardinality, Cardinality

\* Two sessions with the nonce, whatever else there is.
LEMMA SeveralWithNonce ==
  ASSUME DiscoveryInvariant, Cardinality(matches) > 1
  PROVE  Discovery!Irregular
  <1> DEFINE withNonce == {f \in present : sessions[f].nonce}
  <1>1. IsFiniteSet(withNonce)
    BY SessionAssumption, FS_Subset DEF DiscoveryInvariant, SessionFiles
  <1>2. matches \subseteq withNonce
    BY DEF DiscoveryInvariant, Candidates
  <1>3. Cardinality(matches) <= Cardinality(withNonce)
    BY <1>1, <1>2, FS_Subset
  <1>4. Cardinality(matches) \in Nat /\ Cardinality(withNonce) \in Nat
    BY <1>1, <1>2, FS_Subset, FS_CardinalityType
  <1>5. Cardinality(withNonce) > 1
    BY <1>3, <1>4
  <1> QED
    BY <1>5, SameCardinality DEF Discovery!Irregular

\* A file that cannot be read, or whose evidence is refused.
LEMMA UnreadableIsIrregular ==
  ASSUME NEW f \in present, sessions[f] \in Discovery!Evidence, Discovery!CannotRead(f)
  PROVE  Discovery!Irregular
  BY DEF Discovery!Irregular, Discovery!CannotRead, Discovery!Astray, Discovery!OddEvidence

LEMMA RefusedIsIrregular ==
  ASSUME NEW f \in present, sessions[f] \in Discovery!Evidence, sessions[f].nonce,
         \/ Discovery!CannotRead(f)
         \/ Discovery!Invalid(sessions[f])
         \/ Discovery!Correlated(sessions[f]) /\ sessions[f].cwd # "workspace"
  PROVE  Discovery!Irregular
  <1>1. CASE Discovery!CannotRead(f)
    BY <1>1, UnreadableIsIrregular
  <1>2. CASE ~Discovery!CannotRead(f)
    <2>1. PICK e \in Discovery!Evidence : e = sessions[f]
      OBVIOUS
    <2>2. Discovery!OddEvidence(e)
      BY <1>2, <2>1, RefusedIsOdd
    <2> QED
      BY <2>1, <2>2 DEF Discovery!Irregular
  <1> QED
    BY <1>1, <1>2

\* How a poll ends.
LEMMA MatchedEnds ==
  ASSUME matches \subseteq SessionFiles, Discovery!Matched
  PROVE  \/ Cardinality(matches) > 1 /\ stage' = "threw"
         \/ (\E f : matches = {f}) /\ stage' = "validate"
         \/ stage' = "pause"
  <1>1. stage' = CASE Cardinality(matches) > 1 -> "threw"
                   [] Cardinality(matches) = 1 -> "validate"
                   [] matches = {}             -> "pause"
    BY SameCardinality DEF Discovery!Matched
  <1>2. IsFiniteSet(matches)
    BY SessionAssumption, FS_Subset DEF SessionFiles
  <1>3. PICK n \in Nat : n = Cardinality(matches) /\ (n = 0 <=> matches = {})
    BY <1>2, FS_CardinalityType, FS_EmptySet
  <1>4. CASE n = 0
    BY <1>1, <1>3, <1>4
  <1>5. CASE n = 1
    <2>1. \E f : matches = {f}
      BY <1>2, <1>3, <1>5, FS_Singleton
    <2> QED
      BY <1>1, <1>3, <1>5, <2>1
  <1>6. CASE n > 1
    BY <1>1, <1>3, <1>6
  <1> QED
    BY <1>3, <1>4, <1>5, <1>6

LEMMA DiscoveryGoesOn == DiscoveryInvariant /\ DiscoveryStep => DiscoveryInvariant'
  <1> SUFFICES ASSUME DiscoveryInvariant, DiscoveryStep PROVE DiscoveryInvariant'
    OBVIOUS
  <1> USE DEF BootstrapCorrelated, NoFalseAlarm
  <1>1. /\ sessions \in [SessionFiles -> Discovery!Evidence]
        /\ present \subseteq SessionFiles /\ Candidates
        /\ Discovery!BootstrapCorrelated /\ Discovery!NoFalseAlarm
    BY DEF DiscoveryInvariant
  <1>2. Discovery!Next
    BY DEF DiscoveryStep
  \* A step of Codex or of the user, which adds to what there is.
  <1>3. ASSUME sessions' \in [SessionFiles -> Discovery!Evidence],
               \A g \in SessionFiles : sessions[g].nonce => sessions'[g].nonce,
               present \subseteq present', present' \subseteq SessionFiles,
               stage \notin {"found", "threw"},
               UNCHANGED <<stage, snapshot, unread, matches>>
        PROVE  DiscoveryInvariant'
    <2>1. Candidates'
      BY <1>1, <1>3 DEF Candidates
    <2>2. Discovery!BootstrapCorrelated' /\ Discovery!NoFalseAlarm'
      BY <1>3 DEF Discovery!BootstrapCorrelated, Discovery!NoFalseAlarm
    <2> QED
      BY <1>3, <2>1, <2>2 DEF DiscoveryInvariant
  <1>4. ASSUME NEW f \in Discovery!Files, Discovery!SessionCreated(f)
        PROVE  DiscoveryInvariant'
    <2>1. /\ stage \notin {"found", "threw"}
          /\ present' = present \union {f} /\ f \in SessionFiles
          /\ UNCHANGED <<sessions, stage, snapshot, unread, matches>>
      BY <1>4 DEF Discovery!SessionCreated, Discovery!Looking, Discovery!Stages,
                  Discovery!seekVars, Discovery!Files, SessionFiles
    <2> QED
      BY <1>1, <1>3, <2>1
  <1>5. ASSUME NEW f \in Discovery!Files, Discovery!SessionMoves(f)
        PROVE  DiscoveryInvariant'
    <2>1. /\ stage \notin {"found", "threw"}
          /\ UNCHANGED <<sessions, present, stage, snapshot, unread, matches>>
      BY <1>5 DEF Discovery!SessionMoves, Discovery!Looking, Discovery!Stages, Discovery!seekVars
    <2> QED
      BY <1>1, <1>3, <2>1
  <1>6. ASSUME NEW f \in Discovery!Files, Discovery!RecordAppended(f)
        PROVE  DiscoveryInvariant'
    BY <1>1, <1>3, <1>6, AppendedRecord
  \* A step of discovery that does not end it.
  <1>7. ASSUME UNCHANGED Discovery!codexVars, Candidates', stage' \notin {"found", "threw"}
        PROVE  DiscoveryInvariant'
    BY <1>1, <1>7 DEF DiscoveryInvariant, Discovery!codexVars, Discovery!BootstrapCorrelated,
                      Discovery!NoFalseAlarm
  \* One that ends it with an error.
  <1>8. ASSUME UNCHANGED Discovery!codexVars, Candidates', stage' = "threw",
               Discovery!Irregular
        PROVE  DiscoveryInvariant'
    <2>1. Discovery!Irregular'
      BY <1>8 DEF Discovery!Irregular, Discovery!OddEvidence, Discovery!codexVars
    <2> QED
      BY <1>1, <1>8, <2>1 DEF DiscoveryInvariant, Discovery!codexVars,
                              Discovery!BootstrapCorrelated, Discovery!NoFalseAlarm
  <1>9. CASE Discovery!TakeSnapshot
    <2>1. Candidates'
      BY <1>1, <1>9 DEF Discovery!TakeSnapshot, Candidates, Discovery!codexVars
    <2> QED
      BY <1>7, <1>9, <2>1 DEF Discovery!TakeSnapshot
  <1>10. CASE Discovery!WalkFails
    <2>1. Candidates'
      BY <1>1, <1>10 DEF Discovery!WalkFails, Candidates, Discovery!codexVars, Discovery!workVars
    <2>2. Discovery!Irregular
      BY <1>10 DEF Discovery!WalkFails, Discovery!Astray, Discovery!Irregular
    <2> QED
      BY <1>8, <1>10, <2>1, <2>2 DEF Discovery!WalkFails
  <1>11. CASE Discovery!PollStarts
    <2>1. Candidates'
      BY <1>1, <1>11 DEF Discovery!PollStarts, Candidates, Discovery!codexVars, Discovery!workVars
    <2> QED
      BY <1>7, <1>11, <2>1 DEF Discovery!PollStarts
  <1>12. CASE Discovery!List
    <2>1. Candidates'
      BY <1>1, <1>12 DEF Discovery!List, Candidates, Discovery!codexVars, Discovery!IsNew
    <2> QED
      BY <1>7, <1>12, <2>1 DEF Discovery!List
  <1>13. ASSUME NEW f \in Discovery!Files, Discovery!Read(f)
         PROVE  DiscoveryInvariant'
    <2>1. /\ stage = "read" /\ f \in unread /\ unread' = unread \ {f}
          /\ UNCHANGED Discovery!codexVars /\ UNCHANGED snapshot
      BY <1>13 DEF Discovery!Read
    <2>2. CASE Discovery!CannotRead(f) /\ stage' = "threw" /\ UNCHANGED matches
      <3>1. Candidates'
        BY <1>1, <2>1, <2>2 DEF Candidates, Discovery!codexVars
      <3>2. f \in present /\ sessions[f] \in Discovery!Evidence
        BY <1>1, <2>1 DEF Candidates
      <3>3. Discovery!Irregular
        BY <2>2, <3>2 DEF Discovery!Irregular, Discovery!CannotRead, Discovery!Astray,
                          Discovery!OddEvidence
      <3> QED
        BY <1>8, <2>1, <2>2, <3>1, <3>3
    <2>3. CASE /\ matches' = matches \union {g \in {f} : sessions[g].nonce}
               /\ UNCHANGED stage
      <3>1. Candidates'
        BY <1>1, <2>1, <2>3 DEF Candidates, Discovery!codexVars
      <3> QED
        BY <1>7, <2>1, <2>3, <3>1
    <2> QED
      BY <1>13, <2>2, <2>3 DEF Discovery!Read
  <1>14. CASE Discovery!Matched
    <2>1. UNCHANGED Discovery!codexVars /\ UNCHANGED <<snapshot, unread, matches>>
          /\ stage = "read"
      BY <1>14 DEF Discovery!Matched, Discovery!workVars
    <2>3. \/ Cardinality(matches) > 1 /\ stage' = "threw"
          \/ (\E f : matches = {f}) /\ stage' = "validate"
          \/ stage' = "pause"
      BY <1>1, <1>14, MatchedEnds DEF Candidates
    <2>4. Candidates'
      BY <1>1, <2>1, <2>3 DEF Candidates, Discovery!codexVars
    <2>5. CASE Cardinality(matches) > 1 /\ stage' = "threw"
      BY <1>8, <2>1, <2>4, <2>5, SeveralWithNonce
    <2>6. CASE stage' \in {"validate", "pause"}
      BY <1>7, <2>1, <2>4, <2>6
    <2> QED
      BY <2>3, <2>5, <2>6
  <1>15. CASE Discovery!DeadlinePasses
    <2>1. Candidates'
      BY <1>1, <1>15 DEF Discovery!DeadlinePasses, Candidates, Discovery!codexVars,
                         Discovery!workVars
    <2> QED
      BY <1>7, <1>15, <2>1 DEF Discovery!DeadlinePasses
  <1>16. ASSUME NEW f \in Discovery!Files, Discovery!Validate(f)
         PROVE  DiscoveryInvariant'
    <2> DEFINE refused == \/ Discovery!CannotRead(f) \/ Discovery!Invalid(sessions[f])
                          \/ Discovery!Correlated(sessions[f]) /\ sessions[f].cwd # "workspace"
    <2>1. /\ stage = "validate" /\ f \in matches
          /\ stage' = IF refused THEN "threw"
                      ELSE IF Discovery!Correlated(sessions[f]) THEN "found" ELSE "pause"
          /\ stage' = "found" => result' = [file |-> {f}, evidence |-> sessions[f]]
          /\ UNCHANGED Discovery!codexVars /\ UNCHANGED <<snapshot, unread, matches>>
      BY <1>16 DEF Discovery!Validate
    <2>2. Candidates'
      BY <1>1, <2>1 DEF Candidates, Discovery!codexVars
    <2>3. /\ f \in present \ snapshot.identities /\ sessions[f].nonce
          /\ sessions[f] \in Discovery!Evidence /\ matches = {f}
      BY <1>1, <2>1 DEF Candidates
    <2>4. CASE refused
      <3>1. Discovery!Irregular
        BY <2>3, <2>4, RefusedIsIrregular
      <3> QED
        BY <1>8, <2>1, <2>2, <2>4, <3>1
    <2>5. CASE ~refused /\ Discovery!Correlated(sessions[f])
      <3>1. PICK e \in Discovery!Evidence : e = sessions[f]
        BY <2>3
      <3>2. /\ e.markers = 1 /\ e.hasTurn /\ e.terminals = 0
            /\ e.metas = 1 /\ e.id = "own" /\ e.contexts = 1 /\ e.cwd = "workspace"
        BY <2>5, <3>1, AcceptedIsCorrelated
      <3>3. stage' = "found" /\ result' = [file |-> {f}, evidence |-> e]
        BY <2>1, <2>5, <3>1
      <3>4. UNCHANGED <<sessions, present, snapshot, matches>>
        BY <2>1 DEF Discovery!codexVars
      <3>5. Discovery!BootstrapCorrelated'
        BY <2>3, <3>1, <3>2, <3>3, <3>4 DEF Discovery!BootstrapCorrelated
      <3> QED
        BY <1>1, <2>2, <3>3, <3>4, <3>5 DEF DiscoveryInvariant, Discovery!NoFalseAlarm
    <2>6. CASE ~refused /\ ~Discovery!Correlated(sessions[f])
      BY <1>7, <2>1, <2>2, <2>6
    <2> QED
      BY <2>4, <2>5, <2>6
  <1> QED
    BY <1>2, <1>4, <1>5, <1>6, <1>9, <1>10, <1>11, <1>12, <1>13, <1>14, <1>15, <1>16
       DEF Discovery!Next

\* The worker takes over: what discovery has learnt is forgotten.
LEMMA DiscoveryEnds == DiscoveryInvariant /\ Handover => DiscoveryInvariant'
  <1> SUFFICES ASSUME DiscoveryInvariant, Handover PROVE DiscoveryInvariant'
    OBVIOUS
  <1>1. Discovery!Blank \in Discovery!Evidence
    BY DEF Discovery!Blank, Discovery!Evidence
  <1>2. sessions' \in [SessionFiles -> Discovery!Evidence] /\ present' \subseteq SessionFiles
    BY <1>1 DEF Handover, SessionFiles
  <1>3. Candidates'
    BY DEF Handover, Candidates
  <1>4. BootstrapCorrelated' /\ NoFalseAlarm'
    BY DEF Handover, BootstrapCorrelated, NoFalseAlarm, Discovery!BootstrapCorrelated,
           Discovery!NoFalseAlarm
  <1> QED
    BY <1>2, <1>3, <1>4 DEF DiscoveryInvariant

LEMMA DiscoveryUntouched ==
  DiscoveryInvariant /\ UNCHANGED discoveryVars => DiscoveryInvariant'
  <1> SUFFICES ASSUME DiscoveryInvariant, UNCHANGED discoveryVars PROVE DiscoveryInvariant'
    OBVIOUS
  <1>1. Candidates'
    BY DEF DiscoveryInvariant, Candidates, discoveryVars
  <1>2. Discovery!BootstrapCorrelated' /\ Discovery!NoFalseAlarm'
    BY DEF DiscoveryInvariant, BootstrapCorrelated, NoFalseAlarm, Discovery!BootstrapCorrelated,
           Discovery!NoFalseAlarm, Discovery!Irregular, discoveryVars
  <1> QED
    BY <1>1, <1>2 DEF DiscoveryInvariant, discoveryVars, BootstrapCorrelated, NoFalseAlarm

----------------------------------------------------------------------------
(* Theorems                                                                *)

\* The invariant holds while the conversation is looked for and afterwards.
THEOREM DiscoveryInvariantHolds == SessionSpec => []DiscoveryInvariant
  <1>1. DiscoveryInvariant /\ [SessionNext]_<<vars, discoveryVars>> => DiscoveryInvariant'
    BY DiscoveryGoesOn, DiscoveryEnds, DiscoveryUntouched DEF SessionNext, WatcherStep
  <1> QED
    BY <1>1, DiscoveryBegins, PTL DEF SessionSpec

\* The conversation that Aiflow goes on in is a new one with its nonce, complete
\* and of the open workspace, although its file is read twice and every file may
\* change or move between two readings.
THEOREM ConversationIsTheOneMade == SessionSpec => []BootstrapCorrelated
  <1>1. DiscoveryInvariant => BootstrapCorrelated
    BY DEF DiscoveryInvariant
  <1> QED
    BY <1>1, DiscoveryInvariantHolds, PTL

\* Looking for it fails only over something irregular, never over a session that
\* is still being written.
THEOREM FailsOnlyOverIrregular == SessionSpec => []NoFalseAlarm
  <1>1. DiscoveryInvariant => NoFalseAlarm
    BY DEF DiscoveryInvariant
  <1> QED
    BY <1>1, DiscoveryInvariantHolds, PTL

----------------------------------------------------------------------------
(* The scan of the new records                                             *)

Texts0 == Texts \union {NoText}
Turns0 == TurnIds \union {NoTurn}
Terminals0 == [outcome : Outcomes \union {"none"}, finalResponse : Texts0]

\* What the scan may hold between two records.
ScanStates ==
  [activeTurnId : Turns0, promptTurnIds : SUBSET TurnIds, unscopedExactPrompt : BOOLEAN,
   observedTurnIds : SUBSET TurnIds, terminals : [TurnIds -> Terminals0],
   agentMessages : [TurnIds -> Texts0], contexts : [TurnIds -> Texts0]]

IsExactPrompt(record) == record.kind = "user_message" /\ record.text = ExactPrompt
OpensTurn(record) == record.kind \in ScopingKinds /\ record.turn # NoTurn
Says(record) == record.kind = "agent_message" /\ record.text # NoText
TerminalOf(record) ==
  [outcome |-> TerminalFromEvent(record.kind),
   finalResponse |-> IF record.kind = "task_complete" THEN record.text ELSE NoText]

\* The turn that a record is charged to, after the turn it opens.
ActiveAfter(s, record) == IF OpensTurn(record) THEN record.turn ELSE s.activeTurnId
TurnCharged(s, record) == IF record.turn # NoTurn THEN record.turn ELSE ActiveAfter(s, record)

LEMMA TerminalTyped ==
  ASSUME NEW r \in Records, r.kind \in TerminalKinds
  PROVE  TerminalOf(r) \in Terminals0 /\ TerminalFromEvent(r.kind) \in Outcomes
  <1>1. TerminalFromEvent(r.kind) \in Outcomes
    BY DEF TerminalKinds, TerminalFromEvent, Outcomes
  <1>2. (IF r.kind = "task_complete" THEN r.text ELSE NoText) \in Texts0
    BY DEF Records, Texts0
  <1> QED
    BY <1>1, <1>2 DEF TerminalOf, Terminals0

\* One record, field by field.
Follows(next, s, r) ==
  /\ next \in ScanStates
  /\ next.activeTurnId = ActiveAfter(s, r)
  /\ \A t \in TurnIds :
       /\ t \in next.promptTurnIds <=>
            t \in s.promptTurnIds \/ (IsExactPrompt(r) /\ TurnCharged(s, r) = t)
       /\ t \in next.observedTurnIds <=> t \in s.observedTurnIds \/ r.turn = t
       /\ next.terminals[t] = IF r.kind \in TerminalKinds /\ r.turn = t
                              THEN TerminalOf(r) ELSE s.terminals[t]
       /\ next.agentMessages[t] = IF Says(r) /\ TurnCharged(s, r) = t
                                  THEN r.text ELSE s.agentMessages[t]
       /\ next.contexts[t] = IF r.kind = "turn_context" /\ r.turn = t
                             THEN r.text ELSE s.contexts[t]
  /\ next.unscopedExactPrompt <=>
       s.unscopedExactPrompt \/ (IsExactPrompt(r) /\ TurnCharged(s, r) = NoTurn)

LEMMA ScanRecordFollows ==
  ASSUME NEW s \in ScanStates, NEW r \in Records
  PROVE  Follows(ScanRecord(s, r), s, r)
  <1> DEFINE next == ScanRecord(s, r)
             charged == TurnCharged(s, r)
             active == ActiveAfter(s, r)
             prompts == s.promptTurnIds \union {t \in {charged} : IsExactPrompt(r) /\ t # NoTurn}
             unscoped == s.unscopedExactPrompt \/ (IsExactPrompt(r) /\ charged = NoTurn)
             observed == s.observedTurnIds \union ({r.turn} \ {NoTurn})
             terminals == [t \in TurnIds |->
                             IF r.kind \in TerminalKinds /\ t = r.turn
                             THEN TerminalOf(r) ELSE s.terminals[t]]
             messages == [t \in TurnIds |->
                            IF Says(r) /\ t = charged THEN r.text ELSE s.agentMessages[t]]
             contexts == [t \in TurnIds |-> IF r.kind = "turn_context" /\ t = r.turn
                                            THEN r.text ELSE s.contexts[t]]
  <1>1. NoTurn \notin TurnIds
    BY RecordAssumption
  <1>2. r.turn \in Turns0 /\ r.text \in Texts0
    BY DEF Records, Turns0, Texts0
  <1>3. active \in Turns0 /\ charged \in Turns0
    BY <1>2 DEF ActiveAfter, TurnCharged, ScanStates
  <1>4. next = [activeTurnId |-> active, promptTurnIds |-> prompts,
                unscopedExactPrompt |-> unscoped, observedTurnIds |-> observed,
                terminals |-> terminals, agentMessages |-> messages, contexts |-> contexts]
    <2>1. messages = [t \in TurnIds |->
                        IF r.kind = "agent_message" /\ r.text # NoText /\ t = charged
                        THEN r.text ELSE s.agentMessages[t]]
      BY DEF Says
    <2> HIDE DEF messages
    <2> QED
      BY <2>1, Zenon DEF ScanRecord, ScanWith, ActiveAfter, TurnCharged, OpensTurn, IsExactPrompt,
                         TerminalOf
  <1>5. /\ prompts \subseteq TurnIds /\ observed \subseteq TurnIds
        /\ unscoped \in BOOLEAN
    BY <1>2, <1>3 DEF ScanStates, Turns0
  <1>6. terminals \in [TurnIds -> Terminals0]
    BY TerminalTyped DEF ScanStates
  <1>7. messages \in [TurnIds -> Texts0] /\ contexts \in [TurnIds -> Texts0]
    BY <1>2 DEF ScanStates
  <1>8. next \in ScanStates
    <2> HIDE DEF active, prompts, unscoped, observed, terminals, messages, contexts, next
    <2> QED
      BY <1>3, <1>4, <1>5, <1>6, <1>7 DEF ScanStates
  <1>9. ASSUME NEW t \in TurnIds
        PROVE  /\ t \in next.promptTurnIds <=>
                    t \in s.promptTurnIds \/ (IsExactPrompt(r) /\ charged = t)
               /\ t \in next.observedTurnIds <=> t \in s.observedTurnIds \/ r.turn = t
               /\ next.terminals[t] = IF r.kind \in TerminalKinds /\ r.turn = t
                                      THEN TerminalOf(r) ELSE s.terminals[t]
               /\ next.agentMessages[t] = IF Says(r) /\ charged = t
                                          THEN r.text ELSE s.agentMessages[t]
               /\ next.contexts[t] = IF r.kind = "turn_context" /\ r.turn = t
                                     THEN r.text ELSE s.contexts[t]
    <2>1. /\ next.promptTurnIds = prompts /\ next.observedTurnIds = observed
          /\ next.terminals = terminals /\ next.agentMessages = messages
          /\ next.contexts = contexts
      <3> HIDE DEF active, prompts, unscoped, observed, terminals, messages, contexts, next
      <3> QED
        BY <1>4
    <2> HIDE DEF next, charged
    <2> QED
      BY <1>1, <2>1
  <1>10. next.activeTurnId = active /\ next.unscopedExactPrompt = unscoped
    <2> HIDE DEF active, prompts, unscoped, observed, terminals, messages, contexts, next
    <2> QED
      BY <1>4
  <1> QED
    BY <1>8, <1>9, <1>10 DEF Follows

\* The scan passes through states, one for each record.
ScanRuns(recs) ==
  {f \in [0..Len(recs) -> ScanStates] :
     f[0] = ScanStart /\ \A n \in 1..Len(recs) : f[n] = ScanRecord(f[n - 1], recs[n])}

LEMMA ScanStartTyped == ScanStart \in ScanStates
  <1>1. NoTerminal \in Terminals0
    BY DEF NoTerminal, Terminals0, Texts0
  <1>2. /\ [t \in TurnIds |-> NoTerminal] \in [TurnIds -> Terminals0]
        /\ [t \in TurnIds |-> NoText] \in [TurnIds -> Texts0]
    BY <1>1 DEF Texts0
  <1> QED
    BY <1>2 DEF ScanStart, ScanStates, Turns0

LEMMA ScanIsRun ==
  ASSUME NEW recs \in Seq(Records)
  PROVE  \E f \in ScanRuns(recs) : Scan(recs) = f[Len(recs)]
  <1> DEFINE scan[n \in 0..Len(recs)] ==
               IF n = 0 THEN ScanStart ELSE ScanRecord(scan[n - 1], recs[n])
  <1>1. PICK n \in Nat : n = Len(recs)
    OBVIOUS
  <1>2. PICK step : step = [i \in 1..n |-> [s \in ScanStates |-> ScanRecord(s, recs[i])]]
    OBVIOUS
  <1>3. step \in [1..n -> [ScanStates -> ScanStates]]
    <2>1. ASSUME NEW i \in 1..n, NEW s \in ScanStates
          PROVE  ScanRecord(s, recs[i]) \in ScanStates
      <3>1. recs[i] \in Records
        BY <1>1
      <3> QED
        BY <3>1, ScanRecordFollows DEF Follows
    <2> QED
      BY <1>2, <2>1
  <1>4. PICK f \in [0..n -> ScanStates] : f[0] = ScanStart /\ \A i \in 1..n : f[i] = step[i][f[i - 1]]
    <2>1. Recursions(n, ScanStates, ScanStart, step) # {}
      BY <1>3, ScanStartTyped, RecursionUpTo
    <2> QED
      BY <2>1 DEF Recursions
  <1>5. \A i \in 1..n : f[i] = ScanRecord(f[i - 1], recs[i])
    <2>1. ASSUME NEW i \in 1..n PROVE f[i] = ScanRecord(f[i - 1], recs[i])
      <3>1. f[i - 1] \in ScanStates
        BY <1>4
      <3> QED
        BY <1>2, <1>4, <3>1
    <2> QED
      BY <2>1
  <1>6. f = [i \in 0..n |-> IF i = 0 THEN ScanStart ELSE ScanRecord(f[i - 1], recs[i])]
    <2>1. \A i \in 0..n : f[i] = IF i = 0 THEN ScanStart ELSE ScanRecord(f[i - 1], recs[i])
      BY <1>4, <1>5
    <2> QED
      BY <1>4, <2>1
  <1>7. scan = [i \in 0..n |-> IF i = 0 THEN ScanStart ELSE ScanRecord(scan[i - 1], recs[i])]
    BY <1>1, <1>6, Zenon
  <1>8. Scan(recs) = scan[n]
    BY <1>1, Zenon DEF Scan
  <1> HIDE DEF scan
  <1> DEFINE S == {i \in 0..n : scan[i] = f[i]}
  <1>9. 0 \in S
    BY <1>4, <1>7
  <1>10. ASSUME NEW i \in 1..n, i - 1 \in S PROVE i \in S
    <2>1. i \in 0..n /\ i # 0 /\ scan[i - 1] = f[i - 1]
      BY <1>10
    <2>2. scan[i] = ScanRecord(scan[i - 1], recs[i])
      BY <1>7, <2>1
    <2> QED
      BY <1>5, <2>1, <2>2
  <1> HIDE DEF S
  <1>11. n \in S
    <2>1. 0..n \subseteq S
      BY <1>9, <1>10, InductionUpTo
    <2> QED
      BY <2>1
  <1>12. f \in ScanRuns(recs)
    BY <1>1, <1>4, <1>5 DEF ScanRuns
  <1> QED
    BY <1>1, <1>8, <1>11, <1>12 DEF S

----------------------------------------------------------------------------
(* What the scan has found when it has read up to a position of the file   *)

FileTyped == file \in Seq(Records) /\ boundary.recordCount \in 0..Len(file)

NewUpTo(p) == {i \in NewIndices : i <= p}

\* v is the value at the greatest position of S, or none if S is empty.
Newest(S, none, value, v) ==
  \/ S = {} /\ v = none
  \/ \E i \in S : (\A j \in S : j <= i) /\ v = value[i]

TurnAt == [i \in DOMAIN file |-> file[i].turn]
TextAt == [i \in DOMAIN file |-> file[i].text]
TerminalAt == [i \in DOMAIN file |-> TerminalOf(file[i])]

OpensTo(p) == {i \in NewUpTo(p) : OpensTurn(file[i])}
EndsTo(t, p) == {i \in NewUpTo(p) : file[i].kind \in TerminalKinds /\ file[i].turn = t}
SaysTo(t, p) == {i \in NewUpTo(p) : Says(file[i]) /\ ScopeOf(i) = t}
ContextsTo(t, p) == {i \in NewUpTo(p) : file[i].kind = "turn_context" /\ file[i].turn = t}
PromptsTo(t, p) == {i \in NewUpTo(p) : IsExactPrompt(file[i]) /\ ScopeOf(i) = t}
TurnsTo(t, p) == {i \in NewUpTo(p) : file[i].turn = t}

Found(s, p) ==
  /\ s \in ScanStates
  /\ Newest(OpensTo(p), NoTurn, TurnAt, s.activeTurnId)
  /\ \A t \in TurnIds :
       /\ t \in s.promptTurnIds <=> PromptsTo(t, p) # {}
       /\ t \in s.observedTurnIds <=> TurnsTo(t, p) # {}
       /\ Newest(EndsTo(t, p), NoTerminal, TerminalAt, s.terminals[t])
       /\ Newest(SaysTo(t, p), NoText, TextAt, s.agentMessages[t])
       /\ Newest(ContextsTo(t, p), NoText, TextAt, s.contexts[t])
  /\ s.unscopedExactPrompt <=> PromptsTo(NoTurn, p) # {}

LEMMA GreatestIsMax ==
  ASSUME NEW S \in SUBSET Nat, NEW i \in S, \A j \in S : j <= i
  PROVE  Max(S) = i
  <1>1. \A y \in S : i >= y
    OBVIOUS
  <1>2. Max(S) \in S /\ \A y \in S : Max(S) >= y
    BY <1>1, Zenon DEF Max
  <1>3. PICK m \in S : m = Max(S) /\ m >= i
    BY <1>2
  <1>4. m \in Nat /\ i \in Nat /\ m <= i
    BY <1>3
  <1>5. m = i
    BY <1>3, <1>4
  <1> QED
    BY <1>3, <1>5

\* A set of positions grows at its end.
LEMMA NewestGrows ==
  ASSUME NEW S \in SUBSET Nat, NEW p \in Nat, \A i \in S : i < p,
         NEW none, NEW value, NEW v, Newest(S, none, value, v)
  PROVE  Newest(S \union {p}, none, value, value[p])
  <1>1. p \in S \union {p} /\ \A i \in S \union {p} : i <= p
    OBVIOUS
  <1>2. \E i \in S \union {p} : (\A j \in S \union {p} : j <= i) /\ value[p] = value[i]
    BY <1>1
  <1> QED
    BY <1>2 DEF Newest

LEMMA UpToGrows ==
  ASSUME FileTyped, NEW p \in NewIndices
  PROVE  /\ p \in DOMAIN file /\ p \in Nat /\ file[p] \in Records /\ p - 1 \in Nat
         /\ NewUpTo(p) = NewUpTo(p - 1) \union {p}
         /\ \A i \in NewUpTo(p - 1) : i \in Nat /\ i < p
  <1>1. p \in 1..Len(file) /\ NewIndices \subseteq 1..Len(file)
    BY DEF FileTyped, NewIndices
  <1>2. file[p] \in Records /\ DOMAIN file = 1..Len(file)
    BY <1>1 DEF FileTyped
  <1>3. \A i \in NewIndices : i <= p <=> i <= p - 1 \/ i = p
    BY <1>1
  <1>4. NewUpTo(p) = NewUpTo(p - 1) \union {p}
    BY <1>3 DEF NewUpTo
  <1> QED
    BY <1>1, <1>2, <1>4 DEF NewUpTo

\* The turn that the scan charges a record to is the one of the reference.
LEMMA ChargedIsScope ==
  ASSUME FileTyped, NEW p \in NewIndices, NEW s \in ScanStates,
         Newest(OpensTo(p - 1), NoTurn, TurnAt, s.activeTurnId)
  PROVE  ScopeOf(p) = TurnCharged(s, file[p])
  <1>1. /\ p \in DOMAIN file /\ p \in Nat /\ file[p] \in Records /\ p - 1 \in Nat
        /\ NewUpTo(p) = NewUpTo(p - 1) \union {p}
        /\ \A i \in NewUpTo(p - 1) : i \in Nat /\ i < p
    BY UpToGrows
  <1>2. Scopes(p) \subseteq NewUpTo(p) /\ NewUpTo(p) \subseteq Nat
    BY <1>1 DEF Scopes, NewUpTo
  <1>3. CASE file[p].turn # NoTurn
    <2>1. p \in Scopes(p)
      BY <1>1, <1>3 DEF Scopes
    <2>2. \A j \in Scopes(p) : j <= p
      BY DEF Scopes
    <2>3. Max(Scopes(p)) = p
      BY <1>2, <2>1, <2>2, GreatestIsMax
    <2> QED
      BY <1>3, <2>1, <2>3 DEF ScopeOf, TurnCharged
  <1>4. CASE file[p].turn = NoTurn
    <2>1. Scopes(p) = OpensTo(p - 1)
      <3>1. \A j \in Scopes(p) : j # p
        BY <1>4 DEF Scopes
      <3>2. ASSUME NEW j \in Scopes(p) PROVE j \in OpensTo(p - 1)
        BY <1>1, <1>2, <3>1, <3>2 DEF Scopes, OpensTo, OpensTurn
      <3>3. ASSUME NEW j \in OpensTo(p - 1) PROVE j \in Scopes(p)
        BY <1>1, <3>3 DEF Scopes, OpensTo, OpensTurn, NewUpTo
      <3> QED
        BY <3>2, <3>3
    <2>2. TurnCharged(s, file[p]) = s.activeTurnId
      BY <1>4 DEF TurnCharged, ActiveAfter, OpensTurn
    <2>3. CASE OpensTo(p - 1) = {}
      BY <2>1, <2>2, <2>3 DEF ScopeOf, Newest
    <2>4. CASE OpensTo(p - 1) # {}
      <3>1. PICK i \in OpensTo(p - 1) : (\A j \in OpensTo(p - 1) : j <= i) /\ s.activeTurnId = TurnAt[i]
        BY <2>4 DEF Newest
      <3>2. Max(Scopes(p)) = i
        BY <1>2, <2>1, <3>1, GreatestIsMax
      <3>3. i \in DOMAIN file
        BY <3>1 DEF OpensTo, NewUpTo, NewIndices
      <3> QED
        BY <2>1, <2>2, <2>4, <3>1, <3>2, <3>3 DEF ScopeOf, TurnAt
    <2> QED
      BY <2>3, <2>4
  <1> QED
    BY <1>3, <1>4

\* One more record is read.
LEMMA FoundGrows ==
  ASSUME FileTyped, NEW p \in NewIndices, NEW s, Found(s, p - 1),
         NEW next, Follows(next, s, file[p])
  PROVE  Found(next, p)
  <1>1. PICK r \in Records : r = file[p]
    BY UpToGrows
  <1>2. /\ p \in DOMAIN file /\ p \in Nat /\ p - 1 \in Nat
        /\ NewUpTo(p) = NewUpTo(p - 1) \union {p}
        /\ \A i \in NewUpTo(p - 1) : i \in Nat /\ i < p
    BY UpToGrows
  <1>3. s \in ScanStates /\ Newest(OpensTo(p - 1), NoTurn, TurnAt, s.activeTurnId)
    BY DEF Found
  <1>4. ScopeOf(p) = TurnCharged(s, r)
    BY <1>1, <1>3, ChargedIsScope
  <1>5. /\ TurnAt[p] = r.turn /\ TextAt[p] = r.text /\ TerminalAt[p] = TerminalOf(r)
    BY <1>1, <1>2 DEF TurnAt, TextAt, TerminalAt
  <1>6. Newest(OpensTo(p), NoTurn, TurnAt, next.activeTurnId)
    <2>1. CASE OpensTurn(r)
      <3>1. OpensTo(p) = OpensTo(p - 1) \union {p}
        BY <1>1, <1>2, <2>1 DEF OpensTo
      <3>2. OpensTo(p - 1) \in SUBSET Nat /\ \A i \in OpensTo(p - 1) : i < p
        BY <1>2 DEF OpensTo
      <3>3. next.activeTurnId = TurnAt[p]
        BY <1>1, <1>5, <2>1 DEF Follows, ActiveAfter
      <3> QED
        BY <1>2, <1>3, <3>1, <3>2, <3>3, NewestGrows
    <2>2. CASE ~OpensTurn(r)
      <3>1. OpensTo(p) = OpensTo(p - 1)
        BY <1>1, <1>2, <2>2 DEF OpensTo
      <3>2. next.activeTurnId = s.activeTurnId
        BY <1>1, <2>2 DEF Follows, ActiveAfter
      <3> QED
        BY <1>3, <3>1, <3>2
    <2> QED
      BY <2>1, <2>2
  <1>7. ASSUME NEW t \in TurnIds
        PROVE  /\ t \in next.promptTurnIds <=> PromptsTo(t, p) # {}
               /\ t \in next.observedTurnIds <=> TurnsTo(t, p) # {}
    <2>1. t \in s.promptTurnIds <=> PromptsTo(t, p - 1) # {}
      BY DEF Found
    <2>2. t \in next.promptTurnIds <=>
            t \in s.promptTurnIds \/ (IsExactPrompt(r) /\ TurnCharged(s, r) = t)
      BY <1>1 DEF Follows
    <2>3. PromptsTo(t, p) # {} <=>
            PromptsTo(t, p - 1) # {} \/ (IsExactPrompt(r) /\ ScopeOf(p) = t)
      BY <1>1, <1>2 DEF PromptsTo
    <2>4. t \in s.observedTurnIds <=> TurnsTo(t, p - 1) # {}
      BY DEF Found
    <2>5. t \in next.observedTurnIds <=> t \in s.observedTurnIds \/ r.turn = t
      BY <1>1 DEF Follows
    <2>6. TurnsTo(t, p) # {} <=> TurnsTo(t, p - 1) # {} \/ r.turn = t
      BY <1>1, <1>2 DEF TurnsTo
    <2> QED
      BY <1>4, <2>1, <2>2, <2>3, <2>4, <2>5, <2>6
  <1>8. ASSUME NEW t \in TurnIds
        PROVE  Newest(EndsTo(t, p), NoTerminal, TerminalAt, next.terminals[t])
    <2>0. Newest(EndsTo(t, p - 1), NoTerminal, TerminalAt, s.terminals[t])
      BY DEF Found
    <2>1. CASE r.kind \in TerminalKinds /\ r.turn = t
      <3>1. EndsTo(t, p) = EndsTo(t, p - 1) \union {p}
        BY <1>1, <1>2, <2>1 DEF EndsTo
      <3>2. EndsTo(t, p - 1) \in SUBSET Nat /\ \A i \in EndsTo(t, p - 1) : i < p
        BY <1>2 DEF EndsTo
      <3>3. next.terminals[t] = TerminalAt[p]
        BY <1>1, <1>5, <2>1 DEF Follows
      <3> QED
        BY <1>2, <2>0, <3>1, <3>2, <3>3, NewestGrows
    <2>2. CASE ~(r.kind \in TerminalKinds /\ r.turn = t)
      <3>1. EndsTo(t, p) = EndsTo(t, p - 1)
        BY <1>1, <1>2, <2>2 DEF EndsTo
      <3>2. next.terminals[t] = s.terminals[t]
        BY <1>1, <2>2 DEF Follows
      <3> QED
        BY <2>0, <3>1, <3>2
    <2> QED
      BY <2>1, <2>2
  <1>9. ASSUME NEW t \in TurnIds
        PROVE  Newest(SaysTo(t, p), NoText, TextAt, next.agentMessages[t])
    <2>0. Newest(SaysTo(t, p - 1), NoText, TextAt, s.agentMessages[t])
      BY DEF Found
    <2>1. CASE Says(r) /\ ScopeOf(p) = t
      <3>1. SaysTo(t, p) = SaysTo(t, p - 1) \union {p}
        BY <1>1, <1>2, <2>1 DEF SaysTo
      <3>2. SaysTo(t, p - 1) \in SUBSET Nat /\ \A i \in SaysTo(t, p - 1) : i < p
        BY <1>2 DEF SaysTo
      <3>3. next.agentMessages[t] = TextAt[p]
        BY <1>1, <1>4, <1>5, <2>1 DEF Follows
      <3> QED
        BY <1>2, <2>0, <3>1, <3>2, <3>3, NewestGrows
    <2>2. CASE ~(Says(r) /\ ScopeOf(p) = t)
      <3>1. SaysTo(t, p) = SaysTo(t, p - 1)
        BY <1>1, <1>2, <2>2 DEF SaysTo
      <3>2. next.agentMessages[t] = s.agentMessages[t]
        BY <1>1, <1>4, <2>2 DEF Follows
      <3> QED
        BY <2>0, <3>1, <3>2
    <2> QED
      BY <2>1, <2>2
  <1>10. ASSUME NEW t \in TurnIds
         PROVE  Newest(ContextsTo(t, p), NoText, TextAt, next.contexts[t])
    <2>0. Newest(ContextsTo(t, p - 1), NoText, TextAt, s.contexts[t])
      BY DEF Found
    <2>1. CASE r.kind = "turn_context" /\ r.turn = t
      <3>1. ContextsTo(t, p) = ContextsTo(t, p - 1) \union {p}
        BY <1>1, <1>2, <2>1 DEF ContextsTo
      <3>2. ContextsTo(t, p - 1) \in SUBSET Nat /\ \A i \in ContextsTo(t, p - 1) : i < p
        BY <1>2 DEF ContextsTo
      <3>3. next.contexts[t] = TextAt[p]
        BY <1>1, <1>5, <2>1 DEF Follows
      <3> QED
        BY <1>2, <2>0, <3>1, <3>2, <3>3, NewestGrows
    <2>2. CASE ~(r.kind = "turn_context" /\ r.turn = t)
      <3>1. ContextsTo(t, p) = ContextsTo(t, p - 1)
        BY <1>1, <1>2, <2>2 DEF ContextsTo
      <3>2. next.contexts[t] = s.contexts[t]
        BY <1>1, <2>2 DEF Follows
      <3> QED
        BY <2>0, <3>1, <3>2
    <2> QED
      BY <2>1, <2>2
  <1>11. next.unscopedExactPrompt <=> PromptsTo(NoTurn, p) # {}
    <2>1. s.unscopedExactPrompt <=> PromptsTo(NoTurn, p - 1) # {}
      BY DEF Found
    <2>2. next.unscopedExactPrompt <=>
            s.unscopedExactPrompt \/ (IsExactPrompt(r) /\ TurnCharged(s, r) = NoTurn)
      BY <1>1 DEF Follows
    <2>3. PromptsTo(NoTurn, p) # {} <=>
            PromptsTo(NoTurn, p - 1) # {} \/ (IsExactPrompt(r) /\ ScopeOf(p) = NoTurn)
      BY <1>1, <1>2 DEF PromptsTo
    <2> QED
      BY <1>4, <2>1, <2>2, <2>3
  <1>12. next \in ScanStates
    BY DEF Follows
  <1> QED
    BY <1>6, <1>7, <1>8, <1>9, <1>10, <1>11, <1>12 DEF Found

\* All of them.
LEMMA ScanFinds ==
  ASSUME FileTyped
  PROVE  Found(Scan(RecordsAfter(file, boundary)), Len(file))
  <1>0. PICK l \in Nat : l = Len(file)
    BY DEF FileTyped
  <1>1. PICK b \in Nat, n \in Nat : b = boundary.recordCount /\ b + n = l
    <2>1. PICK b \in 0..l : b = boundary.recordCount
      BY <1>0 DEF FileTyped
    <2>2. b \in Nat /\ l - b \in Nat /\ b + (l - b) = l
      BY <2>1
    <2> QED
      BY <2>1, <2>2
  <1>2. PICK recs \in Seq(Records) : /\ recs = RecordsAfter(file, boundary)
                                     /\ Len(recs) = n
                                     /\ \A i \in 1..n : recs[i] = file[b + i]
    <2>1. \A i \in b + 1..l : file[i] \in Records
      <3>1. \A i \in 1..l : file[i] \in Records
        BY <1>0 DEF FileTyped
      <3> QED
        BY <3>1
    <2>2. b + 1 \in Int /\ l \in Int
      OBVIOUS
    <2>3. PICK recs : recs = SubSeq(file, b + 1, l)
      OBVIOUS
    <2>4. /\ recs \in Seq(Records)
          /\ Len(recs) = IF b + 1 <= l THEN l - (b + 1) + 1 ELSE 0
          /\ \A i \in 1..l - (b + 1) + 1 : recs[i] = file[b + 1 + i - 1]
      BY <2>1, <2>2, <2>3, SubSeqProperties
    <2>5. l - (b + 1) + 1 = n /\ (b + 1 <= l \/ n = 0) /\ \A i \in 1..n : b + 1 + i - 1 = b + i
      BY <1>1
    <2>6. Len(recs) = n /\ \A i \in 1..n : recs[i] = file[b + i]
      BY <2>4, <2>5
    <2>7. recs = RecordsAfter(file, boundary)
      BY <1>0, <1>1, <2>3 DEF RecordsAfter
    <2> QED
      BY <2>4, <2>6, <2>7
  <1>3. PICK f \in ScanRuns(recs) : Scan(recs) = f[Len(recs)]
    BY ScanIsRun
  <1>4. /\ f \in [0..n -> ScanStates] /\ f[0] = ScanStart
        /\ \A i \in 1..n : f[i] = ScanRecord(f[i - 1], recs[i])
    BY <1>2, <1>3 DEF ScanRuns
  <1>5. \A i \in 1..n : b + i \in NewIndices
    <2>1. DOMAIN file = 1..l
      BY <1>0 DEF FileTyped
    <2>2. \A i \in 1..n : b + i \in 1..l /\ b + i > b
      BY <1>1
    <2> QED
      BY <1>1, <2>1, <2>2 DEF NewIndices
  <1> DEFINE S == {i \in 0..n : Found(f[i], b + i)}
  <1>6. 0 \in S
    <2>1. NewUpTo(b) = {}
      BY <1>1 DEF NewUpTo, NewIndices, FileTyped
    <2>2. Found(ScanStart, b)
      BY <2>1, ScanStartTyped
         DEF Found, Newest, ScanStart, OpensTo, EndsTo, SaysTo, ContextsTo, PromptsTo, TurnsTo
    <2> QED
      BY <1>1, <1>4, <2>2
  <1>7. ASSUME NEW i \in 1..n, i - 1 \in S PROVE i \in S
    <2>1. PICK p \in NewIndices : p = b + i
      BY <1>5
    <2>2. p - 1 = b + (i - 1) /\ i - 1 \in 0..n /\ i \in 0..n
      BY <2>1
    <2>3. Found(f[i - 1], p - 1)
      BY <1>7, <2>2
    <2>4. recs[i] = file[p] /\ file[p] \in Records
      BY <1>2, <2>1, UpToGrows
    <2>5. f[i - 1] \in ScanStates /\ f[i] = ScanRecord(f[i - 1], file[p])
      BY <1>4, <2>2, <2>4
    <2>6. Follows(f[i], f[i - 1], file[p])
      BY <2>4, <2>5, ScanRecordFollows
    <2>7. Found(f[i], p)
      BY <2>3, <2>6, FoundGrows
    <2> QED
      BY <2>1, <2>2, <2>7
  <1> HIDE DEF S
  <1>8. n \in S
    <2>1. 0..n \subseteq S
      BY <1>6, <1>7, InductionUpTo
    <2> QED
      BY <2>1
  <1> QED
    BY <1>0, <1>1, <1>2, <1>3, <1>8 DEF S

----------------------------------------------------------------------------
(* What Codex has written                                                  *)

WrittenBy(record, t) ==
  record = Record("task_started", t, NoText) \/ record \in TurnRecords(t)

\* The last record up to position i that opens a turn.
LastOpening(j, i) ==
  /\ j <= i /\ OpensTurn(file[j])
  /\ \A l \in DOMAIN file : j < l /\ l <= i => ~OpensTurn(file[l])

\* Codex writes one turn at a time: what follows the opening of a turn is of
\* that turn until another one opens.
History ==
  /\ file \in Seq(Records) /\ Len(file) \in 1..MaxRecords
  /\ \A i \in DOMAIN file : \E t \in TurnIds : WrittenBy(file[i], t)
  /\ \A i, j \in DOMAIN file : LastOpening(j, i) => WrittenBy(file[i], file[j].turn)
  /\ open \in Turns0
  /\ open # NoTurn => \A j \in DOMAIN file : LastOpening(j, Len(file)) => file[j].turn = open

BoundaryHolds ==
  /\ boundary.recordCount \in 0..Len(file)
  /\ boundary.turnIds = {file[i].turn : i \in DOMAIN file \ NewIndices} \ {NoTurn}

\* A record tells who wrote it, as far as it tells anything.
LEMMA WrittenTells ==
  ASSUME NEW t \in TurnIds, NEW r, WrittenBy(r, t)
  PROVE  /\ r \in Records
         /\ r.turn \in {t, NoTurn}
         /\ r.kind \in ScopingKinds \union TerminalKinds => r.turn = t
         /\ r.kind \in TerminalKinds \union {"turn_context"} => r.text \in {t, NoText}
         /\ r.kind = "agent_message" => r.text = t
         /\ r.kind = "user_message" => r.text = PromptOf(t)
  <1>1. t \in Texts /\ t # NoText /\ t # NoTurn /\ PromptOf(t) \in Texts
    BY RecordAssumption, TurnAssumption DEF PromptOf
  <1> DEFINE Told(x) ==
         /\ x \in Records
         /\ x.turn \in {t, NoTurn}
         /\ x.kind \in ScopingKinds \union TerminalKinds => x.turn = t
         /\ x.kind \in TerminalKinds \union {"turn_context"} => x.text \in {t, NoText}
         /\ x.kind = "agent_message" => x.text = t
         /\ x.kind = "user_message" => x.text = PromptOf(t)
  <1> USE DEF Record, Records, ScopingKinds, TerminalKinds
  <1>2. Told(Record("task_started", t, NoText))
    BY <1>1
  <1>3. /\ Told(Record("turn_context", t, t)) /\ Told(Record("task_complete", t, t))
        /\ Told(Record("agent_message", NoTurn, t)) /\ Told(Record("agent_message", t, t))
    BY <1>1
  <1>4. Told(Record("user_message", t, PromptOf(t))) /\ Told(Record("user_message", NoTurn, PromptOf(t)))
    BY <1>1
  <1>5. /\ Told(Record("task_complete", t, NoText)) /\ Told(Record("turn_aborted", t, NoText))
        /\ Told(Record("error", t, NoText))
    BY <1>1
  <1>6. \/ r = Record("task_started", t, NoText)
        \/ r = Record("turn_context", t, t) \/ r = Record("task_complete", t, t)
        \/ r = Record("agent_message", NoTurn, t) \/ r = Record("agent_message", t, t)
        \/ r = Record("user_message", t, PromptOf(t)) \/ r = Record("user_message", NoTurn, PromptOf(t))
        \/ r = Record("task_complete", t, NoText) \/ r = Record("turn_aborted", t, NoText)
        \/ r = Record("error", t, NoText)
    <2> HIDE DEF Record
    <2> QED
      BY DEF WrittenBy, TurnRecords
  <1> HIDE DEF Told, Record, Records, ScopingKinds, TerminalKinds
  <1>7. Told(r)
    BY <1>2, <1>3, <1>4, <1>5, <1>6
  <1> QED
    BY <1>7 DEF Told

\* A set of positions that is not empty has a greatest one.
LEMMA GreatestExists ==
  ASSUME NEW n \in Nat, NEW S \in SUBSET (1..n), S # {}
  PROVE  Max(S) \in S /\ \A j \in S : j <= Max(S)
  <1> DEFINE upTo(k) == {j \in S : j <= k}
             T == {k \in 0..n : upTo(k) # {} => \E m \in upTo(k) : \A j \in upTo(k) : j <= m}
  <1>0. \A j \in S : j \in Nat /\ 1 <= j /\ j <= n
    OBVIOUS
  <1>1. 0 \in T
    <2>1. \A j \in S : ~(j <= 0)
      BY <1>0
    <2>2. upTo(0) = {}
      BY <2>1
    <2>3. 0 \in 0..n
      OBVIOUS
    <2> HIDE DEF upTo
    <2> QED
      BY <2>2, <2>3
  <1>2. ASSUME NEW k \in 1..n, k - 1 \in T PROVE k \in T
    <2>1. CASE k \in S
      <3>1. k \in upTo(k) /\ \A j \in upTo(k) : j <= k
        BY <2>1
      <3> QED
        BY <3>1
    <2>2. CASE k \notin S
      <3>1. upTo(k) = upTo(k - 1)
        <4>1. \A j \in S : j <= k <=> j <= k - 1
          BY <1>0, <2>2
        <4> QED
          BY <4>1
      <3>2. k - 1 \in 0..n /\ (upTo(k - 1) # {} => \E m \in upTo(k - 1) : \A j \in upTo(k - 1) : j <= m)
        BY <1>2
      <3> HIDE DEF upTo
      <3> QED
        BY <3>1, <3>2
    <2> QED
      BY <2>1, <2>2
  <1>3. n \in T
    <2> HIDE DEF T
    <2>1. 0..n \subseteq T
      BY <1>1, <1>2, InductionUpTo
    <2> QED
      BY <2>1
  <1>4. upTo(n) = S
    BY <1>0
  <1>5. PICK m \in S : \A j \in S : j <= m
    BY <1>3, <1>4
  <1>6. Max(S) = m
    BY <1>5, GreatestIsMax
  <1> QED
    BY <1>5, <1>6

\* The turn a record belongs to wrote it.
LEMMA ScopeWrote ==
  ASSUME History, BoundaryHolds, NEW i \in NewIndices, ScopeOf(i) # NoTurn
  PROVE  ScopeOf(i) \in TurnIds /\ WrittenBy(file[i], ScopeOf(i))
  <1>0. PICK n \in Nat : n = Len(file) /\ DOMAIN file = 1..n
    BY DEF History
  <1>1. Scopes(i) # {} /\ Scopes(i) \subseteq 1..n /\ NewIndices \subseteq 1..n
    BY <1>0 DEF ScopeOf, Scopes, NewIndices
  <1>2. PICK m \in Scopes(i) : m = Max(Scopes(i)) /\ \A j \in Scopes(i) : j <= m
    BY <1>1, GreatestExists
  <1>3. /\ m \in NewIndices /\ m <= i /\ file[m].turn # NoTurn
        /\ file[m].kind \in ScopingKinds \/ m = i
        /\ ScopeOf(i) = file[m].turn
    BY <1>1, <1>2 DEF Scopes, ScopeOf
  <1>4. PICK t \in TurnIds : WrittenBy(file[m], t)
    BY <1>0, <1>1, <1>3 DEF History
  <1>5. file[m].turn = t
    BY <1>3, <1>4, WrittenTells
  <1>6. CASE m = i
    BY <1>3, <1>4, <1>5, <1>6
  <1>7. CASE file[m].kind \in ScopingKinds
    <2>1. ASSUME NEW l \in DOMAIN file, m < l, l <= i PROVE ~OpensTurn(file[l])
      <3>1. SUFFICES ASSUME OpensTurn(file[l]) PROVE FALSE
        OBVIOUS
      <3>2. l \in NewIndices
        <4>1. PICK b \in 0..n : b = boundary.recordCount
          BY <1>0 DEF BoundaryHolds
        <4>2. b < m /\ m \in 1..n /\ l \in 1..n
          BY <1>0, <1>1, <1>3, <4>1 DEF NewIndices
        <4>3. b < l
          BY <2>1, <4>2
        <4> QED
          BY <4>1, <4>3 DEF NewIndices
      <3>3. l \in Scopes(i)
        BY <2>1, <3>1, <3>2 DEF Scopes, OpensTurn
      <3> QED
        BY <1>0, <1>1, <1>2, <1>3, <2>1, <3>3
    <2>2. LastOpening(m, i)
      BY <1>3, <1>7, <2>1 DEF LastOpening, OpensTurn
    <2>3. WrittenBy(file[i], file[m].turn)
      BY <1>0, <1>1, <1>3, <2>2 DEF History
    <2> QED
      BY <1>3, <1>5, <2>3
  <1> QED
    BY <1>3, <1>6, <1>7

----------------------------------------------------------------------------
(* The verdict                                                             *)

LEMMA NewestIsAtMax ==
  ASSUME NEW S \in SUBSET Nat, NEW none, NEW value, NEW v, Newest(S, none, value, v)
  PROVE  /\ S = {} => v = none
         /\ S # {} => Max(S) \in S /\ v = value[Max(S)]
  <1>1. CASE S = {}
    BY <1>1 DEF Newest
  <1>2. CASE S # {}
    <2>1. PICK i \in S : (\A j \in S : j <= i) /\ v = value[i]
      BY <1>2 DEF Newest
    <2>2. Max(S) = i
      BY <2>1, GreatestIsMax
    <2> QED
      BY <1>2, <2>1, <2>2
  <1> QED
    BY <1>1, <1>2

\* When the inspection does not fail.
Accepted(s, known) ==
  /\ known \notin boundary.turnIds
  /\ ~SeveralPromptTurns(s) /\ ~s.unscopedExactPrompt
  /\ known # NoTurn => \A t \in s.promptTurnIds : t = known

LEMMA InspectionIs ==
  ASSUME NEW known, NEW s, s = Scan(RecordsAfter(file, boundary)),
         NEW v, v = InspectTurnRecords(file, boundary, known)
  PROVE  /\ Accepted(s, known) => v = Verdict(s, known) /\ v.error = "none"
         /\ ~Accepted(s, known) => v.error # "none" /\ v.turnId = NoTurn
  <1> DEFINE refused == known \in boundary.turnIds
             several == SeveralPromptTurns(s)
             mismatch == known # NoTurn /\ \E t \in s.promptTurnIds : t # known
             late == IF s.unscopedExactPrompt THEN Rejected("unscoped prompt")
                     ELSE IF mismatch THEN Rejected("turn mismatch") ELSE Verdict(s, known)
  <1>1. v = CASE refused -> Rejected("turn before boundary")
              [] ~refused /\ several -> Rejected("several prompt turns")
              [] OTHER -> late
    BY Zenon DEF InspectTurnRecords
  <1>2. /\ refused => v = Rejected("turn before boundary")
        /\ ~refused /\ several => v = Rejected("several prompt turns")
        /\ ~refused /\ ~several => v = late
    <2> HIDE DEF refused, several, late
    <2> QED
      BY <1>1
  <1>3. \A why \in {"turn before boundary", "several prompt turns", "unscoped prompt", "turn mismatch"} :
          Rejected(why).error # "none" /\ Rejected(why).turnId = NoTurn
    BY DEF Rejected
  <1>4. Verdict(s, known).error = "none"
    BY DEF Verdict
  <1>5. Accepted(s, known) <=> ~refused /\ ~several /\ ~s.unscopedExactPrompt /\ ~mismatch
    BY DEF Accepted
  <1> HIDE DEF refused, several, mismatch
  <1> QED
    BY <1>2, <1>3, <1>4, <1>5

\* The prompt turns of the scan are those of the reference.
LEMMA PromptTurnsAgree ==
  ASSUME History, BoundaryHolds, NEW s, Found(s, Len(file))
  PROVE  /\ PromptTurns \subseteq Turns0
         /\ \A t \in TurnIds : t \in s.promptTurnIds <=> t \in PromptTurns
         /\ s.unscopedExactPrompt <=> NoTurn \in PromptTurns
         /\ s.promptTurnIds \subseteq TurnIds
         /\ NewUpTo(Len(file)) = NewIndices
  <1>1. \A i \in NewIndices : i \in DOMAIN file /\ i <= Len(file)
    BY DEF NewIndices, History
  <1>2. NewUpTo(Len(file)) = NewIndices
    BY <1>1 DEF NewUpTo
  <1>3. PromptTurns = {ScopeOf(i) : i \in {j \in NewIndices : IsExactPrompt(file[j])}}
    BY DEF PromptTurns, IsExactPrompt
  <1>4. \A t : t \in PromptTurns <=> PromptsTo(t, Len(file)) # {}
    BY <1>2, <1>3 DEF PromptsTo
  <1>5. \A i \in NewIndices : ScopeOf(i) \in Turns0
    BY ScopeWrote DEF Turns0
  <1>6. PromptTurns \subseteq Turns0
    BY <1>3, <1>5
  <1> QED
    BY <1>2, <1>4, <1>6 DEF Found, ScanStates

LEMMA AcceptedIsAcceptable ==
  ASSUME History, BoundaryHolds, NEW s, Found(s, Len(file)), NEW known \in {NoTurn, Real}
  PROVE  Accepted(s, known) <=> Acceptable(known)
  <1>1. /\ PromptTurns \subseteq Turns0
        /\ \A t \in TurnIds : t \in s.promptTurnIds <=> t \in PromptTurns
        /\ s.unscopedExactPrompt <=> NoTurn \in PromptTurns
        /\ s.promptTurnIds \subseteq TurnIds
    BY PromptTurnsAgree
  <1>2. NoTurn \notin TurnIds /\ Real \in TurnIds /\ Real # NoTurn
    BY RecordAssumption, TurnAssumption
  <1>3. known \notin boundary.turnIds <=>
          known \notin {file[i].turn : i \in DOMAIN file \ NewIndices} \ {NoTurn}
    BY DEF BoundaryHolds
  <1>4. ASSUME NoTurn \notin PromptTurns PROVE s.promptTurnIds = PromptTurns
    BY <1>1, <1>4 DEF Turns0
  <1>5. CASE NoTurn \in PromptTurns
    <2>1. ~Accepted(s, known)
      BY <1>1, <1>5 DEF Accepted
    <2>2. ~Acceptable(known)
      BY <1>2, <1>5 DEF Acceptable
    <2> QED
      BY <2>1, <2>2
  <1>6. CASE NoTurn \notin PromptTurns
    <2>1. s.promptTurnIds = PromptTurns /\ ~s.unscopedExactPrompt
      BY <1>1, <1>4, <1>6
    <2>2. ~SeveralPromptTurns(s) <=> \A t, u \in PromptTurns : t = u
      BY <2>1 DEF SeveralPromptTurns
    <2>3. (known # NoTurn => \A t \in s.promptTurnIds : t = known) <=>
            PromptTurns \subseteq (IF known = NoTurn THEN TurnIds ELSE {known})
      BY <1>1, <2>1
    <2> QED
      BY <1>3, <2>1, <2>2, <2>3 DEF Accepted, Acceptable
  <1> QED
    BY <1>5, <1>6

\* What an accepted inspection says of the records.
LEMMA VerdictIs ==
  ASSUME History, BoundaryHolds, NEW s, Found(s, Len(file)), NEW known \in {NoTurn, Real},
         Accepted(s, known), NEW v, v = Verdict(s, known)
  PROVE  /\ {v.turnId} = IF known # NoTurn THEN {known}
                         ELSE IF PromptTurns = {} THEN {NoTurn} ELSE PromptTurns
         /\ v.turnId \in Turns0
         /\ v.turnId = NoTurn => v.outcome = "none"
         /\ v.turnId # NoTurn =>
              /\ v.turnObserved <=> \E j \in NewIndices : file[j].turn = v.turnId
              /\ v.promptCorrelated <=> v.turnId \in PromptTurns
              /\ v.outcome = s.terminals[v.turnId].outcome
              /\ v.finalResponse = IF s.terminals[v.turnId].finalResponse # NoText
                                   THEN s.terminals[v.turnId].finalResponse
                                   ELSE s.agentMessages[v.turnId]
              /\ v.recordedModel = s.contexts[v.turnId]
  <1> DEFINE promptTurnId == IF s.promptTurnIds = {} THEN NoTurn
                             ELSE CHOOSE t \in s.promptTurnIds : TRUE
             turnId == IF known # NoTurn THEN known ELSE promptTurnId
             terminal == IF turnId = NoTurn THEN NoTerminal ELSE s.terminals[turnId]
  <1>1. /\ PromptTurns \subseteq Turns0
        /\ \A t \in TurnIds : t \in s.promptTurnIds <=> t \in PromptTurns
        /\ s.unscopedExactPrompt <=> NoTurn \in PromptTurns
        /\ s.promptTurnIds \subseteq TurnIds
        /\ NewUpTo(Len(file)) = NewIndices
    BY PromptTurnsAgree
  <1>2. NoTurn \notin TurnIds /\ Real \in TurnIds
    BY RecordAssumption, TurnAssumption
  <1>3. s.promptTurnIds = PromptTurns /\ \A t, u \in PromptTurns : t = u
    <2>1. ~s.unscopedExactPrompt /\ ~SeveralPromptTurns(s)
      BY DEF Accepted
    <2>2. s.promptTurnIds = PromptTurns
      BY <1>1, <2>1 DEF Turns0
    <2> QED
      BY <2>1, <2>2 DEF SeveralPromptTurns
  <1>4. v = [error |-> "none", turnId |-> turnId,
             turnObserved |-> turnId \in s.observedTurnIds,
             promptCorrelated |-> turnId \in s.promptTurnIds,
             outcome |-> terminal.outcome,
             finalResponse |-> IF terminal.finalResponse # NoText \/ turnId = NoTurn
                               THEN terminal.finalResponse ELSE s.agentMessages[turnId],
             recordedModel |-> IF turnId = NoTurn THEN NoText ELSE s.contexts[turnId]]
    BY Zenon DEF Verdict
  <1>5. /\ v.turnId = turnId
        /\ v.turnObserved = (turnId \in s.observedTurnIds)
        /\ v.promptCorrelated = (turnId \in s.promptTurnIds)
        /\ v.outcome = terminal.outcome
        /\ v.finalResponse = IF terminal.finalResponse # NoText \/ turnId = NoTurn
                             THEN terminal.finalResponse ELSE s.agentMessages[turnId]
        /\ v.recordedModel = IF turnId = NoTurn THEN NoText ELSE s.contexts[turnId]
    <2> HIDE DEF turnId, terminal
    <2> QED
      BY <1>4
  <1>6. s.promptTurnIds # {} => promptTurnId \in s.promptTurnIds
    BY Zenon
  <1>7. {turnId} = IF known # NoTurn THEN {known}
                   ELSE IF PromptTurns = {} THEN {NoTurn} ELSE PromptTurns
    <2>1. CASE known # NoTurn
      BY <2>1
    <2>2. CASE known = NoTurn /\ PromptTurns = {}
      BY <1>3, <2>2
    <2>3. CASE known = NoTurn /\ PromptTurns # {}
      <3>1. turnId \in PromptTurns
        BY <1>3, <1>6, <2>3
      <3> HIDE DEF turnId
      <3> QED
        BY <1>3, <2>3, <3>1
    <2> QED
      BY <2>1, <2>2, <2>3
  <1> HIDE DEF promptTurnId, turnId
  <1>8. turnId \in Turns0
    BY <1>1, <1>2, <1>7 DEF Turns0
  <1>9. turnId = NoTurn => v.outcome = "none"
    BY <1>5 DEF NoTerminal
  <1>10. ASSUME turnId # NoTurn
         PROVE  turnId \in s.observedTurnIds <=> \E j \in NewIndices : file[j].turn = turnId
    <2>1. turnId \in TurnIds
      BY <1>8, <1>10 DEF Turns0
    <2>2. turnId \in s.observedTurnIds <=> TurnsTo(turnId, Len(file)) # {}
      BY <2>1 DEF Found
    <2> QED
      BY <1>1, <2>2 DEF TurnsTo
  <1>11. turnId # NoTurn => terminal = s.terminals[turnId]
    OBVIOUS
  <1> HIDE DEF terminal
  <1> QED
    BY <1>3, <1>5, <1>7, <1>8, <1>9, <1>10, <1>11

\* The last records that the reference looks for are those of the scan.
LEMMA LastOfIs ==
  ASSUME History, BoundaryHolds, NEW t \in TurnIds
  PROVE  LET n == Len(file) IN
         /\ EndsTo(t, n) = LastOf(t, TerminalKinds, FALSE)
         /\ SaysTo(t, n) = LastOf(t, {"agent_message"}, TRUE)
         /\ EndsTo(t, n) \in SUBSET Nat /\ SaysTo(t, n) \in SUBSET Nat
         /\ \A i \in NewIndices : i \in DOMAIN file
         /\ \A i \in EndsTo(t, n) \union SaysTo(t, n) : i \in NewIndices
  <1>1. \A i \in NewIndices : i \in DOMAIN file /\ i <= Len(file) /\ i \in Nat
    BY DEF NewIndices, History
  <1>2. NewUpTo(Len(file)) = NewIndices
    BY <1>1 DEF NewUpTo
  <1>3. \A i \in NewIndices : Says(file[i]) <=> file[i].kind \in {"agent_message"}
    <2>1. ASSUME NEW i \in NewIndices, file[i].kind = "agent_message" PROVE file[i].text # NoText
      <3>1. PICK w \in TurnIds : WrittenBy(file[i], w)
        BY <1>1 DEF History
      <3>2. file[i].text = w /\ w # NoText
        BY <2>1, <3>1, WrittenTells, RecordAssumption, TurnAssumption
      <3> QED
        BY <3>2
    <2> QED
      BY <2>1 DEF Says
  <1>4. EndsTo(t, Len(file)) = LastOf(t, TerminalKinds, FALSE)
    BY <1>2 DEF EndsTo, LastOf
  <1>5. SaysTo(t, Len(file)) = LastOf(t, {"agent_message"}, TRUE)
    BY <1>2, <1>3 DEF SaysTo, LastOf
  <1>6. /\ EndsTo(t, Len(file)) \subseteq NewIndices
        /\ SaysTo(t, Len(file)) \subseteq NewIndices
    BY <1>2 DEF EndsTo, SaysTo
  <1> QED
    BY <1>1, <1>4, <1>5, <1>6

\* The single pass and the reference agree.
LEMMA InspectionAgrees ==
  ASSUME History, BoundaryHolds, NEW known \in {NoTurn, Real}
  PROVE  Expected(known, InspectTurnRecords(file, boundary, known))
  <1>1. FileTyped
    BY DEF History, BoundaryHolds, FileTyped
  <1>2. PICK s : s = Scan(RecordsAfter(file, boundary))
    OBVIOUS
  <1>3. Found(s, Len(file))
    BY <1>1, <1>2, ScanFinds
  <1>4. PICK v : v = InspectTurnRecords(file, boundary, known)
    OBVIOUS
  <1>5. /\ Accepted(s, known) => v = Verdict(s, known) /\ v.error = "none"
        /\ ~Accepted(s, known) => v.error # "none" /\ v.turnId = NoTurn
    BY <1>2, <1>4, InspectionIs
  <1>6. Accepted(s, known) <=> Acceptable(known)
    BY <1>3, AcceptedIsAcceptable
  <1>7. CASE ~Acceptable(known)
    BY <1>4, <1>5, <1>6, <1>7 DEF Expected
  <1>8. CASE Acceptable(known)
    <2>1. /\ {v.turnId} = IF known # NoTurn THEN {known}
                          ELSE IF PromptTurns = {} THEN {NoTurn} ELSE PromptTurns
          /\ v.turnId \in Turns0
          /\ v.turnId = NoTurn => v.outcome = "none"
          /\ v.turnId # NoTurn =>
               /\ v.turnObserved <=> \E j \in NewIndices : file[j].turn = v.turnId
               /\ v.promptCorrelated <=> v.turnId \in PromptTurns
               /\ v.outcome = s.terminals[v.turnId].outcome
               /\ v.finalResponse = IF s.terminals[v.turnId].finalResponse # NoText
                                    THEN s.terminals[v.turnId].finalResponse
                                    ELSE s.agentMessages[v.turnId]
               /\ v.recordedModel = s.contexts[v.turnId]
      BY <1>3, <1>5, <1>6, <1>8, VerdictIs
    <2>2. CASE v.turnId = NoTurn
      BY <1>4, <1>5, <1>6, <1>8, <2>1, <2>2 DEF Expected
    <2>3. CASE v.turnId # NoTurn
      <3>1. PICK t \in TurnIds : t = v.turnId
        BY <2>1, <2>3 DEF Turns0
      <3>2. PICK ends : ends = LastOf(t, TerminalKinds, FALSE)
        OBVIOUS
      <3>3. PICK says : says = LastOf(t, {"agent_message"}, TRUE)
        OBVIOUS
      <3>4. /\ ends \in SUBSET Nat /\ says \in SUBSET Nat
            /\ ends = EndsTo(t, Len(file)) /\ says = SaysTo(t, Len(file))
            /\ \A i \in ends \union says : i \in DOMAIN file
        BY <3>2, <3>3, LastOfIs
      <3>5. /\ Newest(ends, NoTerminal, TerminalAt, s.terminals[t])
            /\ Newest(says, NoText, TextAt, s.agentMessages[t])
        BY <1>3, <3>4 DEF Found
      <3>6. /\ ends = {} => s.terminals[t] = NoTerminal
            /\ ends # {} => Max(ends) \in ends /\ s.terminals[t] = TerminalAt[Max(ends)]
        BY <3>4, <3>5, NewestIsAtMax
      <3>7. /\ says = {} => s.agentMessages[t] = NoText
            /\ says # {} => Max(says) \in says /\ s.agentMessages[t] = TextAt[Max(says)]
        <4>1. says \in SUBSET Nat
          BY <3>4
        <4>2. PICK told, value : told = s.agentMessages[t] /\ value = TextAt
          OBVIOUS
        <4>3. Newest(says, NoText, value, told)
          BY <3>5, <4>2
        <4>4. /\ says = {} => told = NoText
              /\ says # {} => Max(says) \in says /\ told = value[Max(says)]
          BY <4>1, <4>3, NewestIsAtMax
        <4> QED
          BY <4>2, <4>4
      <3>8. s.agentMessages[t] = IF says = {} THEN NoText ELSE file[Max(says)].text
        BY <3>4, <3>7 DEF TextAt
      <3>9. ends # {} => s.terminals[t] = TerminalOf(file[Max(ends)])
        BY <3>4, <3>6 DEF TerminalAt
      <3>10. v.outcome = IF ends = {} THEN "none" ELSE TerminalFromEvent(file[Max(ends)].kind)
        BY <2>1, <2>3, <3>1, <3>6, <3>9 DEF NoTerminal, TerminalOf
      <3>11. v.finalResponse =
               IF ends # {} /\ file[Max(ends)].kind = "task_complete"
                  /\ file[Max(ends)].text # NoText
               THEN file[Max(ends)].text
               ELSE IF says = {} THEN NoText ELSE file[Max(says)].text
        <4>1. v.finalResponse = IF s.terminals[t].finalResponse # NoText
                                THEN s.terminals[t].finalResponse ELSE s.agentMessages[t]
          BY <2>1, <2>3, <3>1
        <4>2. s.terminals[t].finalResponse =
                IF ends # {} /\ file[Max(ends)].kind = "task_complete"
                THEN file[Max(ends)].text ELSE NoText
          BY <3>6, <3>9 DEF NoTerminal, TerminalOf
        <4> QED
          BY <3>8, <4>1, <4>2
      <3>12. v.error = "none"
        BY <1>5, <1>6, <1>8
      <3>13. /\ {t} = IF known # NoTurn THEN {known}
                      ELSE IF PromptTurns = {} THEN {NoTurn} ELSE PromptTurns
             /\ v.turnObserved <=> \E j \in NewIndices : file[j].turn = t
             /\ v.promptCorrelated <=> t \in PromptTurns
        BY <2>1, <2>3, <3>1
      <3>14. Expected(known, v) <=>
               /\ v.error = "none"
               /\ {t} = IF known # NoTurn THEN {known}
                        ELSE IF PromptTurns = {} THEN {NoTurn} ELSE PromptTurns
               /\ t # NoTurn =>
                    /\ v.turnObserved <=> \E j \in NewIndices : file[j].turn = t
                    /\ v.promptCorrelated <=> t \in PromptTurns
                    /\ v.outcome = IF ends = {} THEN "none"
                                   ELSE TerminalFromEvent(file[Max(ends)].kind)
                    /\ v.finalResponse =
                         IF ends # {} /\ file[Max(ends)].kind = "task_complete"
                            /\ file[Max(ends)].text # NoText
                         THEN file[Max(ends)].text
                         ELSE IF says = {} THEN NoText ELSE file[Max(says)].text
        BY <1>8, <3>1, <3>2, <3>3, Zenon DEF Expected
      <3>15. Expected(known, v)
        BY <3>10, <3>11, <3>12, <3>13, <3>14
      <3> QED
        BY <1>4, <3>15
    <2> QED
      BY <2>2, <2>3
  <1> QED
    BY <1>7, <1>8

\* What a verdict says is so, and stays so whatever is appended to the file.
Truthful(v, known) ==
  /\ v.turnId \in Turns0
  /\ known # NoTurn => v.turnId = known /\ known \notin boundary.turnIds
  /\ known = NoTurn /\ v.turnId # NoTurn => v.turnId \in PromptTurns
  /\ v.outcome \in Outcomes \union {"none"}
  /\ v.outcome # "none" =>
       \E i \in NewIndices : /\ file[i].turn = v.turnId
                             /\ file[i].kind \in TerminalKinds
                             /\ TerminalFromEvent(file[i].kind) = v.outcome
  /\ v.turnId # NoTurn => {v.finalResponse, v.recordedModel} \subseteq {NoText, v.turnId}

\* The words that the scan holds of a turn are of this turn.
LEMMA WordsOfTurn ==
  ASSUME History, BoundaryHolds, NEW s, Found(s, Len(file)), NEW t \in TurnIds
  PROVE  /\ s.agentMessages[t] \in {NoText, t} /\ s.contexts[t] \in {NoText, t}
         /\ s.terminals[t].finalResponse \in {NoText, t}
         /\ s.terminals[t].outcome \in Outcomes \union {"none"}
         /\ s.terminals[t].outcome # "none" =>
              \E i \in NewIndices : /\ file[i].turn = t
                                    /\ file[i].kind \in TerminalKinds
                                    /\ TerminalFromEvent(file[i].kind) = s.terminals[t].outcome
  <1>0. \A i \in NewIndices : i \in DOMAIN file /\ file[i] \in Records
    BY DEF NewIndices, History
  <1>1. NewUpTo(Len(file)) = NewIndices
    BY PromptTurnsAgree
  <1>2. \A i \in NewIndices : file[i].turn = t => WrittenBy(file[i], t)
    <2>1. ASSUME NEW i \in NewIndices, file[i].turn = t PROVE WrittenBy(file[i], t)
      <3>1. PICK w \in TurnIds : WrittenBy(file[i], w)
        BY <1>0 DEF History
      <3>2. w = t
        BY <2>1, <3>1, WrittenTells, RecordAssumption
      <3> QED
        BY <3>1, <3>2
    <2> QED
      BY <2>1
  <1>3. s.agentMessages[t] \in {NoText, t}
    <2>1. Newest(SaysTo(t, Len(file)), NoText, TextAt, s.agentMessages[t])
      BY DEF Found
    <2>2. ASSUME NEW i \in SaysTo(t, Len(file)) PROVE TextAt[i] = t
      <3>1. i \in NewIndices /\ Says(file[i]) /\ ScopeOf(i) = t
        BY <1>1 DEF SaysTo
      <3>2. WrittenBy(file[i], t)
        BY <3>1, ScopeWrote, RecordAssumption
      <3>3. file[i].text = t
        BY <3>1, <3>2, WrittenTells DEF Says
      <3> QED
        BY <1>0, <3>1, <3>3 DEF TextAt
    <2> QED
      BY <2>1, <2>2 DEF Newest
  <1>4. s.contexts[t] \in {NoText, t}
    <2>1. Newest(ContextsTo(t, Len(file)), NoText, TextAt, s.contexts[t])
      BY DEF Found
    <2>2. ASSUME NEW i \in ContextsTo(t, Len(file)) PROVE TextAt[i] \in {NoText, t}
      <3>1. i \in NewIndices /\ file[i].kind = "turn_context" /\ file[i].turn = t
        BY <1>1 DEF ContextsTo
      <3>2. file[i].text \in {NoText, t}
        BY <1>2, <3>1, WrittenTells
      <3> QED
        BY <1>0, <3>1, <3>2 DEF TextAt
    <2> QED
      BY <2>1, <2>2 DEF Newest
  <1>5. \/ s.terminals[t] = NoTerminal
        \/ \E i \in NewIndices : /\ file[i].turn = t /\ file[i].kind \in TerminalKinds
                                 /\ s.terminals[t] = TerminalOf(file[i])
    <2>1. Newest(EndsTo(t, Len(file)), NoTerminal, TerminalAt, s.terminals[t])
      BY DEF Found
    <2>2. \A i \in EndsTo(t, Len(file)) : /\ i \in NewIndices /\ TerminalAt[i] = TerminalOf(file[i])
                                          /\ file[i].turn = t /\ file[i].kind \in TerminalKinds
      BY <1>0, <1>1 DEF EndsTo, TerminalAt
    <2> QED
      BY <2>1, <2>2 DEF Newest
  <1>6. CASE s.terminals[t] = NoTerminal
    BY <1>3, <1>4, <1>6 DEF NoTerminal
  <1>7. ASSUME NEW i \in NewIndices, file[i].turn = t, file[i].kind \in TerminalKinds,
               s.terminals[t] = TerminalOf(file[i])
        PROVE  /\ s.terminals[t].finalResponse \in {NoText, t}
               /\ TerminalFromEvent(file[i].kind) = s.terminals[t].outcome
               /\ s.terminals[t].outcome \in Outcomes
    <2>1. file[i].text \in {NoText, t}
      BY <1>2, <1>7, WrittenTells
    <2>2. s.terminals[t].finalResponse \in {NoText, t}
      BY <1>7, <2>1 DEF TerminalOf
    <2>3. TerminalFromEvent(file[i].kind) \in Outcomes
      BY <1>0, <1>7, TerminalTyped
    <2> QED
      BY <1>7, <2>2, <2>3 DEF TerminalOf
  <1> QED
    BY <1>3, <1>4, <1>5, <1>6, <1>7

LEMMA InspectionTruthful ==
  ASSUME History, BoundaryHolds, NEW known \in {NoTurn, Real},
         NEW v, v = InspectTurnRecords(file, boundary, known)
  PROVE  /\ v.error = "none" => Truthful(v, known)
         /\ v.error = "none" /\ known = NoTurn => \A t \in PromptTurns : v.turnId = t
         /\ v.turnId \in Turns0
  <1>1. FileTyped
    BY DEF History, BoundaryHolds, FileTyped
  <1>2. PICK s : s = Scan(RecordsAfter(file, boundary))
    OBVIOUS
  <1>3. Found(s, Len(file))
    BY <1>1, <1>2, ScanFinds
  <1>4. /\ Accepted(s, known) => v = Verdict(s, known) /\ v.error = "none"
        /\ ~Accepted(s, known) => v.error # "none" /\ v.turnId = NoTurn
    BY <1>2, InspectionIs
  <1>5. CASE ~Accepted(s, known)
    BY <1>4, <1>5 DEF Turns0
  <1>6. CASE Accepted(s, known)
    <2>1. /\ {v.turnId} = IF known # NoTurn THEN {known}
                          ELSE IF PromptTurns = {} THEN {NoTurn} ELSE PromptTurns
          /\ v.turnId \in Turns0
          /\ v.turnId = NoTurn => v.outcome = "none"
          /\ v.turnId # NoTurn =>
               /\ v.outcome = s.terminals[v.turnId].outcome
               /\ v.finalResponse = IF s.terminals[v.turnId].finalResponse # NoText
                                    THEN s.terminals[v.turnId].finalResponse
                                    ELSE s.agentMessages[v.turnId]
               /\ v.recordedModel = s.contexts[v.turnId]
      BY <1>3, <1>4, <1>6, VerdictIs
    <2>2. /\ known # NoTurn => v.turnId = known
          /\ known = NoTurn /\ v.turnId # NoTurn => v.turnId \in PromptTurns
          /\ known = NoTurn => \A t \in PromptTurns : v.turnId = t
      BY <2>1
    <2>3. known # NoTurn => known \notin boundary.turnIds
      BY <1>6 DEF Accepted
    <2>4. CASE v.turnId = NoTurn
      BY <2>1, <2>2, <2>3, <2>4 DEF Truthful
    <2>5. CASE v.turnId # NoTurn
      <3>1. PICK t \in TurnIds : t = v.turnId
        BY <2>1, <2>5 DEF Turns0
      <3>2. /\ s.agentMessages[t] \in {NoText, t} /\ s.contexts[t] \in {NoText, t}
            /\ s.terminals[t].finalResponse \in {NoText, t}
            /\ s.terminals[t].outcome \in Outcomes \union {"none"}
            /\ s.terminals[t].outcome # "none" =>
                 \E i \in NewIndices : /\ file[i].turn = t
                                       /\ file[i].kind \in TerminalKinds
                                       /\ TerminalFromEvent(file[i].kind) = s.terminals[t].outcome
        BY <1>3, WordsOfTurn
      <3>3. /\ v.outcome = s.terminals[t].outcome
            /\ v.finalResponse \in {NoText, t} /\ v.recordedModel \in {NoText, t}
        BY <2>1, <2>5, <3>1, <3>2
      <3>4. Truthful(v, known)
        BY <2>1, <2>2, <2>3, <3>1, <3>2, <3>3 DEF Truthful
      <3> QED
        BY <2>1, <2>2, <3>4
    <2> QED
      BY <2>1, <2>2, <2>4, <2>5
  <1> QED
    BY <1>5, <1>6

\* A turn that was given the exact prompt.
LEMMA PromptTurnWasAsked ==
  ASSUME History, BoundaryHolds, NEW t \in PromptTurns, t # NoTurn
  PROVE  t \in SamePrompt
  <1>1. PICK i \in NewIndices : /\ file[i].kind = "user_message" /\ file[i].text = ExactPrompt
                                /\ ScopeOf(i) = t
    BY DEF PromptTurns
  <1>2. t \in TurnIds /\ WrittenBy(file[i], t)
    BY <1>1, ScopeWrote
  <1>3. PromptOf(t) = ExactPrompt
    BY <1>1, <1>2, WrittenTells
  <1>4. t # ExactPrompt
    BY <1>2, TurnAssumption
  <1> QED
    BY <1>3, <1>4 DEF PromptOf

----------------------------------------------------------------------------
(* The file grows                                                          *)

\* Nothing that was so of the records of before is changed by one more.
LEMMA FileGrows ==
  ASSUME History, BoundaryHolds, NEW r \in Records, file' = Append(file, r), boundary' = boundary
  PROVE  /\ file' \in Seq(Records) /\ Len(file') = Len(file) + 1
         /\ DOMAIN file = 1..Len(file) /\ DOMAIN file' = 1..(Len(file) + 1)
         /\ \A i \in DOMAIN file : file'[i] = file[i]
         /\ file'[Len(file) + 1] = r
         /\ NewIndices' = NewIndices \union {Len(file) + 1}
         /\ \A i \in NewIndices : ScopeOf(i)' = ScopeOf(i)
  <1>0. PICK n \in Nat : n = Len(file)
    BY DEF History
  <1>1. file \in Seq(Records) /\ DOMAIN file = 1..n
    BY <1>0 DEF History
  <1>2. /\ file' \in Seq(Records) /\ Len(file') = n + 1
        /\ \A i \in 1..n : file'[i] = file[i]
        /\ file'[n + 1] = r
    BY <1>0, <1>1, AppendProperties
  <1>3. DOMAIN file' = 1..(n + 1)
    BY <1>2
  <1>4. PICK b \in 0..n : b = boundary.recordCount
    BY <1>0 DEF BoundaryHolds
  <1>5. NewIndices' = NewIndices \union {n + 1}
    <2>1. NewIndices = {i \in 1..n : i > b}
      BY <1>1, <1>4 DEF NewIndices
    <2>2. NewIndices' = {i \in 1..(n + 1) : i > b}
      BY <1>3, <1>4 DEF NewIndices
    <2> QED
      BY <2>1, <2>2
  <1>6. ASSUME NEW i \in NewIndices PROVE ScopeOf(i)' = ScopeOf(i)
    <2>1. NewIndices \subseteq 1..n
      BY <1>1 DEF NewIndices
    <2>2. Scopes(i) \subseteq 1..n
      BY <2>1 DEF Scopes
    <2>3. Scopes(i)' = Scopes(i)
      <3>1. \A j \in NewIndices' : j <= i => j \in NewIndices
        BY <1>5, <2>1
      <3>2. \A j \in NewIndices : j \in NewIndices' /\ file'[j] = file[j]
        BY <1>2, <1>5, <2>1
      <3>3. Scopes(i)' = {j \in NewIndices' : j <= i /\ file'[j].turn # NoTurn
                                              /\ (file'[j].kind \in ScopingKinds \/ j = i)}
        BY DEF Scopes
      <3>4. Scopes(i) = {j \in NewIndices : j <= i /\ file[j].turn # NoTurn
                                            /\ (file[j].kind \in ScopingKinds \/ j = i)}
        BY DEF Scopes
      <3> QED
        BY <3>1, <3>2, <3>3, <3>4
    <2>4. CASE Scopes(i) = {}
      BY <2>3, <2>4 DEF ScopeOf
    <2>5. CASE Scopes(i) # {}
      <3>1. PICK m \in Scopes(i) : m = Max(Scopes(i))
        BY <2>2, <2>5, GreatestExists
      <3>2. m \in 1..n
        BY <2>2
      <3>3. ScopeOf(i) = file[m].turn /\ ScopeOf(i)' = file'[m].turn
        BY <2>3, <2>5, <3>1 DEF ScopeOf
      <3> QED
        BY <1>2, <3>2, <3>3
    <2> QED
      BY <2>4, <2>5
  <1> QED
    BY <1>0, <1>1, <1>2, <1>3, <1>5, <1>6

LEMMA TruthGrows ==
  ASSUME History, BoundaryHolds, NEW r \in Records, file' = Append(file, r), boundary' = boundary
  PROVE  /\ BoundaryHolds'
         /\ PromptTurns \subseteq PromptTurns'
         /\ \A v, known : Truthful(v, known) => Truthful(v, known)'
  <1>1. /\ Len(file') = Len(file) + 1
        /\ DOMAIN file = 1..Len(file) /\ DOMAIN file' = 1..(Len(file) + 1)
        /\ \A i \in DOMAIN file : file'[i] = file[i]
        /\ NewIndices' = NewIndices \union {Len(file) + 1}
        /\ \A i \in NewIndices : ScopeOf(i)' = ScopeOf(i)
    BY FileGrows
  <1>2. PICK n \in Nat : n = Len(file)
    BY DEF History
  <1>3. BoundaryHolds'
    <2>1. boundary.recordCount \in 0..(n + 1)
      BY <1>2 DEF BoundaryHolds
    <2>2. DOMAIN file' \ NewIndices' = DOMAIN file \ NewIndices
      BY <1>1, <1>2 DEF NewIndices
    <2>3. {file'[i].turn : i \in DOMAIN file' \ NewIndices'}
            = {file[i].turn : i \in DOMAIN file \ NewIndices}
      BY <1>1, <2>2
    <2> QED
      BY <1>1, <1>2, <2>1, <2>3 DEF BoundaryHolds
  <1>4. \A i \in NewIndices : i \in NewIndices' /\ file'[i] = file[i]
    BY <1>1 DEF NewIndices
  <1>5. ASSUME NEW t \in PromptTurns PROVE t \in PromptTurns'
    <2>1. PICK i \in NewIndices : /\ file[i].kind = "user_message" /\ file[i].text = ExactPrompt
                                  /\ t = ScopeOf(i)
      BY DEF PromptTurns
    <2>2. /\ i \in NewIndices' /\ file'[i].kind = "user_message" /\ file'[i].text = ExactPrompt
          /\ t = ScopeOf(i)'
      BY <1>1, <1>4, <2>1
    <2>3. PromptTurns' = {ScopeOf(j)' : j \in {k \in NewIndices' : /\ file'[k].kind = "user_message"
                                                                   /\ file'[k].text = ExactPrompt}}
      BY DEF PromptTurns
    <2> QED
      BY <2>2, <2>3
  <1>6. ASSUME NEW v, NEW known, Truthful(v, known) PROVE Truthful(v, known)'
    <2>1. v.outcome # "none" =>
            \E i \in NewIndices' : /\ file'[i].turn = v.turnId
                                   /\ file'[i].kind \in TerminalKinds
                                   /\ TerminalFromEvent(file'[i].kind) = v.outcome
      BY <1>4, <1>6 DEF Truthful
    <2> QED
      BY <1>5, <1>6, <2>1 DEF Truthful
  <1> QED
    BY <1>3, <1>5, <1>6

\* One more record of the turn that runs, or that opens.
LEMMA HistoryGrows ==
  ASSUME History, BoundaryHolds, NEW t \in TurnIds, NEW r, WrittenBy(r, t),
         open = t \/ OpensTurn(r), Len(file) < MaxRecords,
         file' = Append(file, r), boundary' = boundary, open' = t
  PROVE  History'
  <1>1. r \in Records /\ (r.kind \in ScopingKinds => r.turn = t) /\ t # NoTurn
    BY WrittenTells, RecordAssumption
  <1>2. PICK n \in Nat : n = Len(file)
    BY DEF History
  <1>3. /\ file' \in Seq(Records) /\ Len(file') = n + 1
        /\ DOMAIN file = 1..n /\ DOMAIN file' = 1..(n + 1)
        /\ \A i \in 1..n : file'[i] = file[i]
        /\ file'[n + 1] = r
    BY <1>1, <1>2, FileGrows
  <1>4. Len(file') \in 1..MaxRecords
    BY <1>2, <1>3, TurnAssumption
  <1>5. \A i \in DOMAIN file' : \E w \in TurnIds : WrittenBy(file'[i], w)
    BY <1>3 DEF History
  <1>6. \A i, j \in 1..n : LastOpening(j, i)' => LastOpening(j, i)
    BY <1>3 DEF LastOpening
  <1>7. ASSUME NEW j \in 1..n, LastOpening(j, n + 1)'
        PROVE  file'[j].turn = t
    <2>1. ~OpensTurn(r)
      <3>1. n + 1 \in DOMAIN file' /\ j < n + 1 /\ n + 1 <= n + 1
        BY <1>3
      <3> QED
        BY <1>3, <1>7, <3>1 DEF LastOpening
    <2>2. LastOpening(j, n)
      BY <1>3, <1>7 DEF LastOpening
    <2> QED
      BY <1>1, <1>2, <1>3, <2>1, <2>2 DEF History
  <1>8. LastOpening(n + 1, n + 1)' => file'[n + 1].turn = t
    BY <1>1, <1>3 DEF LastOpening, OpensTurn
  <1>9. \A j \in DOMAIN file' : LastOpening(j, n + 1)' => file'[j].turn = t
    BY <1>3, <1>7, <1>8
  <1>10. ASSUME NEW i \in DOMAIN file', NEW j \in DOMAIN file', LastOpening(j, i)'
         PROVE  WrittenBy(file'[i], file'[j].turn)
    <2>1. CASE i = n + 1
      BY <1>3, <1>9, <1>10, <2>1
    <2>2. CASE i # n + 1
      <3>1. i \in 1..n /\ j \in 1..n
        BY <1>3, <1>10, <2>2 DEF LastOpening
      <3>2. LastOpening(j, i)
        BY <1>6, <1>10, <3>1
      <3> QED
        BY <1>3, <3>1, <3>2 DEF History
    <2> QED
      BY <2>1, <2>2
  <1>11. open' \in Turns0
    BY DEF Turns0
  <1> QED
    BY <1>3, <1>4, <1>5, <1>9, <1>10, <1>11 DEF History

----------------------------------------------------------------------------
(* The watcher                                                             *)

\* The turn that was announced stays the turn that the file tells of; what
\* onTurnId was called with is still so when it returns.
WatcherInvariant ==
  /\ History /\ BoundaryHolds
  /\ phase \in Phases /\ knownTurnId \in {NoTurn, Real}
  /\ emittedTurnId \in Turns0 /\ inspection.turnId \in Turns0
  /\ outcome \in Outcomes \union {"none"}
  /\ phase \in {"boundary", "request"} => knownTurnId = NoTurn /\ emittedTurnId = NoTurn
  /\ emittedTurnId # NoTurn => IF knownTurnId # NoTurn THEN emittedTurnId = knownTurnId
                               ELSE emittedTurnId \in PromptTurns
  /\ phase \in {"onTurnId", "returned"} =>
       Truthful(inspection, knownTurnId) /\ emittedTurnId = inspection.turnId
  /\ phase = "returned" => IsComplete(inspection) /\ outcome = inspection.outcome

LEMMA WatcherBegins == SessionInit => WatcherInvariant
  <1> SUFFICES ASSUME SessionInit PROVE WatcherInvariant
    OBVIOUS
  <1>1. Init /\ Bootstrap \in TurnIds /\ MaxRecords \in Nat \ {0}
    BY TurnAssumption DEF SessionInit
  <1>2. PICK r : r = Record("task_complete", Bootstrap, Bootstrap)
    OBVIOUS
  <1>3. WrittenBy(r, Bootstrap)
    BY <1>2 DEF WrittenBy, TurnRecords
  <1>4. r \in Records /\ ~OpensTurn(r)
    <2>1. r.kind = "task_complete"
      BY <1>2 DEF Record
    <2> QED
      BY <1>1, <1>3, <2>1, WrittenTells DEF OpensTurn, ScopingKinds
  <1>5. file = <<r>> /\ file \in Seq(Records) /\ Len(file) = 1 /\ DOMAIN file = {1} /\ file[1] = r
    BY <1>1, <1>2, <1>4 DEF Init
  <1>6. \A i, j \in DOMAIN file : ~LastOpening(j, i)
    BY <1>4, <1>5 DEF LastOpening
  <1>7. History
    <2>1. Len(file) \in 1..MaxRecords
      BY <1>1, <1>5
    <2>2. \A i \in DOMAIN file : \E t \in TurnIds : WrittenBy(file[i], t)
      BY <1>1, <1>3, <1>5
    <2>3. open \in Turns0
      BY <1>1 DEF Init, Turns0
    <2>4. \A j \in DOMAIN file : ~LastOpening(j, Len(file))
      BY <1>5, <1>6
    <2> QED
      BY <1>5, <1>6, <2>1, <2>2, <2>3, <2>4 DEF History
  <1>8. BoundaryHolds
    <2>1. boundary = [recordCount |-> 0, turnIds |-> {}]
      BY <1>1 DEF Init, BoundaryOf, AllTurnIds
    <2>2. NewIndices = DOMAIN file
      BY <1>5, <2>1 DEF NewIndices
    <2> QED
      BY <1>5, <2>1, <2>2 DEF BoundaryHolds
  <1> QED
    BY <1>1, <1>7, <1>8 DEF WatcherInvariant, Init, Phases, Turns0, Rejected

\* Codex writes.
LEMMA AppendKeepsWatcher ==
  ASSUME WatcherInvariant, NEW t \in TurnIds, NEW r, WrittenBy(r, t), open = t \/ OpensTurn(r),
         Append1(r), open' = t, UNCHANGED watcherVars
  PROVE  WatcherInvariant'
  <1>1. /\ Len(file) < MaxRecords /\ file' = Append(file, r) /\ boundary' = boundary
        /\ UNCHANGED <<phase, knownTurnId, emittedTurnId, inspection, outcome>>
    BY DEF Append1, watcherVars
  <1>2. History /\ BoundaryHolds /\ r \in Records
    BY WrittenTells DEF WatcherInvariant
  <1>3. History'
    BY <1>1, <1>2, HistoryGrows
  <1>4. /\ BoundaryHolds'
        /\ PromptTurns \subseteq PromptTurns'
        /\ \A v, known : Truthful(v, known) => Truthful(v, known)'
    BY <1>1, <1>2, TruthGrows
  <1>5. PICK v, known : /\ v = inspection /\ v = inspection'
                        /\ known = knownTurnId /\ known = knownTurnId'
    BY <1>1
  <1>6. Truthful(inspection, knownTurnId) => Truthful(inspection, knownTurnId)'
    <2>1. Truthful(inspection, knownTurnId) => Truthful(v, known)
      BY <1>5
    <2>2. Truthful(v, known) => Truthful(v, known)'
      BY <1>4
    <2>3. Truthful(v, known)' => Truthful(inspection, knownTurnId)'
      BY <1>5 DEF Truthful
    <2> QED
      BY <2>1, <2>2, <2>3
  <1> QED
    BY <1>1, <1>3, <1>4, <1>6 DEF WatcherInvariant

\* What is said of the file rests on the file and the boundary alone.
LEMMA FileRests ==
  ASSUME UNCHANGED <<file, boundary>>
  PROVE  /\ BoundaryHolds => BoundaryHolds'
         /\ PromptTurns' = PromptTurns
         /\ \A v, known : Truthful(v, known) => Truthful(v, known)'
         /\ History /\ (open' = open \/ open' = NoTurn) => History'
  <1>1. NewIndices' = NewIndices
    BY DEF NewIndices
  <1>2. PromptTurns' = PromptTurns
    BY <1>1 DEF PromptTurns, ScopeOf, Scopes
  <1>3. \A v, known : Truthful(v, known) => Truthful(v, known)'
    BY <1>1, <1>2 DEF Truthful
  <1>4. BoundaryHolds => BoundaryHolds'
    BY <1>1 DEF BoundaryHolds
  <1>5. History /\ (open' = open \/ open' = NoTurn) => History'
    BY DEF History, LastOpening, Turns0
  <1> QED
    BY <1>2, <1>3, <1>4, <1>5

\* A poll of the file.
LEMMA PollKeepsWatcher ==
  ASSUME WatcherInvariant, Poll
  PROVE  WatcherInvariant' /\ (emittedTurnId # NoTurn => emittedTurnId' = emittedTurnId)
  <1>1. PICK known \in {NoTurn, Real} : known = knownTurnId /\ known = knownTurnId'
    BY DEF WatcherInvariant, Poll
  <1>2. PICK v : v = InspectTurnRecords(file, boundary, known)
    OBVIOUS
  <1>3. History /\ BoundaryHolds
    BY DEF WatcherInvariant
  <1>4. /\ v.error = "none" => Truthful(v, known)
        /\ v.error = "none" /\ known = NoTurn => \A t \in PromptTurns : v.turnId = t
        /\ v.turnId \in Turns0
    BY <1>2, <1>3, InspectionTruthful
  <1>5. UNCHANGED <<file, open, boundary>> /\ phase = "watch"
    BY DEF Poll
  <1>6. /\ BoundaryHolds' /\ History'
        /\ PromptTurns' = PromptTurns
        /\ Truthful(v, known) => Truthful(v, known)'
    BY <1>3, <1>5, FileRests
  <1>7. /\ emittedTurnId # NoTurn => IF known # NoTurn THEN emittedTurnId = known
                                     ELSE emittedTurnId \in PromptTurns
        /\ emittedTurnId \in Turns0 /\ inspection.turnId \in Turns0
        /\ outcome \in Outcomes \union {"none"}
    BY <1>1 DEF WatcherInvariant
  <1>8. CASE /\ v.error # "none" /\ phase' = "threw"
             /\ UNCHANGED <<emittedTurnId, inspection, outcome>>
    BY <1>1, <1>6, <1>7, <1>8 DEF WatcherInvariant, Phases
  <1>9. CASE /\ v.error = "none" /\ v.turnId # NoTurn /\ v.turnId # emittedTurnId
             /\ phase' = "onTurnId" /\ emittedTurnId' = v.turnId /\ inspection' = v
             /\ UNCHANGED outcome
    <2>1. Truthful(v, known) /\ Truthful(v, known)'
      BY <1>4, <1>6, <1>9
    <2>2. Truthful(inspection, knownTurnId)'
      BY <1>1, <1>9, <2>1 DEF Truthful
    <2>3. IF known # NoTurn THEN emittedTurnId' = known ELSE emittedTurnId' \in PromptTurns'
      BY <1>6, <1>9, <2>1 DEF Truthful
    <2>4. emittedTurnId = NoTurn
      <3>1. known # NoTurn => v.turnId = known
        BY <2>1 DEF Truthful
      <3> QED
        BY <1>4, <1>7, <1>9, <3>1
    <2> QED
      BY <1>1, <1>4, <1>6, <1>7, <1>9, <2>2, <2>3, <2>4 DEF WatcherInvariant, Phases
  <1>10. CASE /\ v.error = "none" /\ ~(v.turnId # NoTurn /\ v.turnId # emittedTurnId)
              /\ IsComplete(v) /\ inspection' = v /\ phase' = "returned" /\ outcome' = v.outcome
              /\ UNCHANGED emittedTurnId
    <2>1. Truthful(v, known) /\ Truthful(v, known)'
      BY <1>4, <1>6, <1>10
    <2>2. Truthful(inspection, knownTurnId)'
      BY <1>1, <1>10, <2>1 DEF Truthful
    <2>3. emittedTurnId' = v.turnId /\ outcome' \in Outcomes \union {"none"}
      BY <1>10, <2>1 DEF IsComplete, Truthful
    <2>4. IsComplete(inspection)' /\ outcome' = inspection'.outcome
      BY <1>10 DEF IsComplete
    <2> QED
      BY <1>1, <1>4, <1>6, <1>7, <1>10, <2>2, <2>3, <2>4 DEF WatcherInvariant, Phases
  <1>11. \/ /\ v.error # "none" /\ phase' = "threw"
            /\ UNCHANGED <<emittedTurnId, inspection, outcome>>
         \/ /\ v.error = "none" /\ v.turnId # NoTurn /\ v.turnId # emittedTurnId
            /\ phase' = "onTurnId" /\ emittedTurnId' = v.turnId /\ inspection' = v
            /\ UNCHANGED outcome
         \/ /\ v.error = "none" /\ ~(v.turnId # NoTurn /\ v.turnId # emittedTurnId)
            /\ IsComplete(v) /\ inspection' = v /\ phase' = "returned" /\ outcome' = v.outcome
            /\ UNCHANGED emittedTurnId
    BY <1>1, <1>2 DEF Poll, Return
  <1> QED
    BY <1>8, <1>9, <1>10, <1>11

LEMMA WatcherGoesOn ==
  ASSUME WatcherInvariant, Next \/ UNCHANGED vars
  PROVE  WatcherInvariant' /\ (emittedTurnId # NoTurn => emittedTurnId' = emittedTurnId)
  <1>1. ASSUME NEW t \in TurnIds, TurnBegins(t)
        PROVE  WatcherInvariant' /\ emittedTurnId' = emittedTurnId
    <2>1. PICK r : r = Record("task_started", t, NoText)
      OBVIOUS
    <2>2. WrittenBy(r, t) /\ OpensTurn(r)
      BY <2>1, RecordAssumption DEF WrittenBy, OpensTurn, Record, ScopingKinds
    <2>3. Append1(r) /\ open' = t /\ UNCHANGED watcherVars
      BY <1>1, <2>1 DEF TurnBegins
    <2> QED
      BY <2>2, <2>3, AppendKeepsWatcher DEF watcherVars
  <1>2. ASSUME NEW t \in TurnIds, TurnWrites(t)
        PROVE  WatcherInvariant' /\ emittedTurnId' = emittedTurnId
    <2>1. PICK r \in TurnRecords(t) : Append1(r)
      BY <1>2 DEF TurnWrites
    <2>2. WrittenBy(r, t)
      BY <2>1 DEF WrittenBy
    <2>3. open = t /\ open' = t /\ UNCHANGED watcherVars
      BY <1>2 DEF TurnWrites
    <2> QED
      BY <2>1, <2>2, <2>3, AppendKeepsWatcher DEF watcherVars
  <1>3. ASSUME UNCHANGED <<file, boundary>>, open' = open \/ open' = NoTurn
        PROVE  /\ History' /\ BoundaryHolds' /\ PromptTurns' = PromptTurns
               /\ inspection' = inspection /\ knownTurnId' = knownTurnId
                  /\ Truthful(inspection, knownTurnId) => Truthful(inspection, knownTurnId)'
    <2>1. History' /\ BoundaryHolds' /\ PromptTurns' = PromptTurns
      BY <1>3, FileRests DEF WatcherInvariant
    <2>2. ASSUME inspection' = inspection, knownTurnId' = knownTurnId,
                 Truthful(inspection, knownTurnId)
          PROVE  Truthful(inspection, knownTurnId)'
      <3>1. PICK v, known : /\ v = inspection /\ v = inspection'
                            /\ known = knownTurnId /\ known = knownTurnId'
        BY <2>2
      <3>2. Truthful(v, known)
        BY <2>2, <3>1
      <3>3. Truthful(v, known)'
        BY <1>3, <3>2, FileRests
      <3> QED
        BY <3>1, <3>3 DEF Truthful
    <2> QED
      BY <2>1, <2>2
  <1>4. ASSUME UNCHANGED watcherVars, file' = file, open' = open \/ open' = NoTurn
        PROVE  WatcherInvariant' /\ emittedTurnId' = emittedTurnId
    BY <1>3, <1>4 DEF WatcherInvariant, watcherVars
  <1>5. CASE UNCHANGED vars
    BY <1>4, <1>5 DEF vars
  <1>6. ASSUME NEW t \in TurnIds, TurnEnds(t)
        PROVE  WatcherInvariant' /\ emittedTurnId' = emittedTurnId
    BY <1>4, <1>6 DEF TurnEnds
  <1>7. CASE CaptureBoundary
    <2>1. /\ phase = "boundary" /\ phase' = "request" /\ boundary' = BoundaryOf(file)
          /\ UNCHANGED <<file, open, knownTurnId, emittedTurnId, inspection, outcome>>
      BY <1>7 DEF CaptureBoundary
    <2>2. History'
      BY <2>1 DEF WatcherInvariant, History, LastOpening
    <2>3. boundary'.recordCount = Len(file) /\ boundary'.turnIds = AllTurnIds(file)
      BY <2>1 DEF BoundaryOf
    <2>4. Len(file) \in Nat /\ DOMAIN file = 1..Len(file)
      BY DEF WatcherInvariant, History
    <2>5. NewIndices' = {}
      BY <2>1, <2>3, <2>4 DEF NewIndices
    <2>6. BoundaryHolds'
      BY <2>1, <2>3, <2>4, <2>5 DEF BoundaryHolds, AllTurnIds
    <2>7. phase' \in Phases
      BY <2>1 DEF Phases
    <2> QED
      BY <2>1, <2>2, <2>6, <2>7 DEF WatcherInvariant
  <1>8. CASE StartResponse
    <2>1. /\ phase = "request" /\ phase' = "watch" /\ knownTurnId' \in {NoTurn, Real}
          /\ UNCHANGED <<file, open, boundary, emittedTurnId, inspection, outcome>>
      BY <1>8 DEF StartResponse
    <2>2. History' /\ BoundaryHolds'
      BY <1>3, <2>1
    <2>3. phase' \in Phases /\ emittedTurnId' = NoTurn
      BY <2>1 DEF Phases, WatcherInvariant
    <2> QED
      BY <2>1, <2>2, <2>3 DEF WatcherInvariant
  <1>9. CASE Poll
    BY <1>9, PollKeepsWatcher
  <1>10. CASE OnTurnIdReturns
    <2>1. /\ phase = "onTurnId"
          /\ UNCHANGED <<file, open, boundary, knownTurnId, emittedTurnId, inspection>>
      BY <1>10 DEF OnTurnIdReturns
    <2>2. /\ History' /\ BoundaryHolds' /\ PromptTurns' = PromptTurns
          /\ Truthful(inspection, knownTurnId)
          /\ Truthful(inspection, knownTurnId)'
      BY <1>3, <2>1 DEF WatcherInvariant
    <2>3. \/ IsComplete(inspection) /\ phase' = "returned" /\ outcome' = inspection.outcome
          \/ phase' = "watch" /\ outcome' = outcome
      BY <1>10 DEF OnTurnIdReturns, Return
    <2>4. outcome' \in Outcomes \union {"none"}
      BY <2>2, <2>3 DEF Truthful, WatcherInvariant
    <2>5. phase' \in Phases
      BY <2>3 DEF Phases
    <2>6. phase' = "returned" => IsComplete(inspection)' /\ outcome' = inspection'.outcome
      BY <2>1, <2>3 DEF IsComplete
    <2> QED
      BY <2>1, <2>2, <2>3, <2>4, <2>5, <2>6 DEF WatcherInvariant
  <1>11. CASE ReadingFails \/ OnTurnIdThrows \/ DeadlinePasses
    <2>1. /\ phase' \in {"threw", "timedOut"}
          /\ UNCHANGED <<file, open, boundary, knownTurnId, emittedTurnId, inspection, outcome>>
      BY <1>11 DEF ReadingFails, OnTurnIdThrows, DeadlinePasses
    <2>2. History' /\ BoundaryHolds' /\ PromptTurns' = PromptTurns
      BY <1>3, <2>1
    <2> QED
      BY <2>1, <2>2 DEF WatcherInvariant, Phases
  <1> QED
    BY <1>1, <1>2, <1>5, <1>6, <1>7, <1>8, <1>9, <1>10, <1>11 DEF Next

THEOREM WatcherInvariantHolds == SessionSpec => []WatcherInvariant
  <1>1. WatcherInvariant /\ [SessionNext]_<<vars, discoveryVars>> => WatcherInvariant'
    <2>1. [SessionNext]_<<vars, discoveryVars>> => Next \/ UNCHANGED vars
      BY DEF SessionNext, DiscoveryStep, Handover, WatcherStep
    <2> QED
      BY <2>1, WatcherGoesOn
  <1> QED
    BY <1>1, WatcherBegins, PTL DEF SessionSpec

\* The single pass of inspectTurnRecords finds what the positions of the records
\* after the boundary say, whatever Codex and the user have written.
THEOREM InspectionIsRight == SessionSpec => []InspectionMatchesReference
  <1>1. WatcherInvariant => InspectionMatchesReference
    BY InspectionAgrees DEF WatcherInvariant, InspectionMatchesReference
  <1> QED
    BY <1>1, WatcherInvariantHolds, PTL

\* What waitForExactTurn returns is of the turn Aiflow asked for, or of one that
\* was given the very same prompt when the response named no turn; the worker
\* has heard of this turn before.
THEOREM ExactTurnReported == SessionSpec => []ReportsExactTurn
  <1>1. WatcherInvariant => ReportsExactTurn
    <2> SUFFICES ASSUME WatcherInvariant, phase = "returned" PROVE
          /\ emittedTurnId = inspection.turnId
          /\ \/ inspection.turnId = Real
             \/ knownTurnId = NoTurn /\ inspection.turnId \in SamePrompt
          /\ knownTurnId # NoTurn => inspection.turnId \notin boundary.turnIds
          /\ \E i \in NewIndices : /\ file[i].turn = inspection.turnId
                                   /\ file[i].kind \in TerminalKinds
                                   /\ TerminalFromEvent(file[i].kind) = outcome
          /\ inspection.finalResponse \in {NoText, inspection.turnId}
          /\ inspection.recordedModel \in {NoText, inspection.turnId}
      BY DEF ReportsExactTurn
    <2>1. /\ Truthful(inspection, knownTurnId) /\ emittedTurnId = inspection.turnId
          /\ IsComplete(inspection) /\ outcome = inspection.outcome
          /\ History /\ BoundaryHolds /\ knownTurnId \in {NoTurn, Real}
      BY DEF WatcherInvariant
    <2>2. inspection.turnId # NoTurn /\ inspection.outcome # "none"
      BY <2>1 DEF IsComplete
    <2>3. CASE knownTurnId = NoTurn
      <3>1. inspection.turnId \in SamePrompt
        BY <2>1, <2>2, <2>3, PromptTurnWasAsked DEF Truthful
      <3> QED
        BY <2>1, <2>2, <2>3, <3>1 DEF Truthful
    <2>4. CASE knownTurnId # NoTurn
      BY <2>1, <2>2, <2>4 DEF Truthful
    <2> QED
      BY <2>3, <2>4
  <1> QED
    BY <1>1, WatcherInvariantHolds, PTL

\* onTurnId is never called for two turns, although the file grows between polls.
THEOREM OneTurnIsAnnounced == SessionSpec => OneTurnAnnounced
  <1>1. WatcherInvariant /\ [SessionNext]_<<vars, discoveryVars>>
          => [emittedTurnId # NoTurn => emittedTurnId' = emittedTurnId]_vars
    <2>1. [SessionNext]_<<vars, discoveryVars>> => Next \/ UNCHANGED vars
      BY DEF SessionNext, DiscoveryStep, Handover, WatcherStep
    <2> QED
      BY <2>1, WatcherGoesOn
  <1> QED
    BY <1>1, WatcherInvariantHolds, PTL DEF SessionSpec, OneTurnAnnounced

----------------------------------------------------------------------------
(* Types                                                                   *)

LEMMA DiscoveryTyped == SessionInit => Discovery!TypeOK
  <1> SUFFICES ASSUME SessionInit PROVE Discovery!TypeOK
    OBVIOUS
  <1>1. Discovery!Init /\ MaxEvidence \in Nat
    BY SessionAssumption DEF SessionInit
  <1>2. sessions \in [SessionFiles -> Discovery!Evidence]
    BY DiscoveryBegins DEF DiscoveryInvariant
  <1>3. Discovery!Blank \in Discovery!Evidence
    BY DEF Discovery!Blank, Discovery!Evidence
  <1> QED
    BY <1>1, <1>2, <1>3 DEF Discovery!Init, Discovery!TypeOK, Discovery!Files, Discovery!Stages,
                            SessionFiles

LEMMA DiscoveryStaysTyped ==
  ASSUME Discovery!TypeOK, DiscoveryInvariant, DiscoveryStep
  PROVE  Discovery!TypeOK'
  <1>1. DiscoveryInvariant'
    BY DiscoveryGoesOn
  <1>2. sessions' \in [Discovery!Files -> Discovery!Evidence]
    BY <1>1 DEF DiscoveryInvariant, SessionFiles, Discovery!Files
  <1> USE DEF Discovery!TypeOK, Discovery!codexVars, Discovery!seekVars, Discovery!workVars
  <1>3. ASSUME NEW f \in Discovery!Files, Discovery!SessionCreated(f) PROVE Discovery!TypeOK'
    BY <1>2, <1>3 DEF Discovery!SessionCreated, Discovery!Files
  <1>4. ASSUME NEW f \in Discovery!Files, Discovery!SessionMoves(f) PROVE Discovery!TypeOK'
    BY <1>2, <1>4 DEF Discovery!SessionMoves
  <1>5. ASSUME NEW f \in Discovery!Files, Discovery!RecordAppended(f) PROVE Discovery!TypeOK'
    <2>1. records < MaxEvidence /\ records' = records + 1 /\ UNCHANGED <<present, moved, Discovery!seekVars>>
      BY <1>5 DEF Discovery!RecordAppended
    <2>2. records' \in 0..MaxEvidence
      BY <2>1, SessionAssumption
    <2> QED
      BY <1>2, <2>1, <2>2
  <1>6. CASE Discovery!WalkFails
    BY <1>2, <1>6 DEF Discovery!WalkFails, Discovery!Stages
  <1>7. CASE Discovery!TakeSnapshot
    BY <1>2, <1>7 DEF Discovery!TakeSnapshot, Discovery!Stages
  <1>8. CASE Discovery!PollStarts
    BY <1>2, <1>8 DEF Discovery!PollStarts, Discovery!Stages
  <1>9. CASE Discovery!List
    BY <1>2, <1>9 DEF Discovery!List, Discovery!Stages, Discovery!Astray
  <1>10. CASE Discovery!Matched
    <2>1. stage' \in {"threw", "validate", "pause"}
      BY <1>10, MatchedEnds DEF SessionFiles, Discovery!Files
    <2>2. UNCHANGED <<present, moved, records, settled, snapshot, unread, matches, result>>
      BY <1>10 DEF Discovery!Matched
    <2> QED
      BY <1>2, <2>1, <2>2 DEF Discovery!Stages
  <1>11. CASE Discovery!DeadlinePasses
    BY <1>2, <1>11 DEF Discovery!DeadlinePasses, Discovery!Stages
  <1>12. ASSUME NEW f \in Discovery!Files, Discovery!Read(f) PROVE Discovery!TypeOK'
    <2>1. /\ unread' \subseteq unread /\ matches' \subseteq matches \union {f}
          /\ stage' \in {stage, "threw"}
          /\ UNCHANGED <<present, moved, records, settled, snapshot, result>>
      BY <1>12 DEF Discovery!Read
    <2> QED
      BY <1>2, <2>1 DEF Discovery!Stages
  <1>13. ASSUME NEW f \in Discovery!Files, Discovery!Validate(f) PROVE Discovery!TypeOK'
    <2>1. /\ stage' \in {"threw", "found", "pause"}
          /\ result' = [file |-> {f}, evidence |-> sessions[f]] \/ result' = result
          /\ UNCHANGED <<present, moved, records, settled, snapshot, unread, matches>>
      BY <1>13 DEF Discovery!Validate
    <2>2. sessions[f] \in Discovery!Evidence
      OBVIOUS
    <2> QED
      BY <1>2, <2>1, <2>2 DEF Discovery!Stages
  <1> QED
    BY <1>3, <1>4, <1>5, <1>6, <1>7, <1>8, <1>9, <1>10, <1>11, <1>12, <1>13
       DEF DiscoveryStep, Discovery!Next

\* Every variable of the two halves keeps its type, and the watcher begins in
\* its initial state whatever discovery has gone through.
THEOREM SessionTypeCorrect == SessionSpec => []SessionTypeOK
  <1> DEFINE Halves == HandedOver \/ (Discovery!TypeOK /\ Init)
  <1>1. SessionInit => Halves
    BY DiscoveryTyped DEF SessionInit
  <1>2. DiscoveryInvariant /\ Halves /\ [SessionNext]_<<vars, discoveryVars>> => Halves'
    <2> SUFFICES ASSUME DiscoveryInvariant, Halves, [SessionNext]_<<vars, discoveryVars>>
                 PROVE  Halves'
      OBVIOUS
    <2>1. CASE DiscoveryStep
      <3>1. Discovery!TypeOK /\ Init /\ Discovery!Next /\ UNCHANGED vars
        BY <2>1 DEF DiscoveryStep
      <3>2. Discovery!TypeOK'
        BY <2>1, <3>1, DiscoveryStaysTyped
      <3>3. Init'
        BY <3>1 DEF Init, vars, watcherVars
      <3> QED
        BY <3>2, <3>3
    <2>2. CASE Handover
      BY <2>2 DEF Handover, HandedOver
    <2>3. CASE WatcherStep
      BY <2>3 DEF WatcherStep, HandedOver, discoveryVars
    <2>4. CASE UNCHANGED <<vars, discoveryVars>>
      <3>1. CASE HandedOver
        BY <2>4, <3>1 DEF HandedOver, discoveryVars
      <3>2. CASE Discovery!TypeOK /\ Init
        <4>1. Discovery!TypeOK'
          BY <2>4, <3>2 DEF Discovery!TypeOK, discoveryVars
        <4>2. Init'
          BY <2>4, <3>2 DEF Init, vars, watcherVars
        <4> QED
          BY <4>1, <4>2
      <3> QED
        BY <3>1, <3>2
    <2> QED
      BY <2>1, <2>2, <2>3, <2>4 DEF SessionNext
  <1>3. WatcherInvariant => TypeOK
    <2> SUFFICES ASSUME WatcherInvariant PROVE TypeOK
      OBVIOUS
    <2>1. /\ file \in Seq(Records) /\ Len(file) <= MaxRecords
          /\ open \in TurnIds \union {NoTurn}
      <3>1. /\ file \in Seq(Records) /\ Len(file) \in 1..MaxRecords /\ open \in Turns0
        BY DEF WatcherInvariant, History
      <3> QED
        BY <3>1 DEF Turns0
    <2>2. boundary.recordCount \in 0..Len(file)
      BY DEF WatcherInvariant, BoundaryHolds
    <2>3. boundary.turnIds \subseteq TurnIds
      <3>1. \A i \in DOMAIN file : file[i].turn \in Turns0
        <4>1. ASSUME NEW i \in DOMAIN file PROVE file[i].turn \in Turns0
          <5>1. file[i] \in Records
            BY <2>1
          <5> QED
            BY <5>1 DEF Records, Turns0
        <4> QED
          BY <4>1
      <3>2. boundary.turnIds = {file[i].turn : i \in DOMAIN file \ NewIndices} \ {NoTurn}
        BY DEF WatcherInvariant, BoundaryHolds
      <3> QED
        BY <3>1, <3>2 DEF Turns0
    <2>4. /\ phase \in Phases /\ outcome \in Outcomes \union {"none"}
          /\ {knownTurnId, emittedTurnId, inspection.turnId} \subseteq TurnIds \union {NoTurn}
      BY TurnAssumption DEF WatcherInvariant, Turns0
    <2> QED
      BY <2>1, <2>2, <2>3, <2>4 DEF TypeOK
  <1>4. WatcherInvariant /\ Halves => SessionTypeOK
    BY <1>3 DEF SessionTypeOK
  <1> HIDE DEF Halves
  <1> QED
    BY <1>1, <1>2, <1>4, DiscoveryInvariantHolds, WatcherInvariantHolds, PTL DEF SessionSpec
=============================================================================
