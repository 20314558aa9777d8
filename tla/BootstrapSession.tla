-------------------------- MODULE BootstrapSession --------------------------
(***************************************************************************)
(* Finding the conversation that Codex has opened for a bootstrap          *)
(* (src/sessionStore.ts: snapshotSessions, waitForBootstrapSession): the   *)
(* sessions directory is listed and read file by file while Codex and the  *)
(* user create sessions, append to them and move them.                     *)
(*                                                                         *)
(* What a file says is the evidence that inspectBootstrapRecords counts in *)
(* it, in any order.  The nonce is fresh, its marker is AIFLOW_BOOTSTRAP_  *)
(* and the nonce; "contexts" and "terminals" are those of the turn that    *)
(* completes with the marker.                                              *)
(***************************************************************************)
EXTENDS Integers, FiniteSets

CONSTANTS Old, New,   \* disjoint: session files that exist at first, and later ones
          MaxRecords, \* bound on the records appended while Aiflow looks
          MaxOdd      \* bound on the sessions that are not as Codex leaves them

Files == Old \union New

VARIABLES
  sessions,   \* the evidence of each session file
  present,    \* files there are
  moved,      \* files that now have another path
  settled,    \* those of them that the last walk of the directory lists under it
  records,    \* number of records appended so far
  stage,      \* where run() is: see Stages
  snapshot,   \* the SessionSnapshot: its paths and its identities
  unread,     \* candidates still to be read in this poll
  matches,    \* those read that contain the nonce
  result      \* the evidence that was accepted, and the file

codexVars == <<sessions, present, moved, records>>
seekVars == <<stage, settled, snapshot, unread, matches, result>>
workVars == <<snapshot, unread, matches, result>>
vars == <<codexVars, seekVars>>

Evidence ==
  [nonce : BOOLEAN, metas : 0..2, id : {"own", "none", "conflicting"},
   contexts : 0..2, cwd : {"workspace", "elsewhere", "none"},
   markers : 0..2, hasTurn : BOOLEAN, terminals : 0..1, readable : BOOLEAN]

Blank == [nonce |-> FALSE, metas |-> 0, id |-> "none", contexts |-> 0, cwd |-> "none",
          markers |-> 0, hasTurn |-> TRUE, terminals |-> 0, readable |-> TRUE]

\* A walk of the directory, the pause before the next poll, the reading of the
\* candidates and the second reading of the match; then how it ended.
Stages == {"snapshot", "pause", "list", "read", "validate", "found", "threw", "timedOut"}

Looking == stage \in Stages \ {"found", "threw", "timedOut"}

Init ==
  /\ sessions = [f \in Files |-> IF f \in Old THEN [Blank EXCEPT !.metas = 1, !.id = "own"]
                                  ELSE Blank]
  /\ present = Old /\ moved = {} /\ settled = {} /\ records = 0
  /\ stage = "snapshot" /\ snapshot = [paths |-> {}, identities |-> {}]
  /\ unread = {} /\ matches = {}
  /\ result = [file |-> {}, evidence |-> Blank]

----------------------------------------------------------------------------
(* inspectBootstrapRecords                                                 *)

\* The turn is known from a single completion with the exact marker.
TurnKnown(e) == e.markers = 1 /\ e.hasTurn

\* A conversation identifier or a context that is not there yet is an error.
InvalidBug(e) ==
  \/ e.markers > 1
  \/ e.markers = 1 /\ ~e.hasTurn
  \/ e.metas # 1 \/ e.id # "own"
  \/ TurnKnown(e) /\ (e.contexts # 1 \/ e.cwd = "none" \/ e.terminals > 0)

\* validationError.  Evidence that is only missing is no error.
Invalid(e) ==
  \/ e.markers > 1
  \/ e.markers = 1 /\ ~e.hasTurn
  \/ e.metas > 1
  \/ e.metas = 1 /\ e.id # "own"
  \/ TurnKnown(e) /\ \/ e.contexts > 1
                     \/ e.contexts = 1 /\ e.cwd = "none"
                     \/ e.terminals > 0

\* conversationId, recordedCwd and turnId are all there.
Correlated(e) == TurnKnown(e) /\ e.metas = 1 /\ e.contexts = 1

----------------------------------------------------------------------------
(* Codex and the user (not in src/)                                        *)

\* A session with evidence that contradicts itself or says too much, or that
\* cannot be read.
OddEvidence(e) ==
  \/ ~e.readable \/ ~e.hasTurn
  \/ e.metas > 1 \/ e.contexts > 1 \/ e.markers > 1 \/ e.terminals > 0
  \/ e.metas > 0 /\ e.id # "own"
  \/ e.contexts > 0 /\ e.cwd # "workspace"

Odd == moved \union {f \in Files : OddEvidence(sessions[f])}

SessionCreated(f) ==
  /\ Looking /\ f \in New \ present
  /\ present' = present \union {f}
  /\ UNCHANGED <<sessions, moved, records, seekVars>>

\* A session is renamed, for instance into an archive.
SessionMoves(f) ==
  /\ Looking /\ f \in present \ moved
  /\ moved' = moved \union {f}
  /\ UNCHANGED <<sessions, present, records, seekVars>>
  /\ Cardinality(Odd') <= MaxOdd

\* One more record, of a kind that matters; nobody knows the nonce before the
\* snapshot has been taken.
RecordAppended(f) ==
  LET e == sessions[f]
      meta(id) == [e EXCEPT !.metas = @ + 1, !.id = id]
      context(cwd) == [e EXCEPT !.contexts = @ + 1, !.cwd = cwd]
      marker(turn) == [e EXCEPT !.nonce = TRUE, !.markers = @ + 1, !.hasTurn = turn]
  IN /\ Looking /\ stage # "snapshot" /\ f \in present
     /\ records < MaxRecords /\ records' = records + 1
     /\ \E next \in Evidence \intersect
            ({meta(id) : id \in {"own", "none", "conflicting"}}
             \union {context(cwd) : cwd \in {"workspace", "elsewhere", "none"}}
             \union {marker(turn) : turn \in BOOLEAN}
             \union {[e EXCEPT !.nonce = TRUE], [e EXCEPT !.terminals = 1],
                     [e EXCEPT !.readable = FALSE]}) :
          /\ next # e
          /\ sessions' = [sessions EXCEPT ![f] = next]
     /\ UNCHANGED <<present, moved, seekVars>>
     /\ Cardinality(Odd') <= MaxOdd

----------------------------------------------------------------------------
(* snapshotSessions and waitForBootstrapSession                            *)

PathOf(f) == <<f, f \in moved>>

\* Files that were moved since the directory was walked: a walk that goes on may
\* have missed them, and where they were listed they are no more.
Astray == moved \ settled

\* A file went away between its directory entry and its stat.
WalkFails ==
  /\ stage \in {"snapshot", "list"} /\ Astray # {}
  /\ stage' = "threw"
  /\ UNCHANGED <<codexVars, settled, workVars>>

\* The snapshot of what the walk met.  A session that moves behind the walk is
\* not in it.
TakeSnapshot ==
  /\ stage = "snapshot"
  /\ \E missed \in SUBSET Astray :
       snapshot' = [paths |-> {PathOf(f) : f \in present \ missed},
                    identities |-> present \ missed]
  /\ stage' = "pause"
  /\ UNCHANGED <<codexVars, settled, unread, matches, result>>

PollStarts ==
  /\ stage = "pause"
  /\ stage' = "list" /\ settled' = moved
  /\ UNCHANGED <<codexVars, workVars>>

\* A path that the snapshot does not have is new.
IsNewBug(f) == PathOf(f) \notin snapshot.paths
IsNew(f) == PathOf(f) \notin snapshot.paths /\ f \notin snapshot.identities

\* findNewSessionPaths.  A file that moved meanwhile may have been missed, or
\* listed under either path.
List ==
  /\ stage = "list"
  /\ \E missed \in SUBSET Astray, current \in SUBSET Astray :
       /\ unread' = {f \in present \ missed : IsNew(f)}
       /\ settled' = settled \union current
  /\ matches' = {}
  /\ stage' = "read"
  /\ UNCHANGED <<codexVars, snapshot, result>>

\* Too large, not JSON lines, or not there any more.
CannotRead(f) == ~sessions[f].readable \/ f \in Astray

\* findBootstrapMatches reads the candidates one after the other.  Any of them
\* that cannot be read ends the wait, correlated or not.
Read(f) ==
  /\ stage = "read" /\ f \in unread
  /\ unread' = unread \ {f}
  /\ \/ CannotRead(f) /\ stage' = "threw" /\ UNCHANGED matches
     \/ /\ ~CannotRead(f)
        /\ matches' = matches \union {g \in {f} : sessions[g].nonce}
        /\ UNCHANGED stage
  /\ UNCHANGED <<codexVars, settled, snapshot, result>>

Matched ==
  /\ stage = "read" /\ unread = {}
  /\ stage' = CASE Cardinality(matches) > 1 -> "threw"
                [] Cardinality(matches) = 1 -> "validate"
                [] matches = {}             -> "pause"
  /\ UNCHANGED <<codexVars, settled, workVars>>

\* The match is read again, and this time its evidence is judged.
Validate(f) ==
  LET e == sessions[f]
      refused == CannotRead(f) \/ Invalid(e) \/ (Correlated(e) /\ e.cwd # "workspace")
  IN
  /\ stage = "validate" /\ f \in matches
  /\ stage' = IF refused THEN "threw" ELSE IF Correlated(e) THEN "found" ELSE "pause"
  /\ result' = IF stage' = "found" THEN [file |-> {f}, evidence |-> e] ELSE result
  /\ UNCHANGED <<codexVars, settled, snapshot, unread, matches>>

DeadlinePasses ==
  /\ stage = "pause"
  /\ stage' = "timedOut"
  /\ UNCHANGED <<codexVars, settled, workVars>>

Next ==
  \/ \E f \in Files : SessionCreated(f) \/ SessionMoves(f) \/ RecordAppended(f)
  \/ TakeSnapshot \/ WalkFails \/ PollStarts \/ List \/ Matched \/ DeadlinePasses
  \/ \E f \in Files : Read(f) \/ Validate(f)

Spec == Init /\ [][Next]_vars

----------------------------------------------------------------------------
(* Properties                                                              *)

TypeOK ==
  /\ sessions \in [Files -> Evidence]
  /\ Old \subseteq present /\ present \subseteq Files
  /\ settled \subseteq moved /\ moved \subseteq present
  /\ records \in 0..MaxRecords
  /\ stage \in Stages
  /\ snapshot.identities \subseteq Files /\ unread \subseteq Files /\ matches \subseteq Files
  /\ result.file \subseteq Files /\ result.evidence \in Evidence

\* The conversation that Aiflow goes on in (waitForBootstrapSession returns it):
\* a session that the snapshot did not know, whatever was moved since or resumed,
\* with the nonce, one conversation identifier, and one completion that says the
\* marker, of a turn that ended once and ran in the open workspace.  It is the
\* only new session in which this poll met the nonce.
BootstrapCorrelated ==
  stage = "found" =>
    /\ \E f \in present \ snapshot.identities : result.file = {f} /\ matches = {f}
    /\ LET e == result.evidence IN
       /\ e.nonce /\ e.markers = 1 /\ e.hasTurn /\ e.terminals = 0
       /\ e.metas = 1 /\ e.id = "own"
       /\ e.contexts = 1 /\ e.cwd = "workspace"

\* The wait ends with an error only over something irregular: a file on the
\* move, a session that cannot be read, the nonce in two sessions, evidence that
\* contradicts itself.  A session that is still being written never ends it.
Irregular ==
  \/ moved # {}
  \/ Cardinality({f \in present : sessions[f].nonce}) > 1
  \/ \E f \in present : OddEvidence(sessions[f]) /\ (sessions[f].nonce \/ ~sessions[f].readable)

NoFalseAlarm == stage = "threw" => Irregular
=============================================================================
