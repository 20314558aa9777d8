---------------------------- MODULE CodexSession ----------------------------
(***************************************************************************)
(* The session store as execute() of src/officialCodexWorker.ts uses it:   *)
(* BootstrapSession finds the file of the conversation, then               *)
(* ExactTurnWatcher takes its boundary and follows the turn in it.  The    *)
(* two keep their own view of the file: the evidence before, the records   *)
(* after.                                                                  *)
(***************************************************************************)
EXTENDS ExactTurnWatcher

CONSTANTS Old, New, MaxEvidence, MaxOdd   \* those of BootstrapSession

\* A directory holds finitely many files.
ASSUME SessionAssumption ==
  /\ Old \intersect New = {} /\ IsFiniteSet(Old \union New)
  /\ {MaxEvidence, MaxOdd} \subseteq Nat

VARIABLES sessions, present, moved, settled, records, stage,
          snapshot, unread, matches, result

discoveryVars == <<sessions, present, moved, settled, records, stage,
                   snapshot, unread, matches, result>>

Discovery == INSTANCE BootstrapSession WITH MaxRecords <- MaxEvidence

\* The bootstrap turn runs until the watcher's Codex ends it.
SessionInit == Init /\ open = Bootstrap /\ Discovery!Init

HandedOver == stage = "handedOver"

DiscoveryStep == ~HandedOver /\ Discovery!Next /\ UNCHANGED vars

\* waitForBootstrapSession returns; what discovery has learnt but for the path
\* is not used any more.
Handover ==
  /\ stage = "found"
  /\ stage' = "handedOver"
  /\ sessions' = [f \in Old \union New |-> Discovery!Blank]
  /\ present' = Old /\ moved' = {} /\ settled' = {} /\ records' = 0
  /\ snapshot' = [paths |-> {}, identities |-> {}]
  /\ unread' = {} /\ matches' = {}
  /\ result' = [file |-> {}, evidence |-> Discovery!Blank]
  /\ UNCHANGED vars

WatcherStep == HandedOver /\ Next /\ UNCHANGED discoveryVars

SessionNext == DiscoveryStep \/ Handover \/ WatcherStep

SessionSpec == SessionInit /\ [][SessionNext]_<<vars, discoveryVars>>

----------------------------------------------------------------------------
(* Properties                                                              *)

\* Both halves keep their types; the worker's half begins with the watcher's
\* initial state whatever discovery went through.
SessionTypeOK ==
  /\ TypeOK
  /\ HandedOver \/ (Discovery!TypeOK /\ Init)

\* The conversation that Aiflow goes on in is one that it made: see
\* BootstrapSession.
BootstrapCorrelated == Discovery!BootstrapCorrelated

\* Looking for it fails only over something irregular: see BootstrapSession.
NoFalseAlarm == Discovery!NoFalseAlarm
=============================================================================
