--------------------- MODULE OfficialCodexWorkerProofs ---------------------
(***************************************************************************)
(* Theorems about OfficialCodexWorker for any number of calls of run() and *)
(* of cancel(): types and mutual exclusion first, each invariant on top of *)
(* the ones before it; then cancellation, clean-up and refinement.  These  *)
(* rest on one inductive invariant, WorkerInvariant, which says what a run *)
(* holds at each of its awaits, how its cancellation stands to its turn,   *)
(* and which cancels are remembered.                                       *)
(***************************************************************************)
EXTENDS OfficialCodexWorker, TLAPS

----------------------------------------------------------------------------
(* The pure operators on ActiveRun objects                                 *)

LEMMA NewActiveRunType ==
  ASSUME NEW b \in BOOLEAN
  PROVE  NewActiveRun(b) \in ActiveRuns
  BY DEF NewActiveRun, ActiveRuns

\* The assignments to the fields of an ActiveRun keep its type.
LEMMA ActiveRunUpdates ==
  ASSUME NEW a \in ActiveRuns, NEW b \in BOOLEAN
  PROVE  /\ [a EXCEPT !.conversationId = b] \in ActiveRuns
         /\ [a EXCEPT !.ownerClientId = b] \in ActiveRuns
         /\ [a EXCEPT !.realTurnId = b] \in ActiveRuns
         /\ [a EXCEPT !.cancelRequested = b] \in ActiveRuns
         /\ \A i \in {"connecting", "open", "closed"} :
              /\ [a EXCEPT !.ipc = i] \in ActiveRuns
              /\ [a EXCEPT !.conversationId = b, !.ipc = i] \in ActiveRuns
         /\ \A p \in {"confirmed", "rejected"} :
              /\ [a EXCEPT !.cancellation = p] \in ActiveRuns
              /\ [a EXCEPT !.ipc = "closed", !.cancellation = p] \in ActiveRuns
         /\ [a EXCEPT !.ipc = "closed",
                      !.cancellation = IF @ = "pending" THEN "rejected" ELSE @] \in ActiveRuns
  BY DEF ActiveRuns

\* dispose() keeps what the worker knows of the turn and never leaves an
\* interrupt pending or a socket open, unless the client was disposed before.
LEMMA DisposeIpcFacts ==
  ASSUME NEW a \in ActiveRuns
  PROVE  LET d == DisposeIpc(a) IN
         /\ d \in ActiveRuns
         /\ d.cancelRequested = a.cancelRequested
         /\ d.cancellation \in {a.cancellation, "rejected"}
         /\ d.cancellation = "rejected" => a.cancellation # "none"
         /\ ~a.disposed /\ a.ipc # "none" => d.cancellation # "pending"
         /\ d.ipc = IF ~a.disposed /\ a.ipc = "open" THEN "closed" ELSE a.ipc
         /\ d.disposed = (a.disposed \/ a.ipc # "none")
         /\ d.conversationId = a.conversationId
         /\ d.ownerClientId = a.ownerClientId
         /\ d.realTurnId = a.realTurnId
  BY DEF DisposeIpc, ActiveRuns

\* The synchronous part of maybeCancel only ever moves a promise that does not
\* exist yet, and only for a cancelled run whose turn is known.
LEMMA AfterMaybeCancelFacts ==
  ASSUME NEW a \in ActiveRuns
  PROVE  LET m == AfterMaybeCancel(a) IN
         /\ m \in ActiveRuns
         /\ a.cancellation # "none" => m = a
         /\ ~MustCancel(a) => m = a
         /\ MustCancel(a) => m.cancellation # "none"
         /\ SendsInterrupt(a) => a.cancelRequested /\ a.cancellation = "none"
                                 /\ m.cancellation = "pending"
         /\ m.cancelRequested = a.cancelRequested
         /\ m.ipc = a.ipc /\ m.disposed = a.disposed
         /\ m.conversationId = a.conversationId
         /\ m.ownerClientId = a.ownerClientId
         /\ m.realTurnId = a.realTurnId
         /\ m.cancellation = "pending" => a.ipc = "open" \/ a.cancellation = "pending"
         /\ m.cancellation = "confirmed" => a.cancellation = "confirmed"
  BY DEF AfterMaybeCancel, MustCancel, SendsInterrupt, Addressable, ActiveRuns

----------------------------------------------------------------------------
(* Helper steps keep the types                                             *)

LEMMA FinishType ==
  ASSUME TypeOK, NEW r \in Runs, NEW a \in ActiveRuns,
         NEW res \in Outcomes \union Failures, FinishWith(r, a, res)
  PROVE  /\ active' \in Runs \union {NoRun}
         /\ runLock' \in BOOLEAN
         /\ cancelRequestedBeforeActive' \in BOOLEAN
         /\ activeRun' \in [Runs -> ActiveRuns]
         /\ pc' \in [Runs -> Phases]
         /\ result' \in [Runs -> Outcomes \union Failures \union {"none", "RUN_ACTIVE"}]
         /\ tempFile' \subseteq Runs
  <1>1. DisposeIpc(a) \in ActiveRuns
    BY DisposeIpcFacts
  <1>2. res \in Outcomes \union Failures \union {"none", "RUN_ACTIVE"}
    OBVIOUS
  <1> QED
    BY <1>1, <1>2 DEF FinishWith, Goto, TypeOK, Phases

LEMMA MaybeCancelType ==
  ASSUME TypeOK, NEW r \in Runs, NEW a \in ActiveRuns, MaybeCancel(r, a)
  PROVE  /\ activeRun' \in [Runs -> ActiveRuns]
         /\ interrupt' \in [Runs -> {"none", "sent", "exact", "other", "error"}]
         /\ interrupts' \in [Runs -> Nat]
  <1>1. AfterMaybeCancel(a) \in ActiveRuns
    BY AfterMaybeCancelFacts
  <1>2. activeRun' \in [Runs -> ActiveRuns]
    BY <1>1 DEF MaybeCancel, TypeOK
  <1>3. CASE SendsInterrupt(a)
    BY <1>2, <1>3 DEF MaybeCancel, TypeOK
  <1>4. CASE ~SendsInterrupt(a)
    BY <1>2, <1>4 DEF MaybeCancel, TypeOK
  <1> QED
    BY <1>3, <1>4

LEMMA RefuseType ==
  ASSUME TypeOK, NEW r \in Runs, NEW res \in {"rejected", "RUN_ACTIVE"}, Refuse(r, res)
  PROVE  TypeOK'
  BY DEF Refuse, Goto, TypeOK, Phases, Failures, workerVars, ownerVars

LEMMA EnterWorkerType ==
  ASSUME TypeOK, NEW r \in Runs, EnterWorker(r)
  PROVE  TypeOK'
  BY RefuseType DEF EnterWorker, Goto, TypeOK, Phases, Section, ownerVars

LEMMA ServiceStepType ==
  ASSUME TypeOK, NEW r \in Runs, ServiceStep(r)
  PROVE  TypeOK'
  <1>1. CASE ServiceRun(r)
    BY <1>1, RefuseType
    DEF ServiceRun, Goto, TypeOK, Phases, ServicePhases, workerVars, ownerVars
  <1>2. CASE RequestAuthorized(r)
    BY <1>2 DEF RequestAuthorized, Goto, TypeOK, Phases, ServicePhases, workerVars, ownerVars
  <1>3. CASE ServiceRefuses(r)
    BY <1>3, RefuseType DEF ServiceRefuses
  <1>4. CASE ExtensionActivated(r)
    BY <1>4, RefuseType, EnterWorkerType DEF ExtensionActivated
  <1> QED
    BY <1>1, <1>2, <1>3, <1>4 DEF ServiceStep

LEMMA PollType ==
  ASSUME TypeOK, NEW r \in Runs, Poll(r)
  PROVE  TypeOK'
  <1>1. PICK seen \in SessionShows(r) : Poll(r)!2!(seen)
    BY DEF Poll
  <1> DEFINE a == [activeRun[r] EXCEPT !.realTurnId = TRUE]
  <1>2. a \in ActiveRuns
    BY ActiveRunUpdates DEF TypeOK
  <1>3. seen.outcome \in Outcomes \union {"none"}
    BY DEF SessionShows
  <1>4. cancel' = cancel /\ turn' = turn /\ start' = start
    BY DEF Poll
  <1>5. CASE watcher[r].emitted
    <2>1. FinishWith(r, a, seen.outcome) /\ seen.outcome # "none"
          /\ UNCHANGED <<watcher, interrupt, interrupts>>
      BY <1>1, <1>5
    <2> HIDE DEF a
    <2> QED
      BY <1>2, <1>3, <1>4, <2>1, FinishType DEF TypeOK
  <1>6. CASE ~watcher[r].emitted /\ (MustCancel(a) \/ seen.outcome = "none")
    <2>1. /\ watcher' = [watcher EXCEPT ![r] =
                           [emitted |-> TRUE, outcome |-> seen.outcome]]
          /\ MaybeCancel(r, a)
          /\ Goto(r, IF MustCancel(a) THEN "watchCancel" ELSE "watch")
          /\ UNCHANGED <<workerVars, result, tempFile>>
      BY <1>1, <1>6
    <2> HIDE DEF a
    <2>2. pc' \in [Runs -> Phases]
      BY <2>1 DEF Goto, TypeOK, Phases, Section, ActivePhases
    <2>3. watcher' \in [Runs -> [emitted : BOOLEAN, outcome : Outcomes \union {"none"}]]
      BY <1>3, <2>1 DEF TypeOK
    <2> QED
      BY <1>2, <1>4, <2>1, <2>2, <2>3, MaybeCancelType DEF TypeOK, workerVars
  <1>7. CASE ~watcher[r].emitted /\ ~(MustCancel(a) \/ seen.outcome = "none")
    <2>1. /\ watcher' = [watcher EXCEPT ![r] =
                           [emitted |-> TRUE, outcome |-> seen.outcome]]
          /\ FinishWith(r, a, seen.outcome)
          /\ UNCHANGED <<interrupt, interrupts>>
      BY <1>1, <1>7
    <2> HIDE DEF a
    <2>2. watcher' \in [Runs -> [emitted : BOOLEAN, outcome : Outcomes \union {"none"}]]
      BY <1>3, <2>1 DEF TypeOK
    <2> QED
      BY <1>2, <1>3, <1>4, <1>7, <2>1, <2>2, FinishType DEF TypeOK
  <1> QED
    BY <1>5, <1>6, <1>7

LEMMA RunStepType ==
  ASSUME TypeOK, NEW r \in Runs, RunStep(r)
  PROVE  TypeOK'
  <1> USE DEF Goto, Phases, Section, ActivePhases, BootstrapPhases, RequestPhases,
              workerVars, ownerVars
  <1>1. CASE WorkerRun(r)
    BY <1>1, EnterWorkerType DEF WorkerRun
  <1>2. CASE WorkspaceAuthorized(r)
    <2>1. NewActiveRun(cancelRequestedBeforeActive) \in ActiveRuns
      BY NewActiveRunType DEF TypeOK
    <2> QED
      BY <1>2, <2>1 DEF WorkspaceAuthorized, TypeOK
  <1>3. CASE BootstrapPrepared(r)
    BY <1>3 DEF BootstrapPrepared, TypeOK
  <1>4. CASE BootstrapInvoked(r)
    BY <1>4 DEF BootstrapInvoked, TypeOK
  <1>5. CASE SessionFound(r)
    BY <1>5, ActiveRunUpdates DEF SessionFound, TypeOK
  <1>6. CASE SocketConnected(r)
    BY <1>6, ActiveRunUpdates DEF SocketConnected, TypeOK
  <1>7. CASE ClientInitialized(r)
    BY <1>7 DEF ClientInitialized, ResponseArrives, TypeOK
  <1>8. CASE OwnerDiscovered(r)
    BY <1>8, ActiveRunUpdates DEF OwnerDiscovered, ResponseArrives, TypeOK
  <1>9. CASE SettingsUpdated(r)
    BY <1>9 DEF SettingsUpdated, ResponseArrives, TypeOK
  <1>10. CASE BoundaryCaptured(r)
    BY <1>10 DEF BoundaryCaptured, TypeOK
  <1>11. CASE TurnStarted(r)
    <2> DEFINE a == [activeRun[r] EXCEPT !.realTurnId = (start[r] = "turnId")]
    <2>1. a \in ActiveRuns
      BY ActiveRunUpdates DEF TypeOK
    <2>2. /\ MaybeCancel(r, a)
          /\ Goto(r, IF MustCancel(a) THEN "startCancel" ELSE "watch")
          /\ UNCHANGED <<workerVars, watcher, result, tempFile, cancel, turn, start>>
      BY <1>11 DEF TurnStarted
    <2> HIDE DEF a
    <2>3. pc' \in [Runs -> Phases]
      BY <2>2 DEF TypeOK
    <2> QED
      BY <2>1, <2>2, <2>3, MaybeCancelType DEF TypeOK
  <1>12. CASE StartCancelConfirmed(r)
    BY <1>12 DEF StartCancelConfirmed, TypeOK
  <1>13. CASE Poll(r)
    BY <1>13, PollType
  <1>14. CASE WatchCancelConfirmed(r)
    <2>1. activeRun[r] \in ActiveRuns /\ watcher[r].outcome \in Outcomes \union {"none"}
      BY DEF TypeOK
    <2>2. CASE watcher[r].outcome # "none"
      <3>1. FinishWith(r, activeRun[r], watcher[r].outcome)
            /\ UNCHANGED <<watcher, cancel, ownerVars>>
        BY <1>14, <2>2 DEF WatchCancelConfirmed
      <3> QED
        BY <2>1, <2>2, <3>1, FinishType DEF TypeOK
    <2>3. CASE watcher[r].outcome = "none"
      BY <1>14, <2>3 DEF WatchCancelConfirmed, TypeOK
    <2> QED
      BY <2>2, <2>3
  <1>15. CASE CancelFailsRun(r)
    <2>1. activeRun[r] \in ActiveRuns
      BY DEF TypeOK
    <2> QED
      BY <1>15, <2>1, FinishType DEF CancelFailsRun, Failures, TypeOK
  <1>16. CASE RunFails(r)
    <2>1. /\ activeRun[r] \in ActiveRuns
          /\ [activeRun[r] EXCEPT !.ipc = "closed"] \in ActiveRuns
      BY ActiveRunUpdates DEF TypeOK
    <2> QED
      BY <1>16, <2>1, FinishType DEF RunFails, Failures, TypeOK
  <1>17. CASE RemovalFails(r)
    <2>1. activeRun[r] \in ActiveRuns
      BY DEF TypeOK
    <2> QED
      BY <1>17, <2>1, FinishType DEF RemovalFails, Failures, TypeOK
  <1> QED
    BY <1>1, <1>2, <1>3, <1>4, <1>5, <1>6, <1>7, <1>8, <1>9, <1>10, <1>11, <1>12,
       <1>13, <1>14, <1>15, <1>16, <1>17 DEF RunStep

LEMMA IpcStepType ==
  ASSUME TypeOK, NEW r \in Runs, IpcStep(r)
  PROVE  TypeOK'
  <1> USE DEF workerVars, ownerVars
  <1>1. activeRun[r] \in ActiveRuns
    BY DEF TypeOK
  <1>2. CASE InterruptSettles(r)
    <2>1. activeRun' \in [Runs -> ActiveRuns]
      <3>1. PICK p \in {"confirmed", "rejected"} :
              activeRun' = [activeRun EXCEPT ![r].cancellation = p]
        BY <1>2 DEF InterruptSettles
      <3>2. [activeRun[r] EXCEPT !.cancellation = p] \in ActiveRuns
        BY <1>1, ActiveRunUpdates
      <3> QED
        BY <3>1, <3>2 DEF TypeOK
    <2> QED
      BY <1>2, <2>1 DEF InterruptSettles, TypeOK
  <1>3. CASE ConnectionLost(r)
    <2> DEFINE lost == [activeRun[r] EXCEPT !.ipc = "closed",
                          !.cancellation = IF @ = "pending" THEN "rejected" ELSE @]
    <2>1. activeRun' \in [Runs -> ActiveRuns]
      <3>1. lost \in ActiveRuns
        BY <1>1, ActiveRunUpdates
      <3>2. activeRun' = [activeRun EXCEPT ![r] = lost]
        BY <1>3, <1>1 DEF ConnectionLost, TypeOK
      <3> HIDE DEF lost
      <3> QED
        BY <3>1, <3>2 DEF TypeOK
    <2> QED
      BY <1>3, <2>1 DEF ConnectionLost, TypeOK
  <1> QED
    BY <1>2, <1>3 DEF IpcStep

LEMMA OwnerStepType ==
  ASSUME TypeOK, NEW r \in Runs, OwnerStep(r)
  PROVE  TypeOK'
  <1> USE DEF OwnerUnchanged, TypeOK, workerVars, runVars
  <1>1. CASE OwnerStartsTurn(r)
    BY <1>1 DEF OwnerStartsTurn
  <1>2. CASE OwnerRefusesTurn(r)
    BY <1>2 DEF OwnerRefusesTurn
  <1>3. CASE TurnEnds(r)
    BY <1>3 DEF TurnEnds
  <1>4. CASE OwnerInterrupts(r)
    <2>1. interrupt' \in [Runs -> {"none", "sent", "exact", "other", "error"}]
      BY <1>4 DEF OwnerInterrupts
    <2>2. turn' \in [Runs -> Outcomes \union {"none", "running"}]
      BY <1>4 DEF OwnerInterrupts, Outcomes
    <2> QED
      BY <1>4, <2>1, <2>2 DEF OwnerInterrupts
  <1> QED
    BY <1>1, <1>2, <1>3, <1>4 DEF OwnerStep

LEMMA CancelStepType ==
  ASSUME TypeOK, NEW c \in Cancels, CancelStep(c)
  PROVE  TypeOK'
  <1> USE DEF workerVars, runVars, ownerVars
  <1>1. CASE CancelBeforeActive(c)
    <2>1. cancel' \in [Cancels -> [status : CancelStatuses, run : Runs \union {NoRun}]]
      <3>1. CASE runLock
        BY <1>1, <3>1 DEF CancelBeforeActive, TypeOK, CancelStatuses
      <3>2. CASE ~runLock
        BY <1>1, <3>2 DEF CancelBeforeActive, TypeOK, CancelStatuses
      <3> QED
        BY <3>1, <3>2
    <2>2. cancelRequestedBeforeActive' \in BOOLEAN
      BY <1>1 DEF CancelBeforeActive, TypeOK
    <2> QED
      BY <1>1, <2>1, <2>2 DEF CancelBeforeActive, TypeOK
  <1>2. CASE CancelActive(c)
    <2> DEFINE a == [activeRun[active] EXCEPT !.cancelRequested = TRUE]
    <2>1. active \in Runs
      BY <1>2 DEF CancelActive, TypeOK
    <2>2. a \in ActiveRuns
      BY <2>1, ActiveRunUpdates DEF TypeOK
    <2>3. cancel' \in [Cancels -> [status : CancelStatuses, run : Runs \union {NoRun}]]
      BY <1>2, <2>1 DEF CancelActive, TypeOK, CancelStatuses
    <2>4. MaybeCancel(active, a) \/ UNCHANGED <<activeRun, interrupt, interrupts>>
      BY <1>2 DEF CancelActive
    <2>5. UNCHANGED <<workerVars, watcher, pc, result, tempFile, turn, start>>
      BY <1>2 DEF CancelActive
    <2> HIDE DEF a
    <2>6. /\ activeRun' \in [Runs -> ActiveRuns]
          /\ interrupt' \in [Runs -> {"none", "sent", "exact", "other", "error"}]
          /\ interrupts' \in [Runs -> Nat]
      BY <2>1, <2>2, <2>4, MaybeCancelType DEF TypeOK
    <2> QED
      BY <2>3, <2>5, <2>6 DEF TypeOK
  <1>3. CASE CancelSettles(c)
    BY <1>3 DEF CancelSettles, TypeOK, CancelStatuses
  <1> QED
    BY <1>1, <1>2, <1>3 DEF CancelStep

LEMMA DisposeType ==
  ASSUME TypeOK, Dispose
  PROVE  TypeOK'
  <1>1. active \in Runs /\ DisposeIpc(activeRun[active]) \in ActiveRuns
    BY DisposeIpcFacts DEF Dispose, TypeOK
  <1> QED
    BY <1>1 DEF Dispose, TypeOK, workerVars, ownerVars

LEMMA InitType == Init => TypeOK
  <1> SUFFICES ASSUME Init PROVE TypeOK
    OBVIOUS
  <1>1. activeRun \in [Runs -> ActiveRuns]
    BY NewActiveRunType DEF Init
  <1> QED
    BY <1>1 DEF Init, TypeOK, Phases, NewWatcher, CancelStatuses

LEMMA StepType == TypeOK /\ [Next]_vars => TypeOK'
  <1> SUFFICES ASSUME TypeOK, [Next]_vars PROVE TypeOK'
    OBVIOUS
  <1>1. CASE UNCHANGED vars
    BY <1>1 DEF TypeOK, vars, workerVars, runVars, ownerVars
  <1>2. ASSUME NEW r \in Runs, ServiceStep(r) \/ RunStep(r) \/ IpcStep(r) \/ OwnerStep(r)
        PROVE  TypeOK'
    BY <1>2, ServiceStepType, RunStepType, IpcStepType, OwnerStepType
  <1>3. ASSUME NEW c \in Cancels, CancelStep(c)
        PROVE  TypeOK'
    BY <1>3, CancelStepType
  <1>4. CASE Dispose
    BY <1>4, DisposeType
  <1> QED
    BY <1>1, <1>2, <1>3, <1>4 DEF Next

\* Every variable of the worker keeps its type, for any number of calls.
THEOREM TypeCorrect == Spec => []TypeOK
  BY InitType, StepType, PTL DEF Spec

----------------------------------------------------------------------------
(* ExclusiveRun is inductive: four kinds of step move a call between the   *)
(* phases outside the lock, "authorize", and the active phases.            *)

LEMMA PhaseClasses ==
  /\ ActivePhases \subseteq Section /\ Section \subseteq Phases
  /\ "authorize" \in Section \ ActivePhases
  /\ {"idle", "done"} \union ServicePhases \subseteq Phases \ Section
  BY DEF Phases, Section, ActivePhases, BootstrapPhases, RequestPhases, ServicePhases

LEMMA ExclusiveOutside ==
  ASSUME TypeOK, ExclusiveRun, NEW r \in Runs, NEW phase \in Phases \ Section,
         pc[r] \notin Section, Goto(r, phase), UNCHANGED <<active, runLock>>
  PROVE  ExclusiveRun'
  BY PhaseClasses DEF TypeOK, ExclusiveRun, Goto

LEMMA ExclusiveRefuse ==
  ASSUME TypeOK, ExclusiveRun, NEW r \in Runs, NEW res, pc[r] \notin Section, Refuse(r, res)
  PROVE  ExclusiveRun'
  BY ExclusiveOutside, PhaseClasses DEF Refuse, workerVars

LEMMA ExclusiveEnter ==
  ASSUME TypeOK, ExclusiveRun, NEW r \in Runs, pc[r] \notin Section, EnterWorker(r)
  PROVE  ExclusiveRun'
  <1>1. CASE IsActive
    BY <1>1, ExclusiveRefuse DEF EnterWorker
  <1>2. CASE ~IsActive
    <2>1. /\ active = NoRun /\ active' = NoRun /\ ~runLock /\ runLock' = TRUE
          /\ pc' = [pc EXCEPT ![r] = "authorize"]
      BY <1>2 DEF EnterWorker, IsActive, Goto
    <2>2. \A s \in Runs : pc[s] \notin Section
      BY <2>1 DEF ExclusiveRun
    <2>3. pc'[r] = "authorize" /\ \A s \in Runs \ {r} : pc'[s] = pc[s]
      BY <2>1 DEF TypeOK
    <2> QED
      BY <2>1, <2>2, <2>3, PhaseClasses, NoRunAssumption DEF ExclusiveRun
  <1> QED
    BY <1>1, <1>2

LEMMA ExclusiveMove ==
  ASSUME TypeOK, ExclusiveRun, NEW r \in Runs, NEW phase \in ActivePhases,
         pc[r] \in ActivePhases, Goto(r, phase), UNCHANGED <<active, runLock>>
  PROVE  ExclusiveRun'
  BY PhaseClasses DEF TypeOK, ExclusiveRun, Goto

LEMMA ExclusiveFinish ==
  ASSUME TypeOK, ExclusiveRun, NEW r \in Runs, NEW a, NEW res,
         pc[r] \in Section, FinishWith(r, a, res)
  PROVE  ExclusiveRun'
  <1>1. active' # r /\ (active' = active \/ active' = NoRun)
    BY NoRunAssumption DEF FinishWith
  <1>2. \A s \in Runs : s # r => pc[s] \notin Section
    BY DEF ExclusiveRun
  <1> QED
    BY <1>1, <1>2, PhaseClasses, NoRunAssumption DEF FinishWith, Goto, TypeOK, ExclusiveRun

LEMMA PollMoves ==
  ASSUME NEW r \in Runs, Poll(r)
  PROVE  /\ pc[r] = "watch"
         /\ \/ \E a, res : FinishWith(r, a, res)
            \/ /\ \E phase \in {"watch", "watchCancel"} : Goto(r, phase)
               /\ UNCHANGED workerVars
  <1>1. pc[r] = "watch"
    BY DEF Poll
  <1>2. PICK seen \in SessionShows(r) : Poll(r)!2!(seen)
    BY DEF Poll
  <1> DEFINE a == [activeRun[r] EXCEPT !.realTurnId = TRUE]
  <1>3. FinishWith(r, a, seen.outcome)
        \/ (Goto(r, IF MustCancel(a) THEN "watchCancel" ELSE "watch") /\ UNCHANGED workerVars)
    BY <1>2
  <1> HIDE DEF a
  <1> QED
    BY <1>1, <1>3

LEMMA ExclusiveRunStep ==
  ASSUME TypeOK, ExclusiveRun, NEW r \in Runs, RunStep(r)
  PROVE  ExclusiveRun'
  <1> USE DEF workerVars
  <1> DEFINE Move == /\ pc[r] \in ActivePhases
                     /\ \E phase \in ActivePhases : Goto(r, phase)
                     /\ UNCHANGED <<active, runLock>>
             Leave == pc[r] \in Section /\ \E a, res : FinishWith(r, a, res)
  <1>1. CASE WorkerRun(r)
    BY <1>1, ExclusiveEnter, PhaseClasses DEF WorkerRun
  <1>2. CASE WorkspaceAuthorized(r)
    <2>1. /\ pc[r] = "authorize" /\ active' = r /\ UNCHANGED runLock
          /\ pc' = [pc EXCEPT ![r] = "prepareBootstrap"]
      BY <1>2 DEF WorkspaceAuthorized, Goto
    <2>2. "prepareBootstrap" \in ActivePhases
      BY DEF ActivePhases, BootstrapPhases
    <2>3. \A s \in Runs : s # r => pc[s] \notin Section
      BY <2>1, PhaseClasses DEF ExclusiveRun
    <2> QED
      BY <2>1, <2>2, <2>3, PhaseClasses DEF TypeOK, ExclusiveRun
  <1>3. CASE \/ BootstrapPrepared(r) \/ BootstrapInvoked(r) \/ SessionFound(r)
             \/ SocketConnected(r) \/ ClientInitialized(r) \/ OwnerDiscovered(r)
             \/ SettingsUpdated(r) \/ BoundaryCaptured(r) \/ StartCancelConfirmed(r)
    <2>1. Move
      BY <1>3 DEF BootstrapPrepared, BootstrapInvoked, SessionFound, SocketConnected,
           ClientInitialized, OwnerDiscovered, SettingsUpdated, BoundaryCaptured,
           StartCancelConfirmed, ResponseArrives, ActivePhases, BootstrapPhases, RequestPhases
    <2> QED
      BY <2>1, ExclusiveMove
  <1>4. CASE TurnStarted(r)
    <2>1. Move
      BY <1>4 DEF TurnStarted, ActivePhases, RequestPhases
    <2> QED
      BY <2>1, ExclusiveMove
  <1>5. CASE Poll(r)
    <2>1. Move \/ Leave
      BY <1>5, PollMoves, PhaseClasses DEF ActivePhases
    <2> QED
      BY <2>1, ExclusiveMove, ExclusiveFinish
  <1>6. CASE WatchCancelConfirmed(r)
    <2>1. Move \/ Leave
      BY <1>6, PhaseClasses DEF WatchCancelConfirmed, ActivePhases
    <2> QED
      BY <2>1, ExclusiveMove, ExclusiveFinish
  <1>7. CASE CancelFailsRun(r) \/ RunFails(r) \/ RemovalFails(r)
    <2>1. Leave
      BY <1>7, PhaseClasses DEF CancelFailsRun, RunFails, RemovalFails, Section, ActivePhases
    <2> QED
      BY <2>1, ExclusiveFinish
  <1> QED
    BY <1>1, <1>2, <1>3, <1>4, <1>5, <1>6, <1>7 DEF RunStep

LEMMA ExclusiveServiceStep ==
  ASSUME TypeOK, ExclusiveRun, NEW r \in Runs, ServiceStep(r)
  PROVE  ExclusiveRun'
  <1>1. pc[r] \notin Section
    BY PhaseClasses DEF ServiceStep, ServiceRun, RequestAuthorized, ServiceRefuses,
       ExtensionActivated, ServicePhases
  <1>2. \/ \E res : Refuse(r, res)
        \/ EnterWorker(r)
        \/ (\E phase \in ServicePhases : Goto(r, phase)) /\ UNCHANGED <<active, runLock>>
    BY DEF ServiceStep, ServiceRun, RequestAuthorized, ServiceRefuses,
       ExtensionActivated, ServicePhases, workerVars
  <1> QED
    BY <1>1, <1>2, ExclusiveRefuse, ExclusiveEnter, ExclusiveOutside, PhaseClasses

LEMMA StepExclusive == TypeOK /\ ExclusiveRun /\ [Next]_vars => ExclusiveRun'
  <1> SUFFICES ASSUME TypeOK, ExclusiveRun, [Next]_vars PROVE ExclusiveRun'
    OBVIOUS
  <1>1. CASE UNCHANGED <<active, runLock, pc>>
    BY <1>1 DEF ExclusiveRun
  <1>2. ASSUME NEW r \in Runs, ServiceStep(r) \/ RunStep(r)
        PROVE  ExclusiveRun'
    BY <1>2, ExclusiveServiceStep, ExclusiveRunStep
  <1>3. ASSUME NEW r \in Runs, IpcStep(r) \/ OwnerStep(r)
        PROVE  UNCHANGED <<active, runLock, pc>>
    BY <1>3 DEF IpcStep, OwnerStep, InterruptSettles, ConnectionLost, OwnerStartsTurn,
       OwnerRefusesTurn, TurnEnds, OwnerInterrupts, OwnerUnchanged, workerVars, runVars
  <1>4. ASSUME NEW c \in Cancels, CancelStep(c)
        PROVE  UNCHANGED <<active, runLock, pc>>
    BY <1>4 DEF CancelStep, CancelBeforeActive, CancelActive, CancelSettles,
       workerVars, runVars
  <1>5. Dispose \/ UNCHANGED vars => UNCHANGED <<active, runLock, pc>>
    BY DEF Dispose, vars, workerVars, runVars
  <1> QED
    BY <1>1, <1>2, <1>3, <1>4, <1>5 DEF Next

\* At most one call of run() is inside the worker, the lock says whether one
\* is, and "active" says which: a refused call never frees the lock.
THEOREM OneRunAtATime == Spec => []ExclusiveRun
  <1>1. Init => ExclusiveRun
    BY PhaseClasses, NoRunAssumption DEF Init, ExclusiveRun
  <1>2. TypeOK /\ ExclusiveRun /\ [Next]_vars => ExclusiveRun'
    BY StepExclusive
  <1> QED
    BY <1>1, <1>2, TypeCorrect, PTL DEF Spec

----------------------------------------------------------------------------
(* The inductive invariant                                                 *)

\* Phases in which the run has no ActiveRun of its own yet.
FreshPhases == {"idle", "authorize"} \union ServicePhases
OwnerKnownPhases == {"updateSettings", "captureBoundary", "startTurn",
                     "startCancel", "watch", "watchCancel"}
TurnPhases == {"startTurn", "startCancel", "watch", "watchCancel"}
ConnectedPhases == {"connect", "initialize", "discoverOwner"} \union OwnerKnownPhases

\* What the run holds at each await: identifiers, socket, temporary file.
Holdings(r) ==
  /\ pc[r] \in FreshPhases => activeRun[r] = NewActiveRun(FALSE)
  /\ pc[r] \in BootstrapPhases => activeRun[r].ipc = "none"
  /\ activeRun[r].ipc = "connecting" => pc[r] = "connect"
  /\ pc[r] \in ConnectedPhases => activeRun[r].conversationId /\ activeRun[r].ipc # "none"
  /\ pc[r] \in OwnerKnownPhases => activeRun[r].ownerClientId
  /\ activeRun[r].realTurnId => pc[r] \in (TurnPhases \ {"startTurn"}) \union {"done"}
  /\ watcher[r].emitted => activeRun[r].realTurnId
  /\ r \in tempFile => \/ pc[r] \in {"invokeBootstrap", "awaitSession"}
                        \/ (pc[r] = "done" /\ result[r] = "unremoved")
  /\ pc[r] = "done" /\ activeRun[r].ipc = "open" => activeRun[r].disposed

\* How far the turn of the run is, here and at the owner.
Progress(r) ==
  /\ pc[r] \in TurnPhases => start[r] # "none"
  /\ pc[r] \notin TurnPhases \union {"done"} => start[r] = "none"
  /\ activeRun[r].realTurnId => start[r] # "none"
  /\ start[r] \in {"none", "sent", "error"} => turn[r] = "none"
  /\ result[r] = "none" <=> pc[r] # "done"
  /\ result[r] \in Outcomes => Addressable(activeRun[r])

\* An interrupt was attempted exactly when the run is cancelled and its turn
\* is known; one request is written at most, and a confirmation is true.
Cancellation(r) ==
  /\ activeRun[r].cancellation # "none"
       <=> activeRun[r].cancelRequested /\ Addressable(activeRun[r])
  /\ activeRun[r].cancellation = "none" => interrupts[r] = 0
  /\ interrupts[r] <= 1
  /\ activeRun[r].cancellation = "pending" => activeRun[r].ipc = "open"
  /\ activeRun[r].cancellation = "confirmed" => turn[r] = "cancelled"
  /\ interrupt[r] = "exact" => turn[r] = "cancelled"

RunInvariant(r) == Holdings(r) /\ Progress(r) /\ Cancellation(r)

\* A cancel that met run r is still remembered, or r was rejected.
Noted(r) == \/ result[r] \in Failures
            \/ activeRun[r].cancelRequested
            \/ pc[r] = "authorize" /\ cancelRequestedBeforeActive

\* The worker remembers that run r is to be cancelled.
Marked(r) == \/ activeRun[r].cancelRequested
             \/ pc[r] \in Section /\ cancelRequestedBeforeActive

\* No cancel that met a run is forgotten, none is remembered that nobody
\* called, and one that reports "requested" tells the truth.
Remembered ==
  /\ \A c \in Cancels : cancel[c].status \in {"idle", "none"} <=> cancel[c].run = NoRun
  /\ \A c \in Cancels : cancel[c].run # NoRun => Noted(cancel[c].run)
  /\ \A c \in Cancels :
       cancel[c].status = "requested" => turn[cancel[c].run] = "cancelled"
  /\ cancelRequestedBeforeActive => runLock
  /\ \A r \in Runs : Marked(r) => \E c \in Cancels : cancel[c].run = r

RunsOK == \A r \in Runs : RunInvariant(r)

WorkerInvariant == TypeOK /\ ExclusiveRun /\ RunsOK /\ Remembered

----------------------------------------------------------------------------
(* Frames: what a step has to leave alone                                  *)

\* The step does not touch anything of run s.
Same(s) ==
  /\ pc'[s] = pc[s] /\ result'[s] = result[s]
  /\ activeRun'[s] = activeRun[s] /\ watcher'[s] = watcher[s]
  /\ start'[s] = start[s] /\ turn'[s] = turn[s]
  /\ interrupt'[s] = interrupt[s] /\ interrupts'[s] = interrupts[s]
  /\ s \in tempFile' <=> s \in tempFile

LEMMA SameRun ==
  ASSUME NEW s \in Runs, RunInvariant(s), Same(s)
  PROVE  RunInvariant(s)'
  <1>1. Holdings(s)'
    BY DEF RunInvariant, Holdings, Same
  <1>2. Progress(s)'
    BY DEF RunInvariant, Progress, Same, Addressable
  <1>3. Cancellation(s)'
    BY DEF RunInvariant, Cancellation, Same, Addressable
  <1> QED
    BY <1>1, <1>2, <1>3 DEF RunInvariant

LEMMA OnlyOneRun ==
  ASSUME NEW r \in Runs, RunsOK, RunInvariant(r)', \A s \in Runs \ {r} : Same(s)
  PROVE  RunsOK'
  BY SameRun DEF RunsOK

LEMMA CancelsKept ==
  ASSUME TypeOK, Remembered, UNCHANGED cancel,
         \A s \in Runs : /\ Noted(s) => Noted(s)'
                         /\ Marked(s)' => Marked(s)
                         /\ turn[s] = "cancelled" => turn'[s] = "cancelled",
         cancelRequestedBeforeActive' => runLock'
  PROVE  Remembered'
  <1>1. \A c \in Cancels : cancel[c].run \in Runs \union {NoRun}
    BY DEF TypeOK
  <1>2. \A c \in Cancels : cancel[c].run # NoRun => Noted(cancel[c].run)'
    BY <1>1 DEF Remembered
  <1>3. \A c \in Cancels : cancel[c].status = "requested" => turn'[cancel[c].run] = "cancelled"
    BY <1>1 DEF Remembered
  <1>4. \A s \in Runs : Marked(s)' => \E c \in Cancels : cancel[c].run = s
    BY DEF Remembered
  <1> QED
    BY <1>2, <1>3, <1>4 DEF Remembered
----------------------------------------------------------------------------
(* The two ways a step changes an ActiveRun and the run with it            *)

\* Leaving run(): whatever the failing or returning step made of the object,
\* the finally blocks leave nothing behind.
LEMMA FinishInvariant ==
  ASSUME WorkerInvariant, NEW r \in Runs, NEW a \in ActiveRuns,
         NEW res \in Outcomes \union Failures, FinishWith(r, a, res),
         UNCHANGED <<cancel, turn, start, interrupt, interrupts>>,
         pc[r] \in Section,
         a.cancelRequested = activeRun[r].cancelRequested,
         a.cancellation = activeRun[r].cancellation,
         a.cancellation # "none" <=> a.cancelRequested /\ Addressable(a),
         a.cancellation = "pending" => a.ipc = "open",
         a.ipc # "connecting",
         a.realTurnId => start[r] # "none",
         \A s \in Runs \ {r} : watcher'[s] = watcher[s],
         watcher'[r].emitted => a.realTurnId,
         res \in Outcomes => Addressable(a) /\ pc[r] # "authorize"
  PROVE  RunsOK' /\ Remembered'
  <1> DEFINE d == DisposeIpc(a)
  <1>1. /\ d.cancelRequested = a.cancelRequested
        /\ d.cancellation \in {a.cancellation, "rejected"}
        /\ d.cancellation = "rejected" => a.cancellation # "none"
        /\ ~a.disposed /\ a.ipc # "none" => d.cancellation # "pending"
        /\ d.ipc = IF ~a.disposed /\ a.ipc = "open" THEN "closed" ELSE a.ipc
        /\ d.disposed = (a.disposed \/ a.ipc # "none")
        /\ d.realTurnId = a.realTurnId
        /\ Addressable(d) <=> Addressable(a)
    BY DisposeIpcFacts DEF Addressable
  <1>2. /\ pc' = [pc EXCEPT ![r] = "done"] /\ result' = [result EXCEPT ![r] = res]
        /\ tempFile' = IF res = "unremoved" THEN tempFile \union {r} ELSE tempFile \ {r}
        /\ activeRun' = [activeRun EXCEPT ![r] = d]
        /\ runLock' = FALSE /\ cancelRequestedBeforeActive' = FALSE
    BY DEF FinishWith, Goto
  <1> HIDE DEF d
  <1>3. /\ pc'[r] = "done" /\ result'[r] = res /\ activeRun'[r] = d
        /\ r \in tempFile' => res = "unremoved"
        /\ \A s \in Runs \ {r} : Same(s)
    BY <1>2 DEF WorkerInvariant, TypeOK, Same
  <1>4. RunInvariant(r)
    BY DEF WorkerInvariant, RunsOK
  <1>5. Holdings(r)'
    BY <1>1, <1>3 DEF Holdings, FreshPhases, ServicePhases, BootstrapPhases,
       ConnectedPhases, OwnerKnownPhases, TurnPhases
  <1>6. Progress(r)'
    BY <1>1, <1>3, <1>4 DEF Progress, RunInvariant, TurnPhases, Addressable, Outcomes, Failures
  <1>7. Cancellation(r)'
    <2>1. Cancellation(r)
      BY <1>4 DEF RunInvariant
    <2>2. d.cancellation = "none" <=> a.cancellation = "none"
      BY <1>1
    <2>3. d.cancellation = "confirmed" => a.cancellation = "confirmed"
      BY <1>1
    <2>4. d.cancellation = "pending" => d.ipc = "open"
      BY <1>1
    <2> QED
      BY <1>1, <1>3, <2>1, <2>2, <2>3, <2>4 DEF Cancellation, Addressable
  <1>8. RunsOK'
    BY <1>3, <1>5, <1>6, <1>7, OnlyOneRun DEF RunInvariant, WorkerInvariant
  <1>9. \A s \in Runs : /\ Noted(s) => Noted(s)'
                        /\ Marked(s)' => Marked(s)
    <2>1. \A s \in Runs \ {r} : pc[s] # "authorize"
      BY PhaseClasses DEF WorkerInvariant, ExclusiveRun
    <2>2. Noted(r) => Noted(r)'
      <3>1. result[r] \notin Failures
        BY <1>4, PhaseClasses DEF RunInvariant, Progress, Failures
      <3> QED
        BY <1>1, <1>3, <3>1 DEF Noted, Failures, Outcomes
    <2>3. Marked(r)' => Marked(r)
      BY <1>1, <1>2, <1>3 DEF Marked
    <2>4. ASSUME NEW s \in Runs \ {r}
          PROVE  (Noted(s) => Noted(s)') /\ (Marked(s)' => Marked(s))
      BY <1>2, <1>3, <2>1 DEF Noted, Marked, Same
    <2> QED
      BY <2>2, <2>3, <2>4
  <1>10. Remembered'
    BY <1>2, <1>9, CancelsKept DEF WorkerInvariant
  <1> QED
    BY <1>8, <1>10

\* maybeCancel of run r: it settles how the cancellation stands to the turn.
LEMMA MaybeCancelInvariant ==
  ASSUME TypeOK, NEW r \in Runs, NEW a \in ActiveRuns, MaybeCancel(r, a), Cancellation(r),
         UNCHANGED turn,
         a.cancellation = activeRun[r].cancellation,
         a.ipc = activeRun[r].ipc,
         a.cancellation # "none" => a.cancelRequested /\ Addressable(a)
  PROVE  /\ Cancellation(r)'
         /\ activeRun'[r] = AfterMaybeCancel(a)
         /\ \A s \in Runs \ {r} : /\ activeRun'[s] = activeRun[s]
                                  /\ interrupt'[s] = interrupt[s]
                                  /\ interrupts'[s] = interrupts[s]
  <1> DEFINE m == AfterMaybeCancel(a)
  <1>1. activeRun' = [activeRun EXCEPT ![r] = m]
    BY DEF MaybeCancel
  <1>2. activeRun'[r] = m /\ \A s \in Runs \ {r} : activeRun'[s] = activeRun[s]
    BY <1>1 DEF TypeOK
  <1>3. /\ a.cancellation # "none" => m = a
        /\ ~MustCancel(a) => m = a
        /\ MustCancel(a) => m.cancellation # "none"
        /\ SendsInterrupt(a) => a.cancellation = "none" /\ m.cancellation = "pending"
        /\ m.cancelRequested = a.cancelRequested
        /\ m.ipc = a.ipc
        /\ Addressable(m) <=> Addressable(a)
        /\ m.cancellation = "pending" => a.ipc = "open" \/ a.cancellation = "pending"
        /\ m.cancellation = "confirmed" => a.cancellation = "confirmed"
    BY AfterMaybeCancelFacts DEF Addressable
  <1> HIDE DEF m
  <1>4. m.cancellation # "none" <=> m.cancelRequested /\ Addressable(m)
    BY <1>3 DEF MustCancel
  <1>5. m.cancellation = "pending" => m.ipc = "open"
    BY <1>3 DEF Cancellation
  <1>6. /\ \A s \in Runs \ {r} : interrupt'[s] = interrupt[s] /\ interrupts'[s] = interrupts[s]
        /\ interrupt'[r] = "exact" => interrupt[r] = "exact"
        /\ m.cancellation = "none" => interrupts'[r] = 0
        /\ interrupts'[r] <= 1
    <2>1. CASE SendsInterrupt(a)
      <3>1. /\ interrupt' = [interrupt EXCEPT ![r] = "sent"]
            /\ interrupts' = [interrupts EXCEPT ![r] = @ + 1]
        BY <2>1 DEF MaybeCancel
      <3>2. interrupts[r] = 0
        BY <1>3, <2>1 DEF Cancellation
      <3> QED
        BY <1>3, <2>1, <3>1, <3>2 DEF TypeOK
    <2>2. CASE ~SendsInterrupt(a)
      <3>1. UNCHANGED <<interrupt, interrupts>>
        BY <2>2 DEF MaybeCancel
      <3>2. m.cancellation = "none" => a.cancellation = "none"
        BY <1>3
      <3> QED
        BY <3>1, <3>2 DEF Cancellation
    <2> QED
      BY <2>1, <2>2
  <1>7. Cancellation(r)'
    BY <1>2, <1>3, <1>4, <1>5, <1>6 DEF Cancellation, Addressable
  <1> QED
    BY <1>2, <1>6, <1>7 DEF m
\* A step of run r that leaves the worker's queued cancel alone.
LEMMA RunMoves ==
  ASSUME WorkerInvariant, NEW r \in Runs, RunInvariant(r)',
         \A s \in Runs \ {r} : Same(s),
         UNCHANGED <<cancel, cancelRequestedBeforeActive>>,
         cancelRequestedBeforeActive => runLock',
         Noted(r) => Noted(r)', Marked(r)' => Marked(r),
         turn[r] = "cancelled" => turn'[r] = "cancelled"
  PROVE  RunsOK' /\ Remembered'
  <1>1. RunsOK'
    BY OnlyOneRun DEF WorkerInvariant
  <1>2. ASSUME NEW s \in Runs
        PROVE  /\ Noted(s) => Noted(s)'
               /\ Marked(s)' => Marked(s)
               /\ turn[s] = "cancelled" => turn'[s] = "cancelled"
    <2>1. CASE s = r
      BY <2>1
    <2>2. CASE s # r
      BY <2>2 DEF Same, Noted, Marked
    <2> QED
      BY <2>1, <2>2
  <1> QED
    BY <1>1, <1>2, CancelsKept DEF WorkerInvariant

----------------------------------------------------------------------------
(* The service, and the way into the worker                                *)

LEMMA RefuseInvariant ==
  ASSUME WorkerInvariant, NEW r \in Runs, NEW res \in {"rejected", "RUN_ACTIVE"},
         pc[r] \in {"idle"} \union ServicePhases, Refuse(r, res)
  PROVE  RunsOK' /\ Remembered'
  <1>1. /\ pc'[r] = "done" /\ result'[r] = res
        /\ UNCHANGED <<workerVars, activeRun, watcher, tempFile, cancel, ownerVars>>
        /\ \A s \in Runs \ {r} : Same(s)
    BY DEF Refuse, Goto, Same, WorkerInvariant, TypeOK, ownerVars
  <1>2. RunInvariant(r)
    BY DEF WorkerInvariant, RunsOK
  <1>3. activeRun[r] = NewActiveRun(FALSE)
    BY <1>2 DEF RunInvariant, Holdings, FreshPhases
  <1>4. Holdings(r)'
    BY <1>1, <1>2, <1>3 DEF RunInvariant, Holdings, NewActiveRun, FreshPhases, ServicePhases,
       BootstrapPhases, ConnectedPhases, OwnerKnownPhases, TurnPhases
  <1>5. Progress(r)'
    BY <1>1, <1>2, <1>3 DEF RunInvariant, Progress, NewActiveRun, TurnPhases, Outcomes, ownerVars
  <1>6. Cancellation(r)'
    BY <1>1, <1>2 DEF RunInvariant, Cancellation, Addressable, ownerVars
  <1>7. /\ Noted(r) => Noted(r)'
        /\ Marked(r)' => Marked(r)
    <2>1. pc[r] \notin {"authorize", "done"}
      BY DEF ServicePhases
    <2>2. result[r] = "none" /\ ~activeRun[r].cancelRequested
      BY <1>2, <1>3, <2>1 DEF RunInvariant, Progress, NewActiveRun
    <2> QED
      BY <1>1, <2>1, <2>2, PhaseClasses DEF Noted, Marked, Failures
  <1>8. cancelRequestedBeforeActive => runLock'
    BY <1>1 DEF WorkerInvariant, Remembered, workerVars
  <1> QED
    BY <1>1, <1>4, <1>5, <1>6, <1>7, <1>8, RunMoves DEF RunInvariant, workerVars, ownerVars

LEMMA EnterWorkerInvariant ==
  ASSUME WorkerInvariant, NEW r \in Runs, pc[r] \in {"idle"} \union ServicePhases,
         EnterWorker(r)
  PROVE  RunsOK' /\ Remembered'
  <1>1. CASE IsActive
    BY <1>1, RefuseInvariant DEF EnterWorker
  <1>2. CASE ~IsActive
    <2>1. /\ pc'[r] = "authorize" /\ runLock' = TRUE
          /\ UNCHANGED <<active, cancelRequestedBeforeActive, activeRun, watcher,
                         result, tempFile, cancel, ownerVars>>
          /\ \A s \in Runs \ {r} : Same(s)
      BY <1>2 DEF EnterWorker, Goto, Same, WorkerInvariant, TypeOK, ownerVars
    <2>2. RunInvariant(r)
      BY DEF WorkerInvariant, RunsOK
    <2>3. Holdings(r)'
      BY <2>1, <2>2 DEF RunInvariant, Holdings, FreshPhases, ServicePhases, NewActiveRun,
         BootstrapPhases, ConnectedPhases, OwnerKnownPhases, TurnPhases
    <2>4. Progress(r)'
      BY <2>1, <2>2 DEF RunInvariant, Progress, TurnPhases, ServicePhases, ownerVars
    <2>5. Cancellation(r)'
      BY <2>1, <2>2 DEF RunInvariant, Cancellation, Addressable, ownerVars
    <2>6. ~cancelRequestedBeforeActive
      BY <1>2 DEF IsActive, WorkerInvariant, Remembered
    <2>7. (Noted(r) => Noted(r)') /\ (Marked(r)' => Marked(r))
      BY <2>1, <2>6 DEF Noted, Marked
    <2> QED
      BY <2>1, <2>3, <2>4, <2>5, <2>6, <2>7, RunMoves DEF RunInvariant, ownerVars
  <1> QED
    BY <1>1, <1>2

LEMMA ServiceStepInvariant ==
  ASSUME WorkerInvariant, NEW r \in Runs, ServiceStep(r)
  PROVE  RunsOK' /\ Remembered'
  <1>1. ASSUME NEW phase \in ServicePhases, pc[r] \in {"idle"} \union ServicePhases,
               Goto(r, phase),
               UNCHANGED <<workerVars, activeRun, watcher, result, tempFile, cancel, ownerVars>>
        PROVE  RunsOK' /\ Remembered'
    <2>1. pc'[r] = phase /\ \A s \in Runs \ {r} : Same(s)
      BY <1>1 DEF Goto, Same, WorkerInvariant, TypeOK, ownerVars
    <2>2. RunInvariant(r)
      BY DEF WorkerInvariant, RunsOK
    <2>3. Holdings(r)'
      BY <1>1, <2>1, <2>2 DEF RunInvariant, Holdings, FreshPhases, ServicePhases, NewActiveRun,
         BootstrapPhases, ConnectedPhases, OwnerKnownPhases, TurnPhases
    <2>4. Progress(r)'
      BY <1>1, <2>1, <2>2 DEF RunInvariant, Progress, TurnPhases, ServicePhases, ownerVars
    <2>5. Cancellation(r)'
      BY <1>1, <2>1, <2>2 DEF RunInvariant, Cancellation, Addressable, ownerVars
    <2>6. (Noted(r) => Noted(r)') /\ (Marked(r)' => Marked(r))
      BY <1>1, <2>1, PhaseClasses DEF Noted, Marked, ServicePhases
    <2>7. cancelRequestedBeforeActive => runLock'
      BY <1>1 DEF WorkerInvariant, Remembered, workerVars
    <2> QED
      BY <1>1, <2>1, <2>3, <2>4, <2>5, <2>6, <2>7, RunMoves DEF RunInvariant, workerVars, ownerVars
  <1> QED
    BY <1>1, RefuseInvariant, EnterWorkerInvariant DEF ServiceStep, ServiceRun, RequestAuthorized,
       ServiceRefuses, ExtensionActivated, ServicePhases
----------------------------------------------------------------------------
(* Inside the worker                                                       *)

\* From one await of a run to the next before its turn is asked for: the
\* object a that results satisfies what the next phase needs.
LEMMA AdvanceInvariant ==
  ASSUME WorkerInvariant, NEW r \in Runs, NEW a \in ActiveRuns,
         pc[r] \in Section, NEW phase \in ActivePhases, Goto(r, phase),
         activeRun' = [activeRun EXCEPT ![r] = a],
         UNCHANGED <<cancel, runLock, cancelRequestedBeforeActive, watcher, result,
                     turn, interrupt, interrupts>>,
         Holdings(r)', Progress(r)',
         \A s \in Runs \ {r} : /\ start'[s] = start[s]
                               /\ s \in tempFile' <=> s \in tempFile,
         a.cancellation = activeRun[r].cancellation,
         a.ipc = activeRun[r].ipc \/ a.cancellation = "none",
         activeRun[r].cancelRequested => a.cancelRequested,
         a.cancelRequested => Marked(r),
         pc[r] = "authorize" /\ cancelRequestedBeforeActive => a.cancelRequested,
         Addressable(a) <=> Addressable(activeRun[r]),
         a.cancellation # "none" <=> a.cancelRequested /\ Addressable(a)
  PROVE  RunsOK' /\ Remembered'
  <1>1. activeRun'[r] = a /\ \A s \in Runs \ {r} : Same(s)
    BY DEF Same, Goto, WorkerInvariant, TypeOK
  <1>2. Cancellation(r)'
    <2>1. Cancellation(r)
      BY DEF WorkerInvariant, RunsOK, RunInvariant
    <2> QED
      BY <1>1, <2>1 DEF Cancellation, Addressable
  <1>3. (Noted(r) => Noted(r)') /\ (Marked(r)' => Marked(r))
    BY <1>1, PhaseClasses DEF Noted, Marked, Goto
  <1> QED
    BY <1>1, <1>2, <1>3, RunMoves DEF RunInvariant, WorkerInvariant, Remembered

LEMMA BeforeTurnInvariant ==
  ASSUME WorkerInvariant, NEW r \in Runs,
         \/ WorkspaceAuthorized(r) \/ BootstrapPrepared(r) \/ BootstrapInvoked(r)
         \/ SessionFound(r) \/ SocketConnected(r) \/ ClientInitialized(r)
         \/ OwnerDiscovered(r) \/ SettingsUpdated(r) \/ BoundaryCaptured(r)
         \/ StartCancelConfirmed(r)
  PROVE  RunsOK' /\ Remembered'
  <1> USE DEF Goto, workerVars, ownerVars, FreshPhases, ServicePhases, BootstrapPhases,
              RequestPhases, ConnectedPhases, OwnerKnownPhases, TurnPhases
  <1>1. /\ TypeOK /\ activeRun[r] \in ActiveRuns /\ pc \in [Runs -> Phases]
        /\ Holdings(r) /\ Progress(r) /\ Cancellation(r)
    BY DEF WorkerInvariant, RunsOK, RunInvariant, TypeOK
  <1>2. CASE WorkspaceAuthorized(r)
    <2> DEFINE a == NewActiveRun(cancelRequestedBeforeActive)
    <2>1. a \in ActiveRuns
      BY <1>1, NewActiveRunType DEF TypeOK
    <2>2. /\ pc[r] = "authorize" /\ pc' = [pc EXCEPT ![r] = "prepareBootstrap"]
          /\ activeRun' = [activeRun EXCEPT ![r] = a]
          /\ UNCHANGED <<cancel, runLock, cancelRequestedBeforeActive, watcher, result,
                         turn, interrupt, interrupts, start, tempFile>>
      BY <1>2, <1>1 DEF WorkspaceAuthorized, TypeOK, ActiveRuns
    <2>3. /\ a.conversationId = FALSE /\ a.ownerClientId = FALSE /\ a.realTurnId = FALSE
          /\ a.ipc = "none" /\ a.cancellation = "none"
          /\ a.cancelRequested = cancelRequestedBeforeActive
      BY <1>1, <2>2 DEF NewActiveRun
    <2> HIDE DEF a
    <2>4. activeRun'[r] = a /\ pc'[r] = "prepareBootstrap"
      BY <1>1, <2>2 DEF TypeOK
    <2>5. Holdings(r)'
      BY <1>1, <2>2, <2>3, <2>4 DEF Holdings, TypeOK, NewActiveRun
    <2>6. Progress(r)'
      BY <1>1, <2>2, <2>3, <2>4 DEF Progress, Holdings, Addressable, NewActiveRun
    <2>7. /\ activeRun[r].cancellation = "none" /\ activeRun[r].cancelRequested = FALSE
          /\ ~Addressable(activeRun[r]) /\ ~Addressable(a)
      BY <1>1, <2>2, <2>3 DEF Holdings, Addressable, NewActiveRun
    <2>8. a.cancelRequested => Marked(r)
      BY <2>2, <2>3 DEF Marked, Section
    <2> QED
      BY <2>1, <2>2, <2>3, <2>5, <2>6, <2>7, <2>8, AdvanceInvariant DEF Section, ActivePhases
  <1>3. CASE BootstrapPrepared(r)
    <2>1. /\ pc[r] = "prepareBootstrap" /\ pc' = [pc EXCEPT ![r] = "invokeBootstrap"]
          /\ activeRun' = [activeRun EXCEPT ![r] = activeRun[r]]
          /\ UNCHANGED <<cancel, runLock, cancelRequestedBeforeActive, watcher, result,
                         turn, interrupt, interrupts, start>>
          /\ tempFile' = tempFile \union {r}
      BY <1>3, <1>1 DEF BootstrapPrepared, TypeOK
    <2>2. Holdings(r)'
      BY <1>1, <2>1 DEF Holdings, TypeOK
    <2>3. Progress(r)'
      BY <1>1, <2>1 DEF Progress, TypeOK, Addressable
    <2> QED
      BY <1>1, <2>1, <2>2, <2>3, AdvanceInvariant
         DEF Marked, Section, ActivePhases, Holdings, Cancellation, Addressable, TypeOK
  <1>4. CASE BootstrapInvoked(r)
    <2>1. /\ pc[r] = "invokeBootstrap" /\ pc' = [pc EXCEPT ![r] = "awaitSession"]
          /\ activeRun' = [activeRun EXCEPT ![r] = activeRun[r]]
          /\ UNCHANGED <<cancel, runLock, cancelRequestedBeforeActive, watcher, result,
                         turn, interrupt, interrupts, start, tempFile>>
      BY <1>4, <1>1 DEF BootstrapInvoked, TypeOK
    <2>2. Holdings(r)'
      BY <1>1, <2>1 DEF Holdings, TypeOK
    <2>3. Progress(r)'
      BY <1>1, <2>1 DEF Progress, TypeOK, Addressable
    <2> QED
      BY <1>1, <2>1, <2>2, <2>3, AdvanceInvariant
         DEF Marked, Section, ActivePhases, Holdings, Cancellation, Addressable, TypeOK
  <1>5. CASE SessionFound(r)
    <2> DEFINE a == [activeRun[r] EXCEPT !.conversationId = TRUE, !.ipc = "connecting"]
    <2>1. a \in ActiveRuns
      BY <1>1, ActiveRunUpdates DEF TypeOK
    <2>2. /\ pc[r] = "awaitSession" /\ pc' = [pc EXCEPT ![r] = "connect"]
          /\ activeRun' = [activeRun EXCEPT ![r] = a]
          /\ UNCHANGED <<cancel, runLock, cancelRequestedBeforeActive, watcher, result,
                         turn, interrupt, interrupts, start>>
          /\ tempFile' = tempFile \ {r}
      BY <1>5, <1>1 DEF SessionFound, TypeOK, ActiveRuns
    <2>3. /\ a.conversationId /\ a.ownerClientId = activeRun[r].ownerClientId
          /\ a.realTurnId = activeRun[r].realTurnId /\ a.ipc = "connecting"
          /\ a.cancellation = activeRun[r].cancellation
          /\ a.cancelRequested = activeRun[r].cancelRequested
      BY <1>1, <2>2 DEF ActiveRuns
    <2> HIDE DEF a
    <2>4. activeRun'[r] = a /\ pc'[r] = "connect"
      BY <1>1, <2>2 DEF TypeOK
    <2>5. Holdings(r)'
      BY <1>1, <2>2, <2>3, <2>4 DEF Holdings, TypeOK
    <2>6. Progress(r)'
      BY <1>1, <2>2, <2>3, <2>4 DEF Progress, Holdings, Addressable
    <2> QED
      BY <1>1, <2>1, <2>2, <2>3, <2>5, <2>6, AdvanceInvariant
         DEF Marked, Section, ActivePhases, Holdings, Cancellation, Addressable
  <1>6. CASE SocketConnected(r)
    <2> DEFINE a == [activeRun[r] EXCEPT !.ipc = "open"]
    <2>1. a \in ActiveRuns
      BY <1>1, ActiveRunUpdates DEF TypeOK
    <2>2. /\ pc[r] = "connect" /\ pc' = [pc EXCEPT ![r] = "initialize"]
          /\ activeRun' = [activeRun EXCEPT ![r] = a]
          /\ UNCHANGED <<cancel, runLock, cancelRequestedBeforeActive, watcher, result,
                         turn, interrupt, interrupts, start, tempFile>>
      BY <1>6, <1>1 DEF SocketConnected, TypeOK, ActiveRuns
    <2>3. /\ a.conversationId = activeRun[r].conversationId
          /\ a.ownerClientId = activeRun[r].ownerClientId
          /\ a.realTurnId = activeRun[r].realTurnId /\ a.ipc = "open"
          /\ a.cancellation = activeRun[r].cancellation
          /\ a.cancelRequested = activeRun[r].cancelRequested
      BY <1>1, <2>2 DEF ActiveRuns
    <2> HIDE DEF a
    <2>4. activeRun'[r] = a /\ pc'[r] = "initialize"
      BY <1>1, <2>2 DEF TypeOK
    <2>5. Holdings(r)'
      BY <1>1, <2>2, <2>3, <2>4 DEF Holdings, TypeOK
    <2>6. Progress(r)'
      BY <1>1, <2>2, <2>3, <2>4 DEF Progress, Holdings, Addressable
    <2> QED
      BY <1>1, <2>1, <2>2, <2>3, <2>5, <2>6, AdvanceInvariant
         DEF Marked, Section, ActivePhases, Holdings, Cancellation, Addressable
  <1>7. CASE ClientInitialized(r)
    <2>1. /\ pc[r] = "initialize" /\ pc' = [pc EXCEPT ![r] = "discoverOwner"]
          /\ activeRun' = [activeRun EXCEPT ![r] = activeRun[r]]
          /\ UNCHANGED <<cancel, runLock, cancelRequestedBeforeActive, watcher, result,
                         turn, interrupt, interrupts, start, tempFile>>
      BY <1>7, <1>1 DEF ClientInitialized, ResponseArrives, TypeOK
    <2>2. Holdings(r)'
      BY <1>1, <2>1 DEF Holdings, TypeOK
    <2>3. Progress(r)'
      BY <1>1, <2>1 DEF Progress, TypeOK, Addressable
    <2> QED
      BY <1>1, <2>1, <2>2, <2>3, AdvanceInvariant
         DEF Marked, Section, ActivePhases, Holdings, Cancellation, Addressable, TypeOK
  <1>8. CASE OwnerDiscovered(r)
    <2> DEFINE a == [activeRun[r] EXCEPT !.ownerClientId = TRUE]
    <2>1. a \in ActiveRuns
      BY <1>1, ActiveRunUpdates DEF TypeOK
    <2>2. /\ pc[r] = "discoverOwner" /\ pc' = [pc EXCEPT ![r] = "updateSettings"]
          /\ activeRun' = [activeRun EXCEPT ![r] = a]
          /\ UNCHANGED <<cancel, runLock, cancelRequestedBeforeActive, watcher, result,
                         turn, interrupt, interrupts, start, tempFile>>
      BY <1>8, <1>1 DEF OwnerDiscovered, ResponseArrives, TypeOK, ActiveRuns
    <2>3. /\ a.conversationId = activeRun[r].conversationId /\ a.ownerClientId
          /\ a.realTurnId = activeRun[r].realTurnId /\ a.ipc = activeRun[r].ipc
          /\ a.cancellation = activeRun[r].cancellation
          /\ a.cancelRequested = activeRun[r].cancelRequested
      BY <1>1, <2>2 DEF ActiveRuns
    <2> HIDE DEF a
    <2>4. activeRun'[r] = a /\ pc'[r] = "updateSettings"
      BY <1>1, <2>2 DEF TypeOK
    <2>5. Holdings(r)'
      BY <1>1, <2>2, <2>3, <2>4 DEF Holdings, TypeOK
    <2>6. Progress(r)'
      BY <1>1, <2>2, <2>3, <2>4 DEF Progress, Holdings, Addressable
    <2> QED
      BY <1>1, <2>1, <2>2, <2>3, <2>5, <2>6, AdvanceInvariant
         DEF Marked, Section, ActivePhases, Holdings, Cancellation, Addressable
  <1>9. CASE SettingsUpdated(r)
    <2>1. /\ pc[r] = "updateSettings" /\ pc' = [pc EXCEPT ![r] = "captureBoundary"]
          /\ activeRun' = [activeRun EXCEPT ![r] = activeRun[r]]
          /\ UNCHANGED <<cancel, runLock, cancelRequestedBeforeActive, watcher, result,
                         turn, interrupt, interrupts, start, tempFile>>
      BY <1>9, <1>1 DEF SettingsUpdated, ResponseArrives, TypeOK
    <2>2. Holdings(r)'
      BY <1>1, <2>1 DEF Holdings, TypeOK
    <2>3. Progress(r)'
      BY <1>1, <2>1 DEF Progress, TypeOK, Addressable
    <2> QED
      BY <1>1, <2>1, <2>2, <2>3, AdvanceInvariant
         DEF Marked, Section, ActivePhases, Holdings, Cancellation, Addressable, TypeOK
  <1>10. CASE BoundaryCaptured(r)
    <2>1. /\ pc[r] = "captureBoundary" /\ pc' = [pc EXCEPT ![r] = "startTurn"]
          /\ activeRun' = [activeRun EXCEPT ![r] = activeRun[r]]
          /\ UNCHANGED <<cancel, runLock, cancelRequestedBeforeActive, watcher, result,
                         turn, interrupt, interrupts, tempFile>>
          /\ start' = [start EXCEPT ![r] = "sent"]
      BY <1>10, <1>1 DEF BoundaryCaptured, TypeOK
    <2>2. Holdings(r)'
      BY <1>1, <2>1 DEF Holdings, TypeOK
    <2>3. Progress(r)'
      BY <1>1, <2>1 DEF Progress, TypeOK, Addressable
    <2> QED
      BY <1>1, <2>1, <2>2, <2>3, AdvanceInvariant
         DEF Marked, Section, ActivePhases, Holdings, Cancellation, Addressable, TypeOK
  <1>11. CASE StartCancelConfirmed(r)
    <2>1. /\ pc[r] = "startCancel" /\ pc' = [pc EXCEPT ![r] = "watch"]
          /\ activeRun' = [activeRun EXCEPT ![r] = activeRun[r]]
          /\ UNCHANGED <<cancel, runLock, cancelRequestedBeforeActive, watcher, result,
                         turn, interrupt, interrupts, start, tempFile>>
      BY <1>11, <1>1 DEF StartCancelConfirmed, TypeOK
    <2>2. Holdings(r)'
      BY <1>1, <2>1 DEF Holdings, TypeOK
    <2>3. Progress(r)'
      BY <1>1, <2>1 DEF Progress, TypeOK, Addressable
    <2> QED
      BY <1>1, <2>1, <2>2, <2>3, AdvanceInvariant
         DEF Marked, Section, ActivePhases, Holdings, Cancellation, Addressable, TypeOK
  <1> QED
    BY <1>2, <1>3, <1>4, <1>5, <1>6, <1>7, <1>8, <1>9, <1>10, <1>11
\* The turn may have become known: maybeCancel decides where the run goes.
LEMMA TurnKnownInvariant ==
  ASSUME WorkerInvariant, NEW r \in Runs, NEW a \in ActiveRuns, pc[r] \in {"startTurn", "watch"},
         NEW phase \in {"startCancel", "watch", "watchCancel"}, Goto(r, phase),
         MaybeCancel(r, a), UNCHANGED <<workerVars, result, tempFile, cancel, turn, start>>,
         \E b \in BOOLEAN : a = [activeRun[r] EXCEPT !.realTurnId = b],
         activeRun[r].realTurnId => a.realTurnId,
         \A s \in Runs \ {r} : watcher'[s] = watcher[s],
         watcher'[r].emitted => a.realTurnId
  PROVE  RunsOK' /\ Remembered'
  <1>1. /\ TypeOK /\ activeRun[r] \in ActiveRuns
        /\ Holdings(r) /\ Progress(r) /\ Cancellation(r)
    BY DEF WorkerInvariant, RunsOK, RunInvariant, TypeOK
  <1>2. /\ a.cancellation = activeRun[r].cancellation /\ a.ipc = activeRun[r].ipc
        /\ a.cancelRequested = activeRun[r].cancelRequested
        /\ a.conversationId = activeRun[r].conversationId
        /\ a.ownerClientId = activeRun[r].ownerClientId
        /\ a.disposed = activeRun[r].disposed
    BY <1>1 DEF ActiveRuns
  <1> DEFINE m == AfterMaybeCancel(a)
  <1>3. /\ m.ipc = a.ipc /\ m.disposed = a.disposed
        /\ m.conversationId = a.conversationId /\ m.ownerClientId = a.ownerClientId
        /\ m.realTurnId = a.realTurnId /\ m.cancelRequested = a.cancelRequested
    BY AfterMaybeCancelFacts
  <1>4. a.cancellation # "none" => a.cancelRequested /\ Addressable(a)
    BY <1>1, <1>2 DEF Cancellation, Addressable
  <1>5. /\ Cancellation(r)' /\ activeRun'[r] = m
        /\ pc'[r] = phase /\ \A s \in Runs \ {r} : Same(s)
    <2>1. /\ Cancellation(r)' /\ activeRun'[r] = m
          /\ \A s \in Runs \ {r} : /\ activeRun'[s] = activeRun[s]
                                   /\ interrupt'[s] = interrupt[s]
                                   /\ interrupts'[s] = interrupts[s]
      BY <1>1, <1>2, <1>4, MaybeCancelInvariant
    <2>2. pc'[r] = phase /\ \A s \in Runs \ {r} : pc'[s] = pc[s]
      BY <1>1 DEF Goto, TypeOK
    <2> QED
      BY <2>1, <2>2 DEF Same
  <1> HIDE DEF m
  <1>6. Holdings(r)'
    BY <1>1, <1>2, <1>3, <1>5 DEF Holdings, FreshPhases, ServicePhases, BootstrapPhases,
       ConnectedPhases, OwnerKnownPhases, TurnPhases
  <1>7. Progress(r)'
    BY <1>1, <1>2, <1>3, <1>5 DEF Progress, TurnPhases, Addressable
  <1>8. (Noted(r) => Noted(r)') /\ (Marked(r)' => Marked(r))
    BY <1>2, <1>3, <1>5 DEF Noted, Marked, Section, ActivePhases, RequestPhases, workerVars
  <1>9. cancelRequestedBeforeActive => runLock'
    BY DEF WorkerInvariant, Remembered, workerVars
  <1> QED
    BY <1>5, <1>6, <1>7, <1>8, <1>9, RunMoves DEF RunInvariant, workerVars

LEMMA PollInvariant ==
  ASSUME WorkerInvariant, NEW r \in Runs, Poll(r)
  PROVE  RunsOK' /\ Remembered'
  <1>1. PICK seen \in SessionShows(r) : Poll(r)!2!(seen)
    BY DEF Poll
  <1> DEFINE a == [activeRun[r] EXCEPT !.realTurnId = TRUE]
  <1>2. /\ TypeOK /\ activeRun[r] \in ActiveRuns /\ a \in ActiveRuns
        /\ Holdings(r) /\ Progress(r) /\ Cancellation(r)
    BY ActiveRunUpdates DEF WorkerInvariant, RunsOK, RunInvariant, TypeOK
  <1>3. seen.outcome \in Outcomes \union {"none"}
    BY DEF SessionShows
  <1>4. pc[r] = "watch" /\ UNCHANGED <<cancel, turn, start>>
    BY DEF Poll
  <1>5. /\ a.cancellation = activeRun[r].cancellation /\ a.ipc = activeRun[r].ipc
        /\ a.cancelRequested = activeRun[r].cancelRequested
        /\ a.realTurnId /\ Addressable(a)
    BY <1>2, <1>4 DEF ActiveRuns, Holdings, Addressable, ConnectedPhases, OwnerKnownPhases
  <1>6. start[r] # "none" /\ a.ipc # "connecting"
    BY <1>2, <1>4, <1>5 DEF Progress, Holdings, TurnPhases
  <1>7. CASE watcher[r].emitted
    <2>1. FinishWith(r, a, seen.outcome) /\ seen.outcome # "none"
          /\ UNCHANGED <<watcher, interrupt, interrupts>>
      BY <1>1, <1>7
    <2>2. activeRun[r].realTurnId
      BY <1>2, <1>7 DEF Holdings
    <2>3. Addressable(activeRun[r])
      BY <1>5, <2>2, <1>2, <1>4 DEF Addressable, Holdings, ConnectedPhases, OwnerKnownPhases
    <2> HIDE DEF a
    <2> QED
      BY <1>2, <1>3, <1>4, <1>5, <1>6, <2>1, <2>3, FinishInvariant, PhaseClasses
         DEF Cancellation, ActivePhases
  <1>8. CASE ~watcher[r].emitted /\ (MustCancel(a) \/ seen.outcome = "none")
    <2>1. /\ watcher' = [watcher EXCEPT ![r] =
                           [emitted |-> TRUE, outcome |-> seen.outcome]]
          /\ MaybeCancel(r, a)
          /\ Goto(r, IF MustCancel(a) THEN "watchCancel" ELSE "watch")
          /\ UNCHANGED <<workerVars, result, tempFile>>
      BY <1>1, <1>8
    <2>2. \E b \in BOOLEAN : a = [activeRun[r] EXCEPT !.realTurnId = b]
      OBVIOUS
    <2> HIDE DEF a
    <2>3. \A s \in Runs \ {r} : watcher'[s] = watcher[s]
      BY <1>2, <2>1 DEF TypeOK
    <2> QED
      BY <1>2, <1>4, <1>5, <2>1, <2>2, <2>3, TurnKnownInvariant
  <1>9. CASE ~watcher[r].emitted /\ ~(MustCancel(a) \/ seen.outcome = "none")
    <2>1. /\ watcher' = [watcher EXCEPT ![r] =
                           [emitted |-> TRUE, outcome |-> seen.outcome]]
          /\ FinishWith(r, a, seen.outcome)
          /\ UNCHANGED <<interrupt, interrupts>>
      BY <1>1, <1>9
    <2> HIDE DEF a
    <2>2. \A s \in Runs \ {r} : watcher'[s] = watcher[s]
      BY <1>2, <2>1 DEF TypeOK
    <2>3. a.cancellation # "none" <=> a.cancelRequested /\ Addressable(a)
      BY <1>2, <1>5, <1>9 DEF Cancellation, MustCancel
    <2> QED
      BY <1>2, <1>3, <1>4, <1>5, <1>6, <1>9, <2>1, <2>2, <2>3, FinishInvariant, PhaseClasses
         DEF Cancellation, ActivePhases
  <1> QED
    BY <1>7, <1>8, <1>9

LEMMA RunEndsInvariant ==
  ASSUME WorkerInvariant, NEW r \in Runs,
         WatchCancelConfirmed(r) \/ CancelFailsRun(r) \/ RunFails(r) \/ RemovalFails(r)
  PROVE  RunsOK' /\ Remembered'
  <1>1. /\ TypeOK /\ activeRun[r] \in ActiveRuns
        /\ Holdings(r) /\ Progress(r) /\ Cancellation(r)
    BY DEF WorkerInvariant, RunsOK, RunInvariant, TypeOK
  <1>2. CASE WatchCancelConfirmed(r)
    <2>1. /\ pc[r] = "watchCancel" /\ UNCHANGED <<watcher, cancel, ownerVars>>
          /\ Addressable(activeRun[r]) /\ activeRun[r].ipc # "connecting"
          /\ start[r] # "none" /\ watcher[r].outcome \in Outcomes \union {"none"}
      BY <1>1, <1>2 DEF WatchCancelConfirmed, Cancellation, Progress, Holdings, TurnPhases, TypeOK
    <2>2. CASE watcher[r].outcome # "none"
      <3>1. FinishWith(r, activeRun[r], watcher[r].outcome)
        BY <1>2, <2>2 DEF WatchCancelConfirmed
      <3> QED
        BY <1>1, <2>1, <2>2, <3>1, FinishInvariant, PhaseClasses
           DEF Cancellation, Holdings, ActivePhases, ownerVars
    <2>3. CASE watcher[r].outcome = "none"
      <3>1. /\ Goto(r, "watch") /\ UNCHANGED <<workerVars, activeRun, result, tempFile>>
            /\ activeRun' = [activeRun EXCEPT ![r] = activeRun[r]]
            /\ pc'[r] = "watch"
        BY <1>1, <1>2, <2>3 DEF WatchCancelConfirmed, Goto, TypeOK
      <3>2. Holdings(r)'
        BY <1>1, <2>1, <3>1 DEF Holdings, FreshPhases, ServicePhases, BootstrapPhases,
           ConnectedPhases, OwnerKnownPhases, TurnPhases
      <3>3. Progress(r)'
        BY <1>1, <2>1, <3>1 DEF Progress, TurnPhases, ownerVars
      <3> QED
        BY <1>1, <2>1, <3>1, <3>2, <3>3, AdvanceInvariant, PhaseClasses
           DEF Cancellation, ActivePhases, Marked, workerVars, ownerVars
    <2> QED
      BY <2>2, <2>3
  <1>3. CASE CancelFailsRun(r)
    <2>1. /\ FinishWith(r, activeRun[r], "rejected") /\ UNCHANGED <<watcher, cancel, ownerVars>>
          /\ pc[r] \in {"startCancel", "watchCancel"}
      BY <1>3 DEF CancelFailsRun
    <2>2. activeRun[r].ipc # "connecting"
      BY <1>1, <2>1 DEF Holdings
    <2> QED
      BY <1>1, <2>1, <2>2, FinishInvariant, PhaseClasses
         DEF Cancellation, Progress, Holdings, ActivePhases, Outcomes, Failures, ownerVars
  <1>4. CASE RunFails(r)
    <2> DEFINE a == IF pc[r] \in {"connect", "initialize"}
                    THEN [activeRun[r] EXCEPT !.ipc = "closed"] ELSE activeRun[r]
    <2>1. /\ FinishWith(r, a, "rejected") /\ UNCHANGED <<watcher, cancel, ownerVars>>
          /\ pc[r] \in Section
      BY <1>4 DEF RunFails
    <2>2. a \in ActiveRuns
      BY <1>1, ActiveRunUpdates
    <2>3. /\ a.cancellation = activeRun[r].cancellation
          /\ a.cancelRequested = activeRun[r].cancelRequested
          /\ a.realTurnId = activeRun[r].realTurnId
          /\ a.ipc # "connecting"
      BY <1>1 DEF ActiveRuns, Holdings
    <2>4. CASE pc[r] \in {"connect", "initialize"}
      <3>1. ~activeRun[r].realTurnId
        BY <1>1, <2>4 DEF Holdings, TurnPhases
      <3>2. a.cancellation = "none" /\ ~Addressable(a) /\ ~Addressable(activeRun[r])
        BY <1>1, <2>3, <3>1 DEF Cancellation, Addressable
      <3> HIDE DEF a
      <3> QED
        BY <1>1, <2>1, <2>2, <2>3, <3>2, FinishInvariant
           DEF Cancellation, Progress, Holdings, Outcomes, Failures, ownerVars
    <2>5. CASE pc[r] \notin {"connect", "initialize"}
      <3>1. a = activeRun[r]
        BY <2>5
      <3> HIDE DEF a
      <3> QED
        BY <1>1, <2>1, <2>2, <2>3, <3>1, FinishInvariant
           DEF Cancellation, Progress, Holdings, Outcomes, Failures, ownerVars
    <2> QED
      BY <2>4, <2>5
  <1>5. CASE RemovalFails(r)
    <2>1. /\ FinishWith(r, activeRun[r], "unremoved") /\ UNCHANGED <<watcher, cancel, ownerVars>>
          /\ pc[r] \in BootstrapPhases
      BY <1>5 DEF RemovalFails
    <2>2. /\ activeRun[r].ipc = "none" /\ ~activeRun[r].realTurnId
          /\ ~watcher[r].emitted /\ pc[r] \in Section
      BY <1>1, <2>1 DEF Holdings, BootstrapPhases, TurnPhases, Section, ActivePhases
    <2>3. activeRun[r].cancellation # "none"
            <=> activeRun[r].cancelRequested /\ Addressable(activeRun[r])
      BY <1>1 DEF Cancellation
    <2>4. activeRun[r].cancellation # "pending"
      BY <2>2, <2>3 DEF Addressable
    <2>5. "unremoved" \in Outcomes \union Failures /\ "unremoved" \notin Outcomes
      BY DEF Outcomes, Failures
    <2> QED
      BY <1>1, <2>1, <2>2, <2>3, <2>4, <2>5, FinishInvariant DEF ownerVars
  <1> QED
    BY <1>2, <1>3, <1>4, <1>5

LEMMA RunStepInvariant ==
  ASSUME WorkerInvariant, NEW r \in Runs, RunStep(r)
  PROVE  RunsOK' /\ Remembered'
  <1>1. CASE WorkerRun(r)
    BY <1>1, EnterWorkerInvariant DEF WorkerRun
  <1>2. CASE TurnStarted(r)
    <2> DEFINE a == [activeRun[r] EXCEPT !.realTurnId = (start[r] = "turnId")]
    <2>1. /\ TypeOK /\ activeRun[r] \in ActiveRuns /\ Holdings(r)
          /\ a \in ActiveRuns
      BY ActiveRunUpdates DEF WorkerInvariant, RunsOK, RunInvariant, TypeOK
    <2>2. /\ pc[r] = "startTurn" /\ MaybeCancel(r, a)
          /\ Goto(r, IF MustCancel(a) THEN "startCancel" ELSE "watch")
          /\ UNCHANGED <<workerVars, watcher, result, tempFile, cancel, turn, start>>
      BY <1>2 DEF TurnStarted
    <2>3. ~activeRun[r].realTurnId /\ ~watcher[r].emitted
      BY <2>1, <2>2 DEF Holdings, TurnPhases
    <2>4. \E b \in BOOLEAN : a = [activeRun[r] EXCEPT !.realTurnId = b]
      OBVIOUS
    <2> HIDE DEF a
    <2> QED
      BY <2>1, <2>2, <2>3, <2>4, TurnKnownInvariant
  <1>3. CASE Poll(r)
    BY <1>3, PollInvariant
  <1> QED
    BY <1>1, <1>2, <1>3, BeforeTurnInvariant, RunEndsInvariant DEF RunStep

----------------------------------------------------------------------------
(* The socket, the owner, and the callers of cancel and dispose            *)

\* Something happens to the client of a run that waits elsewhere: it closes,
\* or the interrupt is answered.
LEMMA ClientEventInvariant ==
  ASSUME WorkerInvariant, NEW r \in Runs, NEW d \in ActiveRuns,
         activeRun' = [activeRun EXCEPT ![r] = d],
         UNCHANGED <<workerVars, watcher, pc, result, tempFile, cancel, ownerVars>>,
         activeRun[r].ipc # "none", d.ipc # "none",
         d.ipc = activeRun[r].ipc \/ d.ipc = "closed",
         activeRun[r].disposed => d.disposed,
         d.conversationId = activeRun[r].conversationId,
         d.ownerClientId = activeRun[r].ownerClientId,
         d.realTurnId = activeRun[r].realTurnId,
         d.cancelRequested = activeRun[r].cancelRequested,
         d.cancellation = "none" <=> activeRun[r].cancellation = "none",
         d.cancellation = "pending" => d.ipc = "open",
         d.cancellation = "confirmed" =>
           activeRun[r].cancellation = "confirmed" \/ interrupt[r] = "exact"
  PROVE  RunsOK' /\ Remembered'
  <1>1. TypeOK /\ Holdings(r) /\ Progress(r) /\ Cancellation(r)
    BY DEF WorkerInvariant, RunsOK, RunInvariant
  <1>2. activeRun'[r] = d /\ \A s \in Runs \ {r} : Same(s)
    BY <1>1 DEF TypeOK, Same, ownerVars
  <1>3. Holdings(r)'
    BY <1>1, <1>2 DEF Holdings, NewActiveRun
  <1>4. Progress(r)'
    BY <1>1, <1>2 DEF Progress, Addressable, ownerVars
  <1>5. Cancellation(r)'
    BY <1>1, <1>2 DEF Cancellation, Addressable, ownerVars
  <1>6. (Noted(r) => Noted(r)') /\ (Marked(r)' => Marked(r))
    BY <1>2 DEF Noted, Marked, workerVars
  <1>7. cancelRequestedBeforeActive => runLock'
    BY DEF WorkerInvariant, Remembered, workerVars
  <1> QED
    BY <1>2, <1>3, <1>4, <1>5, <1>6, <1>7, RunMoves DEF RunInvariant, workerVars, ownerVars

LEMMA IpcStepInvariant ==
  ASSUME WorkerInvariant, NEW r \in Runs, IpcStep(r)
  PROVE  RunsOK' /\ Remembered'
  <1>1. TypeOK /\ activeRun[r] \in ActiveRuns /\ Cancellation(r)
    BY DEF WorkerInvariant, RunsOK, RunInvariant, TypeOK
  <1>2. CASE InterruptSettles(r)
    <2>1. PICK p \in {"confirmed", "rejected"} :
            /\ activeRun' = [activeRun EXCEPT ![r].cancellation = p]
            /\ p = "confirmed" => interrupt[r] = "exact"
      BY <1>2 DEF InterruptSettles
    <2> DEFINE d == [activeRun[r] EXCEPT !.cancellation = p]
    <2>2. d \in ActiveRuns /\ activeRun' = [activeRun EXCEPT ![r] = d]
      BY <1>1, <2>1, ActiveRunUpdates DEF TypeOK
    <2>3. /\ activeRun[r].cancellation = "pending" /\ activeRun[r].ipc = "open"
          /\ UNCHANGED <<workerVars, watcher, pc, result, tempFile, cancel, ownerVars>>
      BY <1>1, <1>2 DEF InterruptSettles, Cancellation
    <2>4. /\ d.ipc = "open" /\ d.disposed = activeRun[r].disposed
          /\ d.conversationId = activeRun[r].conversationId
          /\ d.ownerClientId = activeRun[r].ownerClientId
          /\ d.realTurnId = activeRun[r].realTurnId
          /\ d.cancelRequested = activeRun[r].cancelRequested
          /\ d.cancellation = p
      BY <1>1, <2>3 DEF ActiveRuns
    <2> HIDE DEF d
    <2> QED
      BY <2>1, <2>2, <2>3, <2>4, ClientEventInvariant
  <1>3. CASE ConnectionLost(r)
    <2> DEFINE d == [activeRun[r] EXCEPT !.ipc = "closed",
                       !.cancellation = IF @ = "pending" THEN "rejected" ELSE @]
    <2>1. d \in ActiveRuns /\ activeRun' = [activeRun EXCEPT ![r] = d]
      BY <1>1, <1>3, ActiveRunUpdates DEF ConnectionLost, TypeOK
    <2>2. /\ activeRun[r].ipc = "open"
          /\ UNCHANGED <<workerVars, watcher, pc, result, tempFile, cancel, ownerVars>>
      BY <1>3 DEF ConnectionLost
    <2>3. /\ d.ipc = "closed" /\ d.disposed = activeRun[r].disposed
          /\ d.conversationId = activeRun[r].conversationId
          /\ d.ownerClientId = activeRun[r].ownerClientId
          /\ d.realTurnId = activeRun[r].realTurnId
          /\ d.cancelRequested = activeRun[r].cancelRequested
          /\ d.cancellation = IF activeRun[r].cancellation = "pending"
                              THEN "rejected" ELSE activeRun[r].cancellation
      BY <1>1 DEF ActiveRuns
    <2> HIDE DEF d
    <2> QED
      BY <2>1, <2>2, <2>3, ClientEventInvariant
  <1> QED
    BY <1>2, <1>3 DEF IpcStep

LEMMA DisposeInvariant ==
  ASSUME WorkerInvariant, Dispose
  PROVE  RunsOK' /\ Remembered'
  <1>0. PICK r \in Runs : r = active
    BY DEF Dispose, WorkerInvariant, TypeOK
  <1> DEFINE d == DisposeIpc(activeRun[r])
  <1>1. TypeOK /\ activeRun[r] \in ActiveRuns /\ Cancellation(r)
    BY DEF WorkerInvariant, RunsOK, RunInvariant, TypeOK
  <1>2. /\ activeRun' = [activeRun EXCEPT ![r] = d]
        /\ UNCHANGED <<workerVars, watcher, pc, result, tempFile, cancel, ownerVars>>
    BY <1>0, <1>1 DEF Dispose
  <1>3. CASE activeRun[r].ipc = "none"
    <2>1. activeRun' = activeRun
      BY <1>1, <1>2, <1>3 DEF DisposeIpc, TypeOK
    <2>2. \A s \in Runs : Same(s)
      BY <1>2, <2>1 DEF Same, ownerVars
    <2>3. \A s \in Runs : (Noted(s) => Noted(s)') /\ (Marked(s)' => Marked(s))
      BY <1>2, <2>1 DEF Noted, Marked, workerVars
    <2> QED
      BY <1>1, <1>2, <2>2, <2>3, SameRun, CancelsKept
         DEF RunsOK, WorkerInvariant, Remembered, workerVars, ownerVars
  <1>4. CASE activeRun[r].ipc # "none"
    <2>1. /\ d \in ActiveRuns
          /\ d.cancelRequested = activeRun[r].cancelRequested
          /\ d.cancellation \in {activeRun[r].cancellation, "rejected"}
          /\ d.cancellation = "rejected" => activeRun[r].cancellation # "none"
          /\ ~activeRun[r].disposed => d.cancellation # "pending"
          /\ d.ipc = IF ~activeRun[r].disposed /\ activeRun[r].ipc = "open"
                     THEN "closed" ELSE activeRun[r].ipc
          /\ d.disposed
          /\ d.conversationId = activeRun[r].conversationId
          /\ d.ownerClientId = activeRun[r].ownerClientId
          /\ d.realTurnId = activeRun[r].realTurnId
      BY <1>1, <1>4, DisposeIpcFacts
    <2> HIDE DEF d
    <2>2. d.cancellation = "pending" => d.ipc = "open"
      BY <1>1, <2>1 DEF Cancellation
    <2>3. /\ d.ipc = activeRun[r].ipc \/ d.ipc = "closed"
          /\ d.cancellation = "none" <=> activeRun[r].cancellation = "none"
          /\ d.cancellation = "confirmed" => activeRun[r].cancellation = "confirmed"
          /\ activeRun[r].disposed => d.disposed
          /\ d.ipc # "none"
      BY <1>4, <2>1
    <2> QED
      BY <1>1, <1>2, <1>4, <2>1, <2>2, <2>3, ClientEventInvariant
  <1> QED
    BY <1>3, <1>4

LEMMA OwnerStepInvariant ==
  ASSUME WorkerInvariant, NEW r \in Runs, OwnerStep(r)
  PROVE  RunsOK' /\ Remembered'
  <1> USE DEF OwnerUnchanged, workerVars, runVars
  <1>1. TypeOK /\ RunInvariant(r) /\ Holdings(r) /\ Progress(r) /\ Cancellation(r)
    BY DEF WorkerInvariant, RunsOK, RunInvariant
  <1>2. /\ UNCHANGED <<workerVars, runVars, cancel, interrupts>>
        /\ \A s \in Runs \ {r} : Same(s)
    BY <1>1 DEF OwnerStep, OwnerStartsTurn, OwnerRefusesTurn, TurnEnds, OwnerInterrupts,
       Same, TypeOK
  <1>3. /\ start[r] # "none" <=> start'[r] # "none"
        /\ start'[r] \in {"none", "sent", "error"} => turn'[r] = "none"
        /\ interrupt'[r] = "exact" => turn'[r] = "cancelled"
        /\ turn[r] = "cancelled" => turn'[r] = "cancelled"
    <2>1. CASE OwnerStartsTurn(r) \/ OwnerRefusesTurn(r)
      BY <1>1, <2>1 DEF OwnerStartsTurn, OwnerRefusesTurn, TypeOK, Progress, Cancellation
    <2>2. CASE TurnEnds(r) \/ OwnerInterrupts(r)
      BY <1>1, <2>2 DEF TurnEnds, OwnerInterrupts, TypeOK, Progress, Cancellation
    <2> QED
      BY <2>1, <2>2 DEF OwnerStep
  <1>4. Holdings(r)'
    BY <1>1, <1>2 DEF Holdings
  <1>5. Progress(r)'
    BY <1>1, <1>2, <1>3 DEF Progress, Addressable
  <1>6. Cancellation(r)'
    BY <1>1, <1>2, <1>3 DEF Cancellation, Addressable
  <1>7. (Noted(r) => Noted(r)') /\ (Marked(r)' => Marked(r))
    BY <1>2 DEF Noted, Marked
  <1>8. cancelRequestedBeforeActive => runLock'
    BY <1>2 DEF WorkerInvariant, Remembered
  <1> QED
    BY <1>2, <1>3, <1>4, <1>5, <1>6, <1>7, <1>8, RunMoves DEF RunInvariant
\* A call of cancel() meets run r, or hears how its interrupt ended.
LEMMA OneCancelMoves ==
  ASSUME TypeOK, Remembered, NEW c \in Cancels, NEW r \in Runs,
         NEW status \in CancelStatuses \ {"idle", "none"},
         cancel' = [cancel EXCEPT ![c] = [status |-> status, run |-> r]],
         cancel[c].run \in {NoRun, r},
         status = "requested" => turn[r] = "cancelled", UNCHANGED turn,
         \A s \in Runs : (Noted(s) => Noted(s)') /\ (Marked(s)' => Marked(s) \/ s = r),
         Noted(r)', cancelRequestedBeforeActive' => runLock'
  PROVE  Remembered'
  <1>1. /\ cancel'[c] = [status |-> status, run |-> r]
        /\ \A k \in Cancels \ {c} : cancel'[k] = cancel[k]
        /\ \A k \in Cancels : cancel[k].run \in Runs \union {NoRun}
    BY DEF TypeOK
  <1>2. \A k \in Cancels :
          /\ cancel'[k].status \in {"idle", "none"} <=> cancel'[k].run = NoRun
          /\ cancel'[k].status = "requested" => turn'[cancel'[k].run] = "cancelled"
    BY <1>1, NoRunAssumption DEF Remembered
  <1>3. \A k \in Cancels : cancel'[k].run # NoRun => Noted(cancel[k].run)'
    <2>1. \A k \in Cancels : cancel'[k].run # NoRun =>
            \E s \in Runs : cancel'[k].run = s /\ Noted(s)'
      BY <1>1 DEF Remembered
    <2> QED
      BY <2>1 DEF Noted
  <1>4. ASSUME NEW s \in Runs, Marked(s)'
        PROVE  \E k \in Cancels : cancel'[k].run = s
    <2>1. CASE s = r
      BY <1>1, <2>1
    <2>2. CASE s # r
      <3>1. PICK k \in Cancels : cancel[k].run = s
        BY <1>4, <2>2 DEF Remembered
      <3> QED
        BY <1>1, <2>2, <3>1, NoRunAssumption
    <2> QED
      BY <2>1, <2>2
  <1> QED
    BY <1>2, <1>3, <1>4 DEF Remembered

\* The first cancel() queues itself at the worker: the only run inside is
\* still being authorized.
LEMMA CancelBeforeActiveInvariant ==
  ASSUME WorkerInvariant, NEW c \in Cancels, CancelBeforeActive(c)
  PROVE  RunsOK' /\ Remembered'
  <1> USE DEF runVars, ownerVars
  <1>1. /\ TypeOK /\ ExclusiveRun /\ Remembered /\ cancel[c].run = NoRun
        /\ cancel \in [Cancels -> [status : CancelStatuses, run : Runs \union {NoRun}]]
    BY DEF CancelBeforeActive, WorkerInvariant, Remembered, TypeOK
  <1>2. /\ active = NoRun /\ UNCHANGED <<active, runLock, runVars, ownerVars>>
        /\ \A s \in Runs : Same(s)
    BY DEF CancelBeforeActive, Same
  <1>3. RunsOK'
    BY <1>2, SameRun DEF RunsOK, WorkerInvariant
  <1>4. CASE runLock
    <2>1. PICK r \in Runs :
            /\ pc[r] \in Section
            /\ cancel' = [cancel EXCEPT ![c] = [status |-> "queued", run |-> r]]
            /\ cancelRequestedBeforeActive'
      BY <1>4 DEF CancelBeforeActive
    <2>2. pc[r] = "authorize" /\ \A s \in Runs : pc[s] \in Section => s = r
      BY <1>1, <1>2, <2>1, NoRunAssumption DEF ExclusiveRun, Section
    <2>3. \A s \in Runs : /\ Noted(s) => Noted(s)'
                          /\ Marked(s)' => Marked(s) \/ s = r
      BY <1>2, <2>1, <2>2 DEF Noted, Marked
    <2>4. Noted(r)'
      BY <1>2, <2>1, <2>2 DEF Noted
    <2>5. "queued" \in CancelStatuses \ {"idle", "none"}
      BY DEF CancelStatuses
    <2>6. Remembered'
      BY <1>1, <1>2, <1>4, <2>1, <2>3, <2>4, <2>5, OneCancelMoves
    <2> QED
      BY <1>3, <2>6
  <1>5. CASE ~runLock
    <2>1. /\ cancel' = [cancel EXCEPT ![c].status = "none"]
          /\ UNCHANGED cancelRequestedBeforeActive
      BY <1>5 DEF CancelBeforeActive
    <2>2. \A k \in Cancels : /\ cancel'[k].run = cancel[k].run
                             /\ k # c => cancel'[k] = cancel[k]
      BY <1>1, <2>1
    <2>3. cancel'[c].status = "none"
      BY <1>1, <2>1
    <2>4. \A s \in Runs : (Noted(s) => Noted(s)') /\ (Marked(s)' => Marked(s))
      BY <1>2, <2>1 DEF Noted, Marked
    <2>5. \A k \in Cancels : cancel'[k].run # NoRun => Noted(cancel[k].run)'
      <3>1. \A k \in Cancels : cancel'[k].run # NoRun =>
              \E s \in Runs : cancel'[k].run = s /\ Noted(s)'
        BY <1>1, <2>2, <2>4 DEF Remembered
      <3> QED
        BY <3>1 DEF Noted
    <2>6. \A k \in Cancels :
            /\ cancel'[k].status \in {"idle", "none"} <=> cancel'[k].run = NoRun
            /\ cancel'[k].status = "requested" => turn'[cancel'[k].run] = "cancelled"
      BY <1>1, <1>2, <2>2, <2>3 DEF Remembered
    <2>7. \A s \in Runs : Marked(s)' => \E k \in Cancels : cancel'[k].run = s
      BY <1>1, <2>2, <2>4 DEF Remembered
    <2> QED
      BY <1>1, <1>2, <1>3, <2>1, <2>5, <2>6, <2>7 DEF Remembered
  <1> QED
    BY <1>4, <1>5
\* A cancel() that finds the ActiveRun.
LEMMA CancelActiveInvariant ==
  ASSUME WorkerInvariant, NEW c \in Cancels, CancelActive(c)
  PROVE  RunsOK' /\ Remembered'
  <1>1. PICK r \in Runs : r = active
    BY DEF CancelActive, WorkerInvariant, TypeOK
  <1> DEFINE a == [activeRun[r] EXCEPT !.cancelRequested = TRUE]
  <1>2. /\ TypeOK /\ Remembered /\ Holdings(r) /\ Progress(r) /\ Cancellation(r)
        /\ a \in ActiveRuns /\ activeRun[r] \in ActiveRuns
        /\ cancel[c].run = NoRun /\ pc[r] \in ActivePhases
    BY <1>1, ActiveRunUpdates
    DEF CancelActive, WorkerInvariant, Remembered, RunsOK, RunInvariant, TypeOK, ExclusiveRun
  <1>3. UNCHANGED <<workerVars, watcher, pc, result, tempFile, turn, start>>
    BY DEF CancelActive
  <1>4. CASE activeRun[r].cancellation = "confirmed"
    <2>1. /\ cancel' = [cancel EXCEPT ![c] = [status |-> "requested", run |-> r]]
          /\ UNCHANGED <<activeRun, interrupt, interrupts>>
      BY <1>1, <1>4 DEF CancelActive
    <2>2. activeRun[r].cancelRequested /\ turn[r] = "cancelled"
      BY <1>2, <1>4 DEF Cancellation
    <2>3. \A s \in Runs : /\ Same(s) /\ (Noted(s) => Noted(s)')
                          /\ (Marked(s)' => Marked(s) \/ s = r)
      BY <1>3, <2>1 DEF Same, Noted, Marked, workerVars
    <2>4. Noted(r)'
      BY <2>1, <2>2 DEF Noted
    <2>5. RunsOK'
      BY <2>3, SameRun DEF RunsOK, WorkerInvariant
    <2> QED
      BY <1>2, <1>3, <2>1, <2>2, <2>3, <2>4, <2>5, OneCancelMoves
         DEF CancelStatuses, Remembered, workerVars
  <1>5. CASE activeRun[r].cancellation # "confirmed"
    <2>1. PICK status \in {"awaiting", "queued"} :
            /\ MaybeCancel(r, a)
            /\ cancel' = [cancel EXCEPT ![c] = [status |-> status, run |-> r]]
      BY <1>1, <1>5 DEF CancelActive
    <2>2. /\ a.cancelRequested /\ a.cancellation = activeRun[r].cancellation
          /\ a.ipc = activeRun[r].ipc /\ a.disposed = activeRun[r].disposed
          /\ a.conversationId = activeRun[r].conversationId
          /\ a.ownerClientId = activeRun[r].ownerClientId
          /\ a.realTurnId = activeRun[r].realTurnId
      BY <1>2 DEF ActiveRuns
    <2> HIDE DEF a
    <2> DEFINE m == AfterMaybeCancel(a)
    <2>3. /\ m.cancelRequested = a.cancelRequested /\ m.ipc = a.ipc
          /\ m.disposed = a.disposed
          /\ m.conversationId = a.conversationId /\ m.ownerClientId = a.ownerClientId
          /\ m.realTurnId = a.realTurnId
      BY <1>2, AfterMaybeCancelFacts
    <2>4. a.cancellation # "none" => a.cancelRequested /\ Addressable(a)
      BY <1>2, <2>2 DEF Cancellation, Addressable
    <2>5. /\ Cancellation(r)' /\ activeRun'[r] = m
          /\ \A s \in Runs \ {r} : /\ activeRun'[s] = activeRun[s]
                                   /\ interrupt'[s] = interrupt[s]
                                   /\ interrupts'[s] = interrupts[s]
      BY <1>2, <1>3, <2>1, <2>2, <2>4, MaybeCancelInvariant
    <2> HIDE DEF m
    <2>6. Holdings(r)'
      BY <1>2, <1>3, <2>2, <2>3, <2>5, PhaseClasses
      DEF Holdings, FreshPhases
    <2>7. Progress(r)'
      BY <1>2, <1>3, <2>2, <2>3, <2>5 DEF Progress, Addressable
    <2>8. /\ \A s \in Runs \ {r} : Same(s)
          /\ \A s \in Runs : /\ Noted(s) => Noted(s)'
                             /\ Marked(s)' => Marked(s) \/ s = r
          /\ Noted(r)'
      BY <1>3, <2>2, <2>3, <2>5 DEF Same, Noted, Marked, workerVars
    <2>9. RunsOK'
      BY <2>5, <2>6, <2>7, <2>8, OnlyOneRun DEF RunInvariant, WorkerInvariant
    <2> QED
      BY <1>2, <1>3, <2>1, <2>8, <2>9, OneCancelMoves
         DEF CancelStatuses, Remembered, workerVars
  <1> QED
    BY <1>4, <1>5

LEMMA CancelStepInvariant ==
  ASSUME WorkerInvariant, NEW c \in Cancels, CancelStep(c)
  PROVE  RunsOK' /\ Remembered'
  <1>1. CASE CancelSettles(c)
    <2>1. /\ TypeOK /\ Remembered /\ UNCHANGED <<workerVars, runVars, ownerVars>>
          /\ cancel[c].run \in Runs
      BY <1>1 DEF CancelSettles, WorkerInvariant, Remembered, TypeOK
    <2>2. PICK r \in Runs : r = cancel[c].run
      BY <2>1
    <2>3. PICK status \in {"requested", "rejected"} :
            /\ cancel' = [cancel EXCEPT ![c].status = status]
            /\ status = "requested" => activeRun[r].cancellation = "confirmed"
      BY <1>1, <2>2 DEF CancelSettles
    <2>4. cancel' = [cancel EXCEPT ![c] = [status |-> status, run |-> r]]
      <3>1. cancel[c] \in [status : CancelStatuses, run : Runs \union {NoRun}]
        BY <2>1 DEF TypeOK
      <3>2. [cancel[c] EXCEPT !.status = status] = [status |-> status, run |-> r]
        BY <2>2, <3>1
      <3> QED
        BY <2>3, <3>2
    <2>5. status = "requested" => turn[r] = "cancelled"
      BY <2>3 DEF WorkerInvariant, RunsOK, RunInvariant, Cancellation
    <2>6. /\ \A s \in Runs : /\ Same(s)
                             /\ Noted(s) => Noted(s)'
                             /\ Marked(s)' => Marked(s) \/ s = r
          /\ Noted(r)'
      <3>1. Noted(r)
        BY <2>1, <2>2, NoRunAssumption DEF Remembered
      <3> QED
        BY <2>1, <3>1 DEF Same, Noted, Marked, workerVars, runVars, ownerVars
    <2>7. RunsOK'
      BY <2>6, SameRun DEF RunsOK, WorkerInvariant
    <2>8. status \in CancelStatuses \ {"idle", "none"}
      BY DEF CancelStatuses
    <2>9. UNCHANGED turn /\ (cancelRequestedBeforeActive' => runLock')
      BY <2>1 DEF Remembered, workerVars, ownerVars
    <2> QED
      BY <2>1, <2>2, <2>4, <2>5, <2>6, <2>7, <2>8, <2>9, OneCancelMoves
  <1> QED
    BY <1>1, CancelBeforeActiveInvariant, CancelActiveInvariant DEF CancelStep

----------------------------------------------------------------------------
(* The invariant, and what follows from it                                 *)

LEMMA InitInvariant == Init => WorkerInvariant
  <1> SUFFICES ASSUME Init PROVE WorkerInvariant
    OBVIOUS
  <1>1. TypeOK
    BY InitType
  <1>2. ExclusiveRun
    BY PhaseClasses, NoRunAssumption DEF Init, ExclusiveRun
  <1>3. RunsOK
    <2> SUFFICES ASSUME NEW r \in Runs PROVE RunInvariant(r)
      BY DEF RunsOK
    <2>1. /\ pc[r] = "idle" /\ activeRun[r] = NewActiveRun(FALSE) /\ watcher[r] = NewWatcher
          /\ result[r] = "none" /\ tempFile = {} /\ turn[r] = "none" /\ start[r] = "none"
          /\ interrupt[r] = "none" /\ interrupts[r] = 0
      BY DEF Init
    <2>2. Holdings(r)
      BY <2>1 DEF Holdings, NewActiveRun, NewWatcher, BootstrapPhases, ConnectedPhases,
         OwnerKnownPhases
    <2>3. Progress(r)
      BY <2>1 DEF Progress, NewActiveRun, Outcomes, TurnPhases
    <2>4. Cancellation(r)
      BY <2>1 DEF Cancellation, NewActiveRun
    <2> QED
      BY <2>2, <2>3, <2>4 DEF RunInvariant
  <1>4. Remembered
    BY DEF Init, Remembered, Marked, NewActiveRun
  <1> QED
    BY <1>1, <1>2, <1>3, <1>4 DEF WorkerInvariant

LEMMA StepInvariant == WorkerInvariant /\ [Next]_vars => WorkerInvariant'
  <1> SUFFICES ASSUME WorkerInvariant, [Next]_vars PROVE WorkerInvariant'
    OBVIOUS
  <1>1. TypeOK' /\ ExclusiveRun'
    BY StepType, StepExclusive DEF WorkerInvariant
  <1>2. RunsOK' /\ Remembered'
    <2>1. CASE UNCHANGED vars
      <3>1. \A s \in Runs : Same(s) /\ (Noted(s) => Noted(s)') /\ (Marked(s)' => Marked(s))
        BY <2>1 DEF Same, Noted, Marked, vars, workerVars, runVars, ownerVars
      <3>2. RunsOK'
        BY <3>1, SameRun DEF RunsOK, WorkerInvariant
      <3> QED
        BY <2>1, <3>1, <3>2, CancelsKept
           DEF WorkerInvariant, Remembered, vars, workerVars, ownerVars
    <2>2. ASSUME NEW r \in Runs, ServiceStep(r) \/ RunStep(r) \/ IpcStep(r) \/ OwnerStep(r)
          PROVE  RunsOK' /\ Remembered'
      BY <2>2, ServiceStepInvariant, RunStepInvariant, IpcStepInvariant, OwnerStepInvariant
    <2>3. ASSUME NEW c \in Cancels, CancelStep(c)
          PROVE  RunsOK' /\ Remembered'
      BY <2>3, CancelStepInvariant
    <2>4. CASE Dispose
      BY <2>4, DisposeInvariant
    <2> QED
      BY <2>1, <2>2, <2>3, <2>4 DEF Next
  <1> QED
    BY <1>1, <1>2 DEF WorkerInvariant

\* In every reachable state a run holds what its await says it holds, its
\* cancellation fits its turn, and no cancel is forgotten or made up.
THEOREM WorkerInvariantHolds == Spec => []WorkerInvariant
  BY InitInvariant, StepInvariant, PTL DEF Spec

LEMMA CancelledRun ==
  ASSUME WorkerInvariant, NEW c \in Cancels, cancel[c].run # NoRun,
         result[cancel[c].run] \in Outcomes
  PROVE  LET r == cancel[c].run IN r \in Runs /\ activeRun[r].cancellation # "none"
  <1>1. PICK r \in Runs : r = cancel[c].run
    BY DEF WorkerInvariant, TypeOK
  <1>2. Noted(r) /\ Progress(r) /\ Cancellation(r)
    BY <1>1 DEF WorkerInvariant, Remembered, RunsOK, RunInvariant
  <1>3. activeRun[r].cancelRequested /\ Addressable(activeRun[r])
    BY <1>1, <1>2 DEF Noted, Progress, Outcomes, Failures
  <1> QED
    BY <1>1, <1>2, <1>3 DEF Cancellation

\* A cancel() that was told "queued" is not lost: the run it met does not
\* report an outcome before an interrupt of its turn was attempted.
THEOREM QueuedCancelNotLost == Spec => []QueuedCancelReachesTurn
  <1>1. WorkerInvariant => QueuedCancelReachesTurn
    <2> SUFFICES ASSUME WorkerInvariant, NEW c \in Cancels, cancel[c].status = "queued",
                        result[cancel[c].run] \in Outcomes
                 PROVE  activeRun[cancel[c].run].cancellation # "none"
      BY DEF QueuedCancelReachesTurn
    <2>1. cancel[c].run # NoRun
      BY DEF WorkerInvariant, Remembered
    <2> QED
      BY <2>1, CancelledRun
  <1> QED
    BY <1>1, WorkerInvariantHolds, PTL

\* An interrupt is only ever written for a run that some cancel() met: no
\* cancel leaks into the next run.
THEOREM NoCancelLeaks == Spec => []CancelStaysWithItsRun
  <1>1. WorkerInvariant => CancelStaysWithItsRun
    <2> SUFFICES ASSUME WorkerInvariant, NEW r \in Runs, interrupts[r] > 0
                 PROVE  \E c \in Cancels : cancel[c].run = r
      BY DEF CancelStaysWithItsRun
    <2>1. Cancellation(r) /\ Remembered
      BY DEF WorkerInvariant, RunsOK, RunInvariant
    <2>2. Marked(r)
      BY <2>1 DEF Cancellation, Marked
    <2> QED
      BY <2>1, <2>2 DEF Remembered
  <1> QED
    BY <1>1, WorkerInvariantHolds, PTL

\* However many cancels a run meets, one interrupt is written for it at most.
THEOREM InterruptOnce == Spec => []AtMostOneInterrupt
  <1>1. WorkerInvariant => AtMostOneInterrupt
    BY DEF WorkerInvariant, RunsOK, RunInvariant, Cancellation, AtMostOneInterrupt
  <1> QED
    BY <1>1, WorkerInvariantHolds, PTL

\* When cancel() answers "requested" the owner has stopped the exact turn.
THEOREM RequestedIsTrue == Spec => []RequestedMeansCancelled
  <1>1. WorkerInvariant => RequestedMeansCancelled
    BY DEF WorkerInvariant, Remembered, RequestedMeansCancelled
  <1> QED
    BY <1>1, WorkerInvariantHolds, PTL

\* A run that has settled, in whatever way, leaves no temporary file unless the
\* removal itself failed, no pending interrupt and no open socket that a
\* dispose() had not met.
THEOREM CleanExit == Spec => []NothingLeftBehind
  <1>1. WorkerInvariant => NothingLeftBehind
    <2> SUFFICES ASSUME WorkerInvariant, NEW r \in Runs, pc[r] = "done"
                 PROVE  /\ r \in tempFile => result[r] = "unremoved"
                        /\ \/ /\ activeRun[r].ipc \in {"none", "closed"}
                              /\ activeRun[r].cancellation # "pending"
                           \/ activeRun[r].ipc = "open" /\ activeRun[r].disposed
      BY DEF NothingLeftBehind
    <2>1. Holdings(r) /\ Cancellation(r) /\ activeRun[r] \in ActiveRuns
      BY DEF WorkerInvariant, RunsOK, RunInvariant, TypeOK
    <2>2. activeRun[r].ipc \in {"none", "closed", "open"}
      BY <2>1 DEF Holdings, ActiveRuns
    <2> QED
      BY <2>1, <2>2 DEF Holdings, Cancellation
  <1> QED
    BY <1>1, WorkerInvariantHolds, PTL

----------------------------------------------------------------------------
(* OfficialCodexWorker implements ExactRun: every step of the worker, of   *)
(* the owner, of the socket or of a caller is a step of the abstract       *)
(* promise, or changes nothing that it speaks of.                          *)

HolderIn(phases) == IF \E r \in Runs : phases[r] \in Section
                    THEN CHOOSE r \in Runs : phases[r] \in Section ELSE NoRun
Holder == HolderIn(pc)
Started == {r \in Runs : start[r] # "none"}
Wanted == {cancel[c].run : c \in Cancels} \ {NoRun}
Attempted == {r \in Runs : activeRun[r].cancellation # "none"}

LEMMA HolderIsOne ==
  ASSUME NEW phases, \A r, s \in Runs : phases[r] \in Section /\ phases[s] \in Section => r = s
  PROVE  /\ \A r \in Runs : phases[r] \in Section <=> HolderIn(phases) = r
         /\ HolderIn(phases) \in Runs \union {NoRun}
         /\ (\A r \in Runs : phases[r] \notin Section) <=> HolderIn(phases) = NoRun
  <1>1. CASE \E r \in Runs : phases[r] \in Section
    <2>1. HolderIn(phases) \in Runs /\ phases[HolderIn(phases)] \in Section
      BY <1>1 DEF HolderIn
    <2> QED
      BY <1>1, <2>1, NoRunAssumption
  <1>2. CASE ~\E r \in Runs : phases[r] \in Section
    BY <1>2, NoRunAssumption DEF HolderIn
  <1> QED
    BY <1>1, <1>2

\* The two states of a step, as the abstract steps see them.
LEMMA HolderFacts ==
  ASSUME WorkerInvariant, WorkerInvariant'
  PROVE  /\ \A r \in Runs : pc[r] \in Section <=> Holder = r
         /\ \A r \in Runs : pc'[r] \in Section <=> Holder' = r
         /\ Holder \in Runs \union {NoRun} /\ Holder' \in Runs \union {NoRun}
         /\ (\A r \in Runs : pc[r] \notin Section) <=> Holder = NoRun
         /\ (\A r \in Runs : pc'[r] \notin Section) <=> Holder' = NoRun
  <1>1. /\ \A r, s \in Runs : pc[r] \in Section /\ pc[s] \in Section => r = s
        /\ \A r, s \in Runs : pc'[r] \in Section /\ pc'[s] \in Section => r = s
    BY DEF WorkerInvariant, ExclusiveRun
  <1>2. Holder = HolderIn(pc) /\ Holder' = HolderIn(pc')
    BY DEF Holder, HolderIn
  <1> QED
    BY <1>1, <1>2, HolderIsOne

\* The same phases inside the lock, before and after: the same holder.
LEMMA HolderStays ==
  ASSUME WorkerInvariant, WorkerInvariant',
         \A r \in Runs : pc[r] \in Section <=> pc'[r] \in Section
  PROVE  Holder' = Holder
  BY HolderFacts
----------------------------------------------------------------------------
(* The abstract steps, said of the worker's state                          *)

AbstractStep == Abstract!Next \/ UNCHANGED Abstract!vars

LEMMA StutterStep ==
  ASSUME UNCHANGED <<Holder, Started, Wanted, Attempted, result>>
  PROVE  AbstractStep
  BY DEF AbstractStep, Abstract!vars, Holder, HolderIn, HoldsWorker, Started, Wanted, Attempted

LEMMA AcquireStep ==
  ASSUME NEW r \in Runs, Holder = NoRun, result[r] = "none", Holder' = r,
         UNCHANGED <<Started, Wanted, Attempted, result>>
  PROVE  AbstractStep
  BY DEF AbstractStep, Abstract!Next, Abstract!Acquire, Holder, HolderIn, HoldsWorker,
     Started, Wanted, Attempted

LEMMA RefuseStep ==
  ASSUME NEW r \in Runs, Holder # r, result[r] = "none",
         NEW why \in {"rejected", "RUN_ACTIVE"}, result' = [result EXCEPT ![r] = why],
         UNCHANGED <<Holder, Started, Wanted, Attempted>>
  PROVE  AbstractStep
  BY DEF AbstractStep, Abstract!Next, Abstract!Refuse, Abstract!Refusals, Holder, HolderIn,
     HoldsWorker, Started, Wanted, Attempted

LEMMA StartTurnStep ==
  ASSUME NEW r \in Runs, Holder = r, r \notin Started, Started' = Started \union {r},
         UNCHANGED <<Holder, Wanted, Attempted, result>>
  PROVE  AbstractStep
  BY DEF AbstractStep, Abstract!Next, Abstract!StartTurn, Holder, HolderIn, HoldsWorker,
     Started, Wanted, Attempted

LEMMA CancelsStep ==
  ASSUME NEW r \in Runs, Holder = r, Wanted' = Wanted \union {r},
         \/ r \in Started \ Attempted /\ Attempted' = Attempted \union {r}
         \/ Attempted' = Attempted,
         UNCHANGED <<Holder, Started, result>>
  PROVE  AbstractStep
  BY DEF AbstractStep, Abstract!Next, Abstract!Cancel, Abstract!Attempt, Holder, HolderIn,
     HoldsWorker, Started, Wanted, Attempted

LEMMA InterruptStep ==
  ASSUME NEW r \in Runs, Holder = r, r \in Wanted,
         r \in Started \ Attempted, Attempted' = Attempted \union {r},
         UNCHANGED <<Holder, Started, Wanted, result>>
  PROVE  AbstractStep
  BY DEF AbstractStep, Abstract!Next, Abstract!Interrupt, Abstract!Attempt, Holder, HolderIn,
     HoldsWorker, Started, Wanted, Attempted

LEMMA SettleStep ==
  ASSUME NEW r \in Runs, Holder = r, Holder' = NoRun,
         NEW res \in Outcomes \union Failures, result' = [result EXCEPT ![r] = res],
         res \in Outcomes => r \in Started /\ (r \in Wanted => r \in Attempted),
         UNCHANGED <<Started, Wanted, Attempted>>
  PROVE  AbstractStep
  BY DEF AbstractStep, Abstract!Next, Abstract!Settle, Abstract!Outcomes, Outcomes,
     Abstract!Failures, Failures, Holder,
     HolderIn, HoldsWorker, Started, Wanted, Attempted
----------------------------------------------------------------------------
(* Steps of a run                                                          *)

\* Leaving run() is Settle: an outcome is only reported for a turn that was
\* asked for, and for a cancelled run only after an attempt to interrupt it.
LEMMA FinishSettles ==
  ASSUME WorkerInvariant, WorkerInvariant', NEW r \in Runs, NEW a \in ActiveRuns,
         NEW res \in Outcomes \union Failures, FinishWith(r, a, res), pc[r] \in Section,
         a.cancellation = activeRun[r].cancellation, UNCHANGED <<cancel, start>>
  PROVE  AbstractStep
  <1>1. /\ TypeOK /\ Progress(r)' /\ Cancellation(r)' /\ Remembered'
    BY DEF WorkerInvariant, RunsOK, RunInvariant
  <1>2. /\ pc' = [pc EXCEPT ![r] = "done"] /\ result' = [result EXCEPT ![r] = res]
        /\ activeRun' = [activeRun EXCEPT ![r] = DisposeIpc(a)]
    BY DEF FinishWith, Goto
  <1>3. Holder = r /\ Holder' = NoRun
    <2>1. \A s \in Runs : pc'[s] \notin Section
      BY <1>1, <1>2, PhaseClasses DEF WorkerInvariant, ExclusiveRun, TypeOK
    <2> QED
      BY <2>1, HolderFacts
  <1>4. UNCHANGED <<Started, Wanted, Attempted>>
    <2>1. DisposeIpc(a).cancellation = "none" <=> a.cancellation = "none"
      BY DisposeIpcFacts
    <2>2. \A s \in Runs : activeRun'[s].cancellation = "none" <=> activeRun[s].cancellation = "none"
      BY <1>1, <1>2, <2>1 DEF TypeOK
    <2> QED
      BY <2>2 DEF Started, Wanted, Attempted
  <1>5. ASSUME res \in Outcomes
        PROVE  r \in Started /\ (r \in Wanted => r \in Attempted)
    <2>1. result'[r] = res /\ pc'[r] = "done"
      BY <1>1, <1>2 DEF TypeOK
    <2>2. Addressable(activeRun'[r]) /\ start[r] # "none"
      BY <1>1, <1>5, <2>1 DEF Progress, Addressable
    <2>3. r \in Wanted => activeRun'[r].cancelRequested
      <3>1. ASSUME NEW c \in Cancels, cancel[c].run = r
            PROVE  Noted(r)'
        BY <1>1, <3>1, NoRunAssumption DEF Remembered, Noted
      <3> QED
        BY <1>5, <2>1, <3>1 DEF Wanted, Noted, Outcomes, Failures
    <2>4. r \in Wanted => r \in Attempted'
      BY <1>1, <2>2, <2>3 DEF Cancellation, Attempted
    <2> QED
      BY <1>4, <2>2, <2>4 DEF Started
  <1> QED
    BY <1>2, <1>3, <1>4, <1>5, SettleStep

\* maybeCancel of the run inside is Interrupt, or nothing.
LEMMA MaybeCancelInterrupts ==
  ASSUME WorkerInvariant, WorkerInvariant', NEW r \in Runs, NEW a \in ActiveRuns,
         MaybeCancel(r, a), pc[r] \in Section, pc'[r] \in Section,
         \A s \in Runs \ {r} : pc'[s] = pc[s],
         a.cancellation = activeRun[r].cancellation, UNCHANGED <<cancel, start, result>>
  PROVE  AbstractStep
  <1> DEFINE m == AfterMaybeCancel(a)
  <1>1. /\ TypeOK /\ Cancellation(r)' /\ Progress(r)' /\ Remembered'
    BY DEF WorkerInvariant, RunsOK, RunInvariant
  <1>2. /\ activeRun'[r] = m /\ \A s \in Runs \ {r} : activeRun'[s] = activeRun[s]
    BY <1>1 DEF MaybeCancel, TypeOK
  <1>3. a.cancellation # "none" => m.cancellation # "none"
    BY AfterMaybeCancelFacts
  <1> HIDE DEF m
  <1>4. Holder = r /\ UNCHANGED <<Holder, Started, Wanted>>
    BY HolderFacts, HolderStays DEF Started, Wanted
  <1>5. CASE m.cancellation # "none" /\ a.cancellation = "none"
    <2>1. /\ activeRun'[r].cancelRequested /\ Addressable(activeRun'[r])
          /\ start[r] # "none"
      BY <1>1, <1>2, <1>5 DEF Cancellation, Progress, Addressable
    <2>2. r \in Wanted
      BY <1>1, <2>1, NoRunAssumption DEF Remembered, Marked, Wanted
    <2>3. r \in Started \ Attempted /\ Attempted' = Attempted \union {r}
      BY <1>2, <1>5, <2>1 DEF Started, Attempted
    <2> QED
      BY <1>4, <2>2, <2>3, InterruptStep
  <1>6. CASE ~(m.cancellation # "none" /\ a.cancellation = "none")
    <2>1. Attempted' = Attempted
      BY <1>2, <1>3, <1>6 DEF Attempted
    <2> QED
      BY <1>4, <2>1, StutterStep
  <1> QED
    BY <1>5, <1>6

LEMMA ServiceRefines ==
  ASSUME WorkerInvariant, WorkerInvariant', NEW r \in Runs,
         pc[r] \in {"idle"} \union ServicePhases, ServiceStep(r) \/ EnterWorker(r)
  PROVE  AbstractStep
  <1>1. /\ TypeOK /\ pc[r] \notin Section /\ Holder # r /\ result[r] = "none"
    <2>1. pc[r] \notin Section \union {"done"}
      BY PhaseClasses DEF ServicePhases
    <2> QED
      BY <2>1, HolderFacts DEF WorkerInvariant, RunsOK, RunInvariant, Progress
  <1>2. ASSUME NEW res \in {"rejected", "RUN_ACTIVE"}, Refuse(r, res)
        PROVE  AbstractStep
    <2>1. /\ result' = [result EXCEPT ![r] = res] /\ pc' = [pc EXCEPT ![r] = "done"]
          /\ UNCHANGED <<activeRun, cancel, start>>
      BY <1>2 DEF Refuse, Goto, ownerVars
    <2>2. Holder' = Holder
      BY <1>1, <2>1, PhaseClasses, HolderStays DEF TypeOK
    <2> QED
      BY <1>1, <2>1, <2>2, RefuseStep DEF Started, Wanted, Attempted
  <1>3. ASSUME NEW phase \in ServicePhases, Goto(r, phase),
               UNCHANGED <<activeRun, result, cancel, ownerVars>>
        PROVE  AbstractStep
    <2>1. Holder' = Holder
      BY <1>1, <1>3, PhaseClasses, HolderStays DEF TypeOK, Goto
    <2> QED
      BY <1>3, <2>1, StutterStep DEF Started, Wanted, Attempted, ownerVars
  <1>4. ASSUME EnterWorker(r), ~IsActive
        PROVE  AbstractStep
    <2>1. /\ pc' = [pc EXCEPT ![r] = "authorize"]
          /\ UNCHANGED <<activeRun, result, cancel, start>>
      BY <1>4 DEF EnterWorker, Goto, ownerVars
    <2>2. Holder = NoRun /\ Holder' = r
      <3>1. \A s \in Runs : pc[s] \notin Section
        BY <1>4 DEF IsActive, WorkerInvariant, ExclusiveRun
      <3>2. pc'[r] \in Section
        BY <1>1, <2>1, PhaseClasses DEF TypeOK
      <3> QED
        BY <3>1, <3>2, HolderFacts
    <2> QED
      BY <1>1, <2>1, <2>2, AcquireStep DEF Started, Wanted, Attempted
  <1>5. EnterWorker(r) => AbstractStep
    BY <1>2, <1>4 DEF EnterWorker
  <1> QED
    BY <1>2, <1>3, <1>5 DEF ServiceStep, ServiceRun, RequestAuthorized, ServiceRefuses,
       ExtensionActivated, ServicePhases, workerVars
\* Steps between two awaits before the turn: only the request that starts it
\* is one of the abstract worker.
LEMMA BeforeTurnRefines ==
  ASSUME WorkerInvariant, WorkerInvariant', NEW r \in Runs,
         \/ WorkspaceAuthorized(r) \/ BootstrapPrepared(r) \/ BootstrapInvoked(r)
         \/ SessionFound(r) \/ SocketConnected(r) \/ ClientInitialized(r)
         \/ OwnerDiscovered(r) \/ SettingsUpdated(r) \/ BoundaryCaptured(r)
         \/ StartCancelConfirmed(r)
  PROVE  AbstractStep
  <1> USE DEF Goto, workerVars, ownerVars, ResponseArrives
  <1>1. /\ TypeOK /\ Holdings(r) /\ Progress(r)
        /\ UNCHANGED <<cancel, result>> /\ pc[r] \in Section
        /\ \E phase \in ActivePhases : pc' = [pc EXCEPT ![r] = phase]
    BY DEF WorkspaceAuthorized, BootstrapPrepared, BootstrapInvoked, SessionFound, SocketConnected,
       ClientInitialized, OwnerDiscovered, SettingsUpdated, BoundaryCaptured, StartCancelConfirmed,
       WorkerInvariant, RunsOK, RunInvariant, Section, ActivePhases, BootstrapPhases, RequestPhases
  <1>2. Holder = r /\ Holder' = Holder
    BY <1>1, PhaseClasses, HolderFacts, HolderStays DEF TypeOK
  <1>3. UNCHANGED Attempted
    <2>1. activeRun'[r].cancellation = activeRun[r].cancellation
      <3>1. CASE WorkspaceAuthorized(r)
        BY <1>1, <3>1 DEF WorkspaceAuthorized, Holdings, FreshPhases, NewActiveRun, TypeOK
      <3>2. CASE SessionFound(r) \/ SocketConnected(r) \/ OwnerDiscovered(r)
        BY <1>1, <3>2 DEF SessionFound, SocketConnected, OwnerDiscovered, TypeOK, ActiveRuns
      <3>3. CASE \/ BootstrapPrepared(r) \/ BootstrapInvoked(r) \/ ClientInitialized(r)
                 \/ SettingsUpdated(r) \/ BoundaryCaptured(r) \/ StartCancelConfirmed(r)
        BY <3>3 DEF BootstrapPrepared, BootstrapInvoked, ClientInitialized, SettingsUpdated,
           BoundaryCaptured, StartCancelConfirmed
      <3> QED
        BY <3>1, <3>2, <3>3
    <2>2. \A s \in Runs \ {r} : activeRun'[s] = activeRun[s]
      BY <1>1 DEF TypeOK, WorkspaceAuthorized, BootstrapPrepared, BootstrapInvoked, SessionFound,
         SocketConnected, ClientInitialized, OwnerDiscovered, SettingsUpdated, BoundaryCaptured,
         StartCancelConfirmed
    <2> QED
      BY <2>1, <2>2 DEF Attempted
  <1>4. UNCHANGED Wanted
    BY <1>1 DEF Wanted
  <1>5. CASE BoundaryCaptured(r)
    <2>1. r \notin Started /\ Started' = Started \union {r}
      BY <1>1, <1>5 DEF BoundaryCaptured, Progress, TurnPhases, Started, TypeOK
    <2> QED
      BY <1>1, <1>2, <1>3, <1>4, <2>1, StartTurnStep
  <1>6. CASE ~BoundaryCaptured(r)
    <2>1. UNCHANGED Started
      BY <1>6 DEF WorkspaceAuthorized, BootstrapPrepared, BootstrapInvoked, SessionFound,
         SocketConnected, ClientInitialized, OwnerDiscovered, SettingsUpdated,
         StartCancelConfirmed, Started
    <2> QED
      BY <1>1, <1>2, <1>3, <1>4, <2>1, StutterStep
  <1> QED
    BY <1>5, <1>6

LEMMA TurnKnownRefines ==
  ASSUME WorkerInvariant, WorkerInvariant', NEW r \in Runs, TurnStarted(r) \/ Poll(r)
  PROVE  AbstractStep
  <1>1. TypeOK /\ activeRun[r] \in ActiveRuns
    BY DEF WorkerInvariant, TypeOK
  <1>2. ASSUME NEW a \in ActiveRuns, a.cancellation = activeRun[r].cancellation,
               MaybeCancel(r, a), NEW phase \in {"startCancel", "watch", "watchCancel"},
               Goto(r, phase), pc[r] \in {"startTurn", "watch"},
               UNCHANGED <<cancel, start, result>>
        PROVE  AbstractStep
    <2>1. pc[r] \in Section /\ pc'[r] \in Section /\ \A s \in Runs \ {r} : pc'[s] = pc[s]
      BY <1>1, <1>2 DEF Goto, TypeOK, Section, ActivePhases, RequestPhases
    <2> QED
      BY <1>2, <2>1, MaybeCancelInterrupts
  <1>3. CASE TurnStarted(r)
    <2> DEFINE a == [activeRun[r] EXCEPT !.realTurnId = (start[r] = "turnId")]
    <2>1. a \in ActiveRuns /\ a.cancellation = activeRun[r].cancellation
      <3>1. a \in ActiveRuns
        BY <1>1, ActiveRunUpdates
      <3>2. a.cancellation = activeRun[r].cancellation
        BY <1>1 DEF ActiveRuns
      <3> QED
        BY <3>1, <3>2
    <2>2. /\ MaybeCancel(r, a) /\ Goto(r, IF MustCancel(a) THEN "startCancel" ELSE "watch")
          /\ pc[r] = "startTurn" /\ UNCHANGED <<cancel, start, result>>
      BY <1>3 DEF TurnStarted
    <2> HIDE DEF a
    <2> QED
      BY <1>2, <2>1, <2>2
  <1>4. CASE Poll(r)
    <2>1. PICK seen \in SessionShows(r) : Poll(r)!2!(seen)
      BY <1>4 DEF Poll
    <2> DEFINE a == [activeRun[r] EXCEPT !.realTurnId = TRUE]
    <2>2. a \in ActiveRuns /\ a.cancellation = activeRun[r].cancellation
      <3>1. a \in ActiveRuns
        BY <1>1, ActiveRunUpdates
      <3>2. a.cancellation = activeRun[r].cancellation
        BY <1>1 DEF ActiveRuns
      <3> QED
        BY <3>1, <3>2
    <2>3. pc[r] = "watch" /\ UNCHANGED <<cancel, start>>
          /\ seen.outcome \in Outcomes \union {"none"}
      BY <1>4 DEF Poll, SessionShows
    <2>4. \/ FinishWith(r, a, seen.outcome) /\ seen.outcome # "none"
          \/ /\ MaybeCancel(r, a) /\ UNCHANGED result
             /\ Goto(r, IF MustCancel(a) THEN "watchCancel" ELSE "watch")
      BY <2>1
    <2> HIDE DEF a
    <2> QED
      BY <1>2, <2>2, <2>3, <2>4, FinishSettles, PhaseClasses DEF ActivePhases
  <1> QED
    BY <1>3, <1>4

LEMMA RunEndsRefines ==
  ASSUME WorkerInvariant, WorkerInvariant', NEW r \in Runs,
         WatchCancelConfirmed(r) \/ CancelFailsRun(r) \/ RunFails(r) \/ RemovalFails(r)
  PROVE  AbstractStep
  <1>1. TypeOK /\ activeRun[r] \in ActiveRuns
        /\ watcher[r].outcome \in Outcomes \union {"none"}
    BY DEF WorkerInvariant, TypeOK
  <1>2. CASE WatchCancelConfirmed(r)
    <2>1. pc[r] = "watchCancel" /\ UNCHANGED <<cancel, start>>
      BY <1>2 DEF WatchCancelConfirmed, ownerVars
    <2>2. \/ FinishWith(r, activeRun[r], watcher[r].outcome) /\ watcher[r].outcome # "none"
          \/ Goto(r, "watch") /\ UNCHANGED <<activeRun, result>>
      BY <1>2 DEF WatchCancelConfirmed
    <2>3. ASSUME Goto(r, "watch"), UNCHANGED <<activeRun, result>>
          PROVE  AbstractStep
      <3>1. Holder' = Holder
        BY <1>1, <2>1, <2>3, PhaseClasses, HolderStays DEF Goto, TypeOK, ActivePhases
      <3> QED
        BY <2>1, <2>3, <3>1, StutterStep DEF Started, Wanted, Attempted
    <2> QED
      BY <1>1, <2>1, <2>2, <2>3, FinishSettles, PhaseClasses DEF ActivePhases
  <1>3. CASE CancelFailsRun(r)
    BY <1>1, <1>3, FinishSettles, PhaseClasses DEF CancelFailsRun, ActivePhases, Failures, ownerVars
  <1>4. CASE RunFails(r)
    <2> DEFINE a == IF pc[r] \in {"connect", "initialize"}
                    THEN [activeRun[r] EXCEPT !.ipc = "closed"] ELSE activeRun[r]
    <2>1. a \in ActiveRuns /\ a.cancellation = activeRun[r].cancellation
      <3>1. a \in ActiveRuns
        BY <1>1, ActiveRunUpdates
      <3>2. a.cancellation = activeRun[r].cancellation
        BY <1>1 DEF ActiveRuns
      <3> QED
        BY <3>1, <3>2
    <2>2. FinishWith(r, a, "rejected") /\ pc[r] \in Section /\ UNCHANGED <<cancel, start>>
      BY <1>4 DEF RunFails, ownerVars
    <2> HIDE DEF a
    <2> QED
      BY <2>1, <2>2, FinishSettles DEF Failures
  <1>5. CASE RemovalFails(r)
    BY <1>1, <1>5, FinishSettles
       DEF RemovalFails, BootstrapPhases, Section, ActivePhases, Failures, ownerVars
  <1> QED
    BY <1>2, <1>3, <1>4, <1>5

----------------------------------------------------------------------------
(* Steps of the others                                                     *)

\* The socket, the owner and dispose() change nothing the promise speaks of.
LEMMA OthersStutter ==
  ASSUME WorkerInvariant, WorkerInvariant',
         (\E r \in Runs : IpcStep(r) \/ OwnerStep(r)) \/ Dispose \/ UNCHANGED vars
  PROVE  AbstractStep
  <1>1. TypeOK
    BY DEF WorkerInvariant
  <1>2. UNCHANGED <<pc, result, cancel>>
    BY DEF IpcStep, InterruptSettles, ConnectionLost, OwnerStep, OwnerStartsTurn, OwnerRefusesTurn,
       TurnEnds, OwnerInterrupts, OwnerUnchanged, Dispose, vars, workerVars, runVars, ownerVars
  <1>3. UNCHANGED Started
    BY <1>1 DEF IpcStep, InterruptSettles, ConnectionLost, OwnerStep, OwnerStartsTurn,
       OwnerRefusesTurn, TurnEnds, OwnerInterrupts, Dispose, vars, ownerVars, Started, TypeOK
  <1>4. UNCHANGED Attempted
    <2>1. CASE UNCHANGED activeRun
      BY <2>1 DEF Attempted
    <2>2. ASSUME NEW r \in Runs, IpcStep(r)
          PROVE  UNCHANGED Attempted
      <3>1. activeRun[r] \in ActiveRuns
        BY <1>1 DEF TypeOK
      <3>2. activeRun'[r].cancellation = "none" <=> activeRun[r].cancellation = "none"
        BY <1>1, <2>2, <3>1
        DEF IpcStep, InterruptSettles, ConnectionLost, TypeOK, ActiveRuns
      <3>3. \A s \in Runs \ {r} : activeRun'[s] = activeRun[s]
        BY <1>1, <2>2 DEF IpcStep, InterruptSettles, ConnectionLost, TypeOK
      <3> QED
        BY <3>2, <3>3 DEF Attempted
    <2>3. CASE Dispose
      <3>1. PICK r \in Runs : r = active
        BY <1>1, <2>3 DEF Dispose, TypeOK
      <3>2. activeRun' = [activeRun EXCEPT ![r] = DisposeIpc(activeRun[r])]
        BY <1>1, <2>3, <3>1 DEF Dispose
      <3>3. DisposeIpc(activeRun[r]).cancellation = "none" <=> activeRun[r].cancellation = "none"
        BY <1>1, DisposeIpcFacts DEF TypeOK
      <3> QED
        BY <1>1, <3>2, <3>3 DEF Attempted, TypeOK
    <2> QED
      BY <2>1, <2>2, <2>3 DEF OwnerStep, OwnerStartsTurn, OwnerRefusesTurn, TurnEnds,
         OwnerInterrupts, OwnerUnchanged, vars, runVars
  <1>5. UNCHANGED <<Holder, Wanted>>
    BY <1>2, HolderStays DEF Wanted
  <1> QED
    BY <1>2, <1>3, <1>4, <1>5, StutterStep

LEMMA CancelRefines ==
  ASSUME WorkerInvariant, WorkerInvariant', NEW c \in Cancels, CancelStep(c)
  PROVE  AbstractStep
  <1>1. /\ TypeOK /\ Remembered /\ cancel[c].run \in Runs \union {NoRun}
        /\ UNCHANGED <<pc, result, start>>
    BY DEF WorkerInvariant, TypeOK, CancelStep, CancelBeforeActive, CancelActive, CancelSettles,
       workerVars, runVars, ownerVars
  <1>2. UNCHANGED <<Holder, Started>>
    BY <1>1, HolderStays DEF Started
  <1>3. ASSUME NEW r \in Runs, NEW status, cancel[c].run = NoRun,
               cancel' = [cancel EXCEPT ![c] = [status |-> status, run |-> r]]
        PROVE  Wanted' = Wanted \union {r}
    <2>1. cancel'[c].run = r /\ \A k \in Cancels \ {c} : cancel'[k] = cancel[k]
      BY <1>1, <1>3 DEF TypeOK
    <2> QED
      BY <1>3, <2>1, NoRunAssumption DEF Wanted
  <1>4. ASSUME \A k \in Cancels : cancel'[k].run = cancel[k].run
        PROVE  Wanted' = Wanted
    BY <1>4 DEF Wanted
  <1>5. CASE CancelBeforeActive(c)
    <2>1. cancel[c].run = NoRun /\ UNCHANGED Attempted
      BY <1>1, <1>5 DEF CancelBeforeActive, Remembered, Attempted, runVars
    <2>2. CASE runLock
      <3>1. PICK r \in Runs :
              pc[r] \in Section /\ cancel' = [cancel EXCEPT ![c] = [status |-> "queued", run |-> r]]
        BY <1>5, <2>2 DEF CancelBeforeActive
      <3>2. Holder = r
        BY <3>1, HolderFacts
      <3> QED
        BY <1>1, <1>2, <1>3, <2>1, <3>1, <3>2, CancelsStep
    <2>3. CASE ~runLock
      <3>1. \A k \in Cancels : cancel'[k].run = cancel[k].run
        BY <1>1, <1>5, <2>3 DEF CancelBeforeActive, TypeOK
      <3> QED
        BY <1>1, <1>2, <1>4, <2>1, <3>1, StutterStep
    <2> QED
      BY <2>2, <2>3
  <1>6. CASE CancelActive(c)
    <2>1. PICK r \in Runs : r = active
      BY <1>1, <1>6 DEF CancelActive, TypeOK
    <2>2. /\ cancel[c].run = NoRun /\ Holder = r
          /\ Progress(r)' /\ Cancellation(r)'
      BY <1>1, <1>6, <2>1, HolderFacts, PhaseClasses
      DEF CancelActive, Remembered, WorkerInvariant, ExclusiveRun, RunsOK, RunInvariant
    <2>3. \E status : cancel' = [cancel EXCEPT ![c] = [status |-> status, run |-> r]]
      BY <1>6, <2>1 DEF CancelActive
    <2>4. Wanted' = Wanted \union {r}
      BY <1>3, <2>2, <2>3
    <2>5. \/ UNCHANGED Attempted
          \/ r \in Started \ Attempted /\ Attempted' = Attempted \union {r}
      <3>1. CASE UNCHANGED activeRun
        BY <3>1 DEF Attempted
      <3>2. CASE ~UNCHANGED activeRun
        <4> DEFINE a == [activeRun[r] EXCEPT !.cancelRequested = TRUE]
        <4>1. a \in ActiveRuns /\ a.cancellation = activeRun[r].cancellation
          <5>1. activeRun[r] \in ActiveRuns
            BY <1>1 DEF TypeOK
          <5>2. a \in ActiveRuns
            BY <5>1, ActiveRunUpdates
          <5>3. a.cancellation = activeRun[r].cancellation
            BY <5>1 DEF ActiveRuns
          <5> QED
            BY <5>2, <5>3
        <4>2. activeRun' = [activeRun EXCEPT ![r] = AfterMaybeCancel(a)]
          BY <1>6, <2>1, <3>2 DEF CancelActive, MaybeCancel
        <4> HIDE DEF a
        <4>3. /\ activeRun'[r].cancellation = "none" => activeRun[r].cancellation = "none"
              /\ \A s \in Runs \ {r} : activeRun'[s] = activeRun[s]
          BY <1>1, <4>1, <4>2, AfterMaybeCancelFacts DEF TypeOK
        <4>4. activeRun'[r].cancellation # "none" => r \in Started
          BY <1>1, <2>2 DEF Cancellation, Progress, Addressable, Started
        <4> QED
          BY <4>3, <4>4 DEF Attempted
      <3> QED
        BY <3>1, <3>2
    <2> QED
      BY <1>1, <1>2, <2>2, <2>4, <2>5, CancelsStep
  <1>7. CASE CancelSettles(c)
    <2>1. \A k \in Cancels : cancel'[k].run = cancel[k].run
      BY <1>1, <1>7 DEF CancelSettles, TypeOK
    <2>2. UNCHANGED Attempted
      BY <1>7 DEF CancelSettles, Attempted, runVars
    <2> QED
      BY <1>1, <1>2, <1>4, <2>1, <2>2, StutterStep
  <1> QED
    BY <1>5, <1>6, <1>7 DEF CancelStep

----------------------------------------------------------------------------

LEMMA RunRefines ==
  ASSUME WorkerInvariant, WorkerInvariant', NEW r \in Runs, ServiceStep(r) \/ RunStep(r)
  PROVE  AbstractStep
  <1>1. ServiceStep(r) => pc[r] \in {"idle"} \union ServicePhases
    BY DEF ServiceStep, ServiceRun, RequestAuthorized, ServiceRefuses, ExtensionActivated,
       ServicePhases
  <1> QED
    BY <1>1, ServiceRefines, BeforeTurnRefines, TurnKnownRefines, RunEndsRefines
    DEF RunStep, WorkerRun

LEMMA StepRefines == WorkerInvariant /\ WorkerInvariant' /\ [Next]_vars => AbstractStep
  BY RunRefines, CancelRefines, OthersStutter DEF Next

LEMMA InitRefines == Init => Abstract!Init
  <1> SUFFICES ASSUME Init PROVE Abstract!Init
    OBVIOUS
  <1>1. Holder = NoRun
    BY PhaseClasses DEF Init, Holder, HolderIn
  <1>2. Started = {} /\ Wanted = {} /\ Attempted = {}
    BY DEF Init, Started, Wanted, Attempted, NewActiveRun
  <1>3. result = [r \in Runs |-> "none"]
    BY DEF Init
  <1> QED
    BY <1>1, <1>2, <1>3
    DEF Abstract!Init, Holder, HolderIn, HoldsWorker, Started, Wanted, Attempted

\* The worker keeps the promise of ExactRun for any number of calls: one run
\* holds it at a time and asks for one turn at most, a cancel concerns the run
\* that holds it and leads to one attempt at most, and no cancelled run
\* reports an outcome before that attempt.
THEOREM WorkerImplementsExactRun == Spec => ImplementsExactRun
  <1>1. WorkerInvariant /\ WorkerInvariant' /\ [Next]_vars => [Abstract!Next]_(Abstract!vars)
    BY StepRefines DEF AbstractStep
  <1> QED
    BY <1>1, InitRefines, WorkerInvariantHolds, PTL DEF Spec, ImplementsExactRun, Abstract!Spec
=============================================================================
