------------------------ MODULE OfficialCodexWorker ------------------------
(***************************************************************************)
(* src/officialCodexWorker.ts behind src/officialCodexService.ts: one      *)
(* worker for the life of the VS Code window, any number of callers of     *)
(* run() and cancel(), and the Codex owner process at the other end of the *)
(* IPC socket.                                                             *)
(*                                                                         *)
(* The code runs on one thread, so an action is everything between two     *)
(* awaits.  A call of run() is a member of Runs and a call of cancel() a   *)
(* member of Cancels; each is made once.  The turn that run r asks the     *)
(* owner to start is "the turn of r".  Identifiers (conversation, owner    *)
(* client, turn) are abstracted to whether the worker holds them: every    *)
(* place that reads one only tests whether it is null, or sends it to the  *)
(* owner as it is.                                                         *)
(***************************************************************************)
EXTENDS Naturals

CONSTANTS Runs,     \* calls of run()
          Cancels,  \* calls of cancel()
          NoRun     \* the null of the field "active"

ASSUME NoRunAssumption == NoRun \notin Runs

VARIABLES
  active,                       \* OfficialCodexWorker.active
  runLock,                      \* OfficialCodexWorker.runLock
  cancelRequestedBeforeActive,  \* the field of that name
  activeRun,   \* the ActiveRun object of each run
  watcher,     \* locals of each run's waitForExactTurn
  pc,          \* the await each call of run() is suspended at
  result,      \* how each call of run() settled
  tempFile,    \* runs whose temporary bootstrap file exists
  cancel,      \* each call of cancel(): how it stands, the run it met
  turn,        \* owner: the turn of each run
  start,       \* owner: the start-turn request of each run
  interrupt,   \* owner: the last interrupt request of each run
  interrupts   \* history: interrupt requests written to the socket, per run

workerVars == <<active, runLock, cancelRequestedBeforeActive>>
runVars == <<activeRun, watcher, pc, result, tempFile>>
ownerVars == <<turn, start, interrupt, interrupts>>
vars == <<workerVars, runVars, cancel, ownerVars>>

Outcomes == {"completed", "failed", "cancelled"}

\* How a run that held the lock fails: with an error of one of its awaits, or
\* with the one of fs.rm, which replaces it and leaves the temporary file.
Failures == {"rejected", "unremoved"}

ServicePhases == {"authorizeRequest", "activateExtension"}

\* The awaits of worker.run() inside the region that runLock protects.
BootstrapPhases == {"prepareBootstrap", "invokeBootstrap", "awaitSession"}
RequestPhases == {"initialize", "discoverOwner", "updateSettings", "startTurn"}
ActivePhases == BootstrapPhases \union RequestPhases \union
                {"connect", "captureBoundary", "startCancel", "watch", "watchCancel"}
Section == {"authorize"} \union ActivePhases

Phases == {"idle", "done"} \union ServicePhases \union Section

\* A cancel queued before the ActiveRun existed is forgotten.
NewActiveRunBug(cancelRequested) ==
  [conversationId |-> FALSE, ownerClientId |-> FALSE, realTurnId |-> FALSE,
   ipc |-> "none", disposed |-> FALSE,
   cancelRequested |-> FALSE, cancellation |-> "none"]

NewActiveRun(cancelRequested) ==
  [conversationId |-> FALSE, ownerClientId |-> FALSE, realTurnId |-> FALSE,
   ipc |-> "none", disposed |-> FALSE,
   cancelRequested |-> cancelRequested, cancellation |-> "none"]

NewWatcher == [emitted |-> FALSE, outcome |-> "none"]

Init ==
  /\ active = NoRun
  /\ runLock = FALSE
  /\ cancelRequestedBeforeActive = FALSE
  /\ activeRun = [r \in Runs |-> NewActiveRun(FALSE)]
  /\ watcher = [r \in Runs |-> NewWatcher]
  /\ pc = [r \in Runs |-> "idle"]
  /\ result = [r \in Runs |-> "none"]
  /\ tempFile = {}
  /\ cancel = [c \in Cancels |-> [status |-> "idle", run |-> NoRun]]
  /\ turn = [r \in Runs |-> "none"]
  /\ start = [r \in Runs |-> "none"]
  /\ interrupt = [r \in Runs |-> "none"]
  /\ interrupts = [r \in Runs |-> 0]

----------------------------------------------------------------------------
(* Leaving run(), and the IPC client                                       *)

Goto(r, phase) == pc' = [pc EXCEPT ![r] = phase]

\* rejectAll is left out of dispose.
DisposeIpcBug(a) ==
  IF a.ipc = "none" \/ a.disposed THEN a
  ELSE [a EXCEPT !.disposed = TRUE, !.ipc = IF @ = "open" THEN "closed" ELSE @]

\* CodexIpcClient.dispose on the client of one ActiveRun.  A second call does
\* nothing.  While the TCP connection is being made the client has no socket
\* to destroy.
DisposeIpc(a) ==
  IF a.ipc = "none" \/ a.disposed THEN a
  ELSE [a EXCEPT !.disposed = TRUE,
                 !.ipc = IF @ = "open" THEN "closed" ELSE @,
                 !.cancellation = IF @ = "pending" THEN "rejected" ELSE @]

\* The last finally block does not reset cancelRequestedBeforeActive.
FinishWithBug(r, a, res) ==
  /\ Goto(r, "done")
  /\ result' = [result EXCEPT ![r] = res]
  /\ tempFile' = IF res = "unremoved" THEN tempFile \union {r} ELSE tempFile \ {r}
  /\ activeRun' = [activeRun EXCEPT ![r] = DisposeIpc(a)]
  /\ active' = IF active = r THEN NoRun ELSE active
  /\ runLock' = FALSE
  /\ UNCHANGED cancelRequestedBeforeActive

\* The two finally blocks of run() and the one of withTemporaryBootstrapFile;
\* a is the ActiveRun object as the failing or returning step leaves it.
FinishWith(r, a, res) ==
  /\ Goto(r, "done")
  /\ result' = [result EXCEPT ![r] = res]
  /\ tempFile' = IF res = "unremoved" THEN tempFile \union {r} ELSE tempFile \ {r}
  /\ activeRun' = [activeRun EXCEPT ![r] = DisposeIpc(a)]
  /\ active' = IF active = r THEN NoRun ELSE active
  /\ runLock' = FALSE
  /\ cancelRequestedBeforeActive' = FALSE

\* A call that settles before it owns the lock touches no field of the worker.
Refuse(r, res) ==
  /\ Goto(r, "done")
  /\ result' = [result EXCEPT ![r] = res]
  /\ UNCHANGED <<workerVars, activeRun, watcher, tempFile, cancel, ownerVars>>

----------------------------------------------------------------------------
(* maybeCancel                                                             *)

Addressable(a) ==
  a.conversationId /\ a.ownerClientId /\ a.realTurnId /\ a.ipc # "none"

\* maybeCancel has an interrupt to wait for.
MustCancel(a) ==
  a.cancelRequested /\ a.cancellation # "confirmed" /\ Addressable(a)

\* The promise of the first interrupt is not kept.
SendsInterruptBug(a) == MustCancel(a) /\ a.ipc = "open"

SendsInterrupt(a) == MustCancel(a) /\ a.cancellation = "none" /\ a.ipc = "open"

\* The synchronous part of maybeCancel on the object a: the request is made
\* once, its promise is kept, and on a closed socket it is rejected at once.
AfterMaybeCancel(a) ==
  IF MustCancel(a) /\ a.cancellation = "none"
  THEN [a EXCEPT !.cancellation = IF a.ipc = "open" THEN "pending" ELSE "rejected"]
  ELSE a

\* maybeCancel of run r applied to a, the object after the caller's assignments.
MaybeCancel(r, a) ==
  /\ activeRun' = [activeRun EXCEPT ![r] = AfterMaybeCancel(a)]
  /\ IF SendsInterrupt(a)
     THEN /\ interrupt' = [interrupt EXCEPT ![r] = "sent"]
          /\ interrupts' = [interrupts EXCEPT ![r] = @ + 1]
     ELSE UNCHANGED <<interrupt, interrupts>>

----------------------------------------------------------------------------
(* OfficialCodexExecutionService.run                                       *)

ServiceRun(r) ==
  /\ pc[r] = "idle"
  /\ \/ /\ Goto(r, "authorizeRequest")
        /\ UNCHANGED <<workerVars, activeRun, watcher, result, tempFile,
                       cancel, ownerVars>>
     \/ Refuse(r, "rejected")              \* invalid request

RequestAuthorized(r) ==
  /\ pc[r] = "authorizeRequest"
  /\ Goto(r, "activateExtension")
  /\ UNCHANGED <<workerVars, activeRun, watcher, result, tempFile, cancel, ownerVars>>

\* No single workspace, another workspace, no supported extension.
ServiceRefuses(r) == pc[r] \in ServicePhases /\ Refuse(r, "rejected")

IsActive == active # NoRun \/ runLock

\* The guard is inside the try, so refusing a call releases the lock.
EnterWorkerBug(r) ==
  IF IsActive
  THEN FinishWith(r, activeRun[r], "rejected") /\ UNCHANGED <<watcher, cancel, ownerVars>>
  ELSE /\ runLock' = TRUE
       /\ Goto(r, "authorize")
       /\ UNCHANGED <<active, cancelRequestedBeforeActive, activeRun, watcher,
                      result, tempFile, cancel, ownerVars>>

\* OfficialCodexWorker.run up to its first await.
EnterWorker(r) ==
  IF IsActive
  THEN Refuse(r, "rejected")
  ELSE /\ runLock' = TRUE
       /\ Goto(r, "authorize")
       /\ UNCHANGED <<active, cancelRequestedBeforeActive, activeRun, watcher,
                      result, tempFile, cancel, ownerVars>>

ExtensionActivated(r) ==
  /\ pc[r] = "activateExtension"
  /\ IF IsActive THEN Refuse(r, "RUN_ACTIVE") ELSE EnterWorker(r)

\* run() is public and its guard stands on its own, without the service's.
WorkerRun(r) == pc[r] = "idle" /\ EnterWorker(r)

----------------------------------------------------------------------------
(* OfficialCodexWorker.run and execute                                     *)

\* authorizeWorkspace resolves: the ActiveRun object is made and execute begins.
WorkspaceAuthorized(r) ==
  /\ pc[r] = "authorize"
  /\ active' = r
  /\ activeRun' = [activeRun EXCEPT ![r] = NewActiveRun(cancelRequestedBeforeActive)]
  /\ Goto(r, "prepareBootstrap")
  /\ UNCHANGED <<runLock, cancelRequestedBeforeActive, watcher, result, tempFile,
                 cancel, ownerVars>>

BootstrapPrepared(r) ==
  /\ pc[r] = "prepareBootstrap"
  /\ tempFile' = tempFile \union {r}
  /\ Goto(r, "invokeBootstrap")
  /\ UNCHANGED <<workerVars, activeRun, watcher, result, cancel, ownerVars>>

BootstrapInvoked(r) ==
  /\ pc[r] = "invokeBootstrap"
  /\ Goto(r, "awaitSession")
  /\ UNCHANGED <<workerVars, activeRun, watcher, result, tempFile, cancel, ownerVars>>

SessionFound(r) ==
  /\ pc[r] = "awaitSession"
  /\ tempFile' = tempFile \ {r}
  /\ activeRun' = [activeRun EXCEPT ![r].conversationId = TRUE,
                                    ![r].ipc = "connecting"]
  /\ Goto(r, "connect")
  /\ UNCHANGED <<workerVars, watcher, result, cancel, ownerVars>>

\* connect() does not look at "disposed" again once the socket is open.
SocketConnected(r) ==
  /\ pc[r] = "connect"
  /\ activeRun' = [activeRun EXCEPT ![r].ipc = "open"]
  /\ Goto(r, "initialize")
  /\ UNCHANGED <<workerVars, watcher, result, tempFile, cancel, ownerVars>>

\* The response to a request of the run arrives and the next request is sent.
ResponseArrives(r, from, to) ==
  /\ pc[r] = from
  /\ activeRun[r].ipc = "open"
  /\ Goto(r, to)
  /\ UNCHANGED <<workerVars, watcher, result, tempFile, cancel, ownerVars>>

ClientInitialized(r) ==
  ResponseArrives(r, "initialize", "discoverOwner") /\ UNCHANGED activeRun

OwnerDiscovered(r) ==
  /\ ResponseArrives(r, "discoverOwner", "updateSettings")
  /\ activeRun' = [activeRun EXCEPT ![r].ownerClientId = TRUE]

SettingsUpdated(r) ==
  ResponseArrives(r, "updateSettings", "captureBoundary") /\ UNCHANGED activeRun

BoundaryCaptured(r) ==
  /\ pc[r] = "captureBoundary"
  /\ activeRun[r].ipc = "open"
  /\ start' = [start EXCEPT ![r] = "sent"]
  /\ Goto(r, "startTurn")
  /\ UNCHANGED <<workerVars, activeRun, watcher, result, tempFile, cancel,
                 turn, interrupt, interrupts>>

\* The start-turn response, which may not name the turn.
TurnStarted(r) ==
  LET a == [activeRun[r] EXCEPT !.realTurnId = (start[r] = "turnId")] IN
  /\ pc[r] = "startTurn"
  /\ activeRun[r].ipc = "open"
  /\ start[r] \in {"turnId", "noTurnId"}
  /\ MaybeCancel(r, a)
  /\ Goto(r, IF MustCancel(a) THEN "startCancel" ELSE "watch")
  /\ UNCHANGED <<workerVars, watcher, result, tempFile, cancel, turn, start>>

StartCancelConfirmed(r) ==
  /\ pc[r] = "startCancel"
  /\ activeRun[r].cancellation = "confirmed"
  /\ Goto(r, "watch")
  /\ UNCHANGED <<workerVars, activeRun, watcher, result, tempFile, cancel, ownerVars>>

----------------------------------------------------------------------------
(* waitForExactTurn, as the worker meets it: one poll of the session file  *)

\* A record that is not terminal is taken for an outcome.
SessionShowsBug(r) ==
  [prompt : {FALSE} \union {turn[r] # "none"},
   outcome : {"none"} \union ({turn[r]} \ {"none"})]

\* What a poll may read: the prompt once the turn exists, and its terminal
\* event once it has ended.  The file may lag behind the owner.
SessionShows(r) ==
  [prompt : {FALSE} \union {turn[r] # "none"},
   outcome : {"none"} \union ({turn[r]} \intersect Outcomes)]

\* The first poll that knows the turn calls onTurnId and waits for it with
\* what it has read; later polls only look for the terminal event.
Poll(r) ==
  /\ pc[r] = "watch"
  /\ \E seen \in SessionShows(r) :
       LET known == activeRun[r].realTurnId \/ seen.prompt
           a == [activeRun[r] EXCEPT !.realTurnId = TRUE] IN
       /\ known
       /\ IF watcher[r].emitted
          THEN /\ seen.outcome # "none"
               /\ FinishWith(r, a, seen.outcome)
               /\ UNCHANGED <<watcher, interrupt, interrupts>>
          ELSE /\ watcher' = [watcher EXCEPT ![r] =
                                [emitted |-> TRUE, outcome |-> seen.outcome]]
               /\ IF MustCancel(a) \/ seen.outcome = "none"
                  THEN /\ MaybeCancel(r, a)
                       /\ Goto(r, IF MustCancel(a) THEN "watchCancel" ELSE "watch")
                       /\ UNCHANGED <<workerVars, result, tempFile>>
                  ELSE /\ FinishWith(r, a, seen.outcome)
                       /\ UNCHANGED <<interrupt, interrupts>>
  /\ UNCHANGED <<cancel, turn, start>>

\* onTurnId returns and the poll goes on with the outcome it read before.
WatchCancelConfirmed(r) ==
  /\ pc[r] = "watchCancel"
  /\ activeRun[r].cancellation = "confirmed"
  /\ IF watcher[r].outcome # "none"
     THEN FinishWith(r, activeRun[r], watcher[r].outcome)
     ELSE /\ Goto(r, "watch")
          /\ UNCHANGED <<workerVars, activeRun, result, tempFile>>
  /\ UNCHANGED <<watcher, cancel, ownerVars>>

\* The await of maybeCancel throws: the run is rejected.
CancelFailsRun(r) ==
  /\ pc[r] \in {"startCancel", "watchCancel"}
  /\ activeRun[r].cancellation = "rejected"
  /\ FinishWith(r, activeRun[r], "rejected")
  /\ UNCHANGED <<watcher, cancel, ownerVars>>

\* Any other await of the run throws: an error, a refused or lost request, or
\* the deadline of the request, of the bootstrap session or of the watcher.
\* A connect() that fails destroys its own socket.
RunFails(r) ==
  /\ pc[r] \in Section \ {"startCancel", "watchCancel"}
  /\ FinishWith(r,
       IF pc[r] \in {"connect", "initialize"}
       THEN [activeRun[r] EXCEPT !.ipc = "closed"] ELSE activeRun[r],
       "rejected")
  /\ UNCHANGED <<watcher, cancel, ownerVars>>

\* The connection attempt has no timer.
TimerPhasesBug == RequestPhases \union
  {"prepareBootstrap", "awaitSession", "captureBoundary", "watch"}

\* The finally block of withTemporaryBootstrapFile removes the file on every
\* way out, the successful one included; when fs.rm rejects, run() rejects
\* with its error and the file stays.
RemovalFails(r) ==
  /\ pc[r] \in BootstrapPhases
  /\ FinishWith(r, activeRun[r], "unremoved")
  /\ UNCHANGED <<watcher, cancel, ownerVars>>

\* The phases that a timer of the code, or the local file system, ends.
TimerPhases == RequestPhases \union
  {"prepareBootstrap", "awaitSession", "connect", "captureBoundary", "watch"}

DeadlinePasses(r) == pc[r] \in TimerPhases /\ RunFails(r)

----------------------------------------------------------------------------
(* OfficialCodexWorker.cancel and dispose                                  *)

\* No ActiveRun yet: queued when a run holds the lock, otherwise nothing.
CancelBeforeActive(c) ==
  /\ cancel[c].status = "idle"
  /\ active = NoRun
  /\ IF runLock
     THEN /\ cancelRequestedBeforeActive' = TRUE
          /\ \E r \in Runs :
               /\ pc[r] \in Section
               /\ cancel' = [cancel EXCEPT ![c] = [status |-> "queued", run |-> r]]
     ELSE /\ cancel' = [cancel EXCEPT ![c].status = "none"]
          /\ UNCHANGED cancelRequestedBeforeActive
  /\ UNCHANGED <<active, runLock, runVars, ownerVars>>

CancelActive(c) ==
  LET r == active
      a == [activeRun[r] EXCEPT !.cancelRequested = TRUE] IN
  /\ cancel[c].status = "idle"
  /\ active # NoRun
  /\ IF activeRun[r].cancellation = "confirmed"
     THEN /\ cancel' = [cancel EXCEPT ![c] = [status |-> "requested", run |-> r]]
          /\ UNCHANGED <<activeRun, interrupt, interrupts>>
     ELSE /\ MaybeCancel(r, a)
          /\ cancel' = [cancel EXCEPT ![c] =
               [status |-> IF Addressable(a) THEN "awaiting" ELSE "queued", run |-> r]]
  /\ UNCHANGED <<workerVars, watcher, pc, result, tempFile, turn, start>>

\* The await of maybeCancel inside cancel() ends.
CancelSettles(c) ==
  /\ cancel[c].status = "awaiting"
  /\ activeRun[cancel[c].run].cancellation \in {"confirmed", "rejected"}
  /\ cancel' = [cancel EXCEPT ![c].status =
                  IF activeRun[cancel[c].run].cancellation = "confirmed"
                  THEN "requested" ELSE "rejected"]
  /\ UNCHANGED <<workerVars, runVars, ownerVars>>

\* Deactivation of the extension.
Dispose ==
  /\ active # NoRun
  /\ activeRun' = [activeRun EXCEPT ![active] = DisposeIpc(@)]
  /\ UNCHANGED <<workerVars, watcher, pc, result, tempFile, cancel, ownerVars>>

\* Any answer that is not an error confirms the interrupt.
InterruptSettlesLaxBug(r) ==
  /\ activeRun[r].cancellation = "pending"
  /\ \/ /\ interrupt[r] \in {"exact", "other", "error"}
        /\ activeRun[r].ipc = "open"
        /\ activeRun' = [activeRun EXCEPT ![r].cancellation =
                           IF interrupt[r] # "error" THEN "confirmed" ELSE "rejected"]
     \/ activeRun' = [activeRun EXCEPT ![r].cancellation = "rejected"]
  /\ UNCHANGED <<workerVars, watcher, pc, result, tempFile, cancel, ownerVars>>

\* The interrupt request has no timer.
InterruptSettlesUntimedBug(r) ==
  /\ activeRun[r].cancellation = "pending"
  /\ interrupt[r] \in {"exact", "other", "error"}
  /\ activeRun[r].ipc = "open"
  /\ activeRun' = [activeRun EXCEPT ![r].cancellation =
                     IF interrupt[r] = "exact" THEN "confirmed" ELSE "rejected"]
  /\ UNCHANGED <<workerVars, watcher, pc, result, tempFile, cancel, ownerVars>>

\* The response to the interrupt, or its timer.
InterruptSettles(r) ==
  /\ activeRun[r].cancellation = "pending"
  /\ \/ /\ interrupt[r] \in {"exact", "other", "error"}
        /\ activeRun[r].ipc = "open"
        /\ activeRun' = [activeRun EXCEPT ![r].cancellation =
                           IF interrupt[r] = "exact" THEN "confirmed" ELSE "rejected"]
     \/ activeRun' = [activeRun EXCEPT ![r].cancellation = "rejected"]
  /\ UNCHANGED <<workerVars, watcher, pc, result, tempFile, cancel, ownerVars>>

\* The socket errors or closes: rejectAll.
ConnectionLost(r) ==
  /\ activeRun[r].ipc = "open"
  /\ activeRun' = [activeRun EXCEPT ![r].ipc = "closed",
                     ![r].cancellation = IF @ = "pending" THEN "rejected" ELSE @]
  /\ UNCHANGED <<workerVars, watcher, pc, result, tempFile, cancel, ownerVars>>

----------------------------------------------------------------------------
(* The Codex owner process (not in src/): it may handle a request after    *)
(* the client has stopped waiting for it.                                  *)

OwnerUnchanged == UNCHANGED <<workerVars, runVars, cancel, interrupts>>

OwnerStartsTurn(r) ==
  /\ start[r] = "sent"
  /\ turn' = [turn EXCEPT ![r] = "running"]
  /\ \E reply \in {"turnId", "noTurnId"} : start' = [start EXCEPT ![r] = reply]
  /\ OwnerUnchanged /\ UNCHANGED interrupt

OwnerRefusesTurn(r) ==
  /\ start[r] = "sent"
  /\ start' = [start EXCEPT ![r] = "error"]
  /\ OwnerUnchanged /\ UNCHANGED <<turn, interrupt>>

\* The turn ends by itself, or the user stops it in the Codex panel.
TurnEnds(r) ==
  /\ turn[r] = "running"
  /\ \E outcome \in Outcomes : turn' = [turn EXCEPT ![r] = outcome]
  /\ OwnerUnchanged /\ UNCHANGED <<start, interrupt>>

\* The owner stops the exact turn, or answers without having done so.
OwnerInterrupts(r) ==
  /\ interrupt[r] = "sent"
  /\ \/ /\ turn[r] = "running"
        /\ turn' = [turn EXCEPT ![r] = "cancelled"]
        /\ interrupt' = [interrupt EXCEPT ![r] = "exact"]
     \/ /\ \E reply \in {"other", "error"} :
             interrupt' = [interrupt EXCEPT ![r] = reply]
        /\ UNCHANGED turn
  /\ OwnerUnchanged /\ UNCHANGED start

----------------------------------------------------------------------------

ServiceStep(r) ==
  ServiceRun(r) \/ RequestAuthorized(r) \/ ServiceRefuses(r) \/ ExtensionActivated(r)

RunStep(r) ==
  \/ WorkerRun(r) \/ WorkspaceAuthorized(r)
  \/ BootstrapPrepared(r) \/ BootstrapInvoked(r) \/ SessionFound(r)
  \/ SocketConnected(r) \/ ClientInitialized(r) \/ OwnerDiscovered(r)
  \/ SettingsUpdated(r) \/ BoundaryCaptured(r) \/ TurnStarted(r)
  \/ StartCancelConfirmed(r) \/ Poll(r) \/ WatchCancelConfirmed(r)
  \/ CancelFailsRun(r) \/ RunFails(r) \/ RemovalFails(r)

IpcStep(r) == InterruptSettles(r) \/ ConnectionLost(r)

OwnerStep(r) ==
  OwnerStartsTurn(r) \/ OwnerRefusesTurn(r) \/ TurnEnds(r) \/ OwnerInterrupts(r)

CancelStep(c) == CancelBeforeActive(c) \/ CancelActive(c) \/ CancelSettles(c)

Next ==
  \/ \E r \in Runs : ServiceStep(r) \/ RunStep(r) \/ IpcStep(r) \/ OwnerStep(r)
  \/ \E c \in Cancels : CancelStep(c)
  \/ Dispose

Spec == Init /\ [][Next]_vars

\* Timers fire and continuations of settled promises run.  Nothing is assumed
\* of the owner, of the user, of invokeBootstrap, or of the VS Code calls made
\* before the lock or under "authorize": none of those has a timer.
Fairness ==
  /\ \A r \in Runs : WF_vars(DeadlinePasses(r))
  /\ \A r \in Runs : WF_vars(InterruptSettles(r))
  /\ \A r \in Runs : WF_vars(StartCancelConfirmed(r) \/ WatchCancelConfirmed(r)
                             \/ CancelFailsRun(r))
  /\ \A c \in Cancels : WF_vars(CancelSettles(c))

FairSpec == Spec /\ Fairness

----------------------------------------------------------------------------
(* Types                                                                   *)

ActiveRuns ==
  [conversationId : BOOLEAN, ownerClientId : BOOLEAN, realTurnId : BOOLEAN,
   ipc : {"none", "connecting", "open", "closed"}, disposed : BOOLEAN,
   cancelRequested : BOOLEAN,
   cancellation : {"none", "pending", "confirmed", "rejected"}]

CancelStatuses == {"idle", "none", "queued", "awaiting", "requested", "rejected"}

\* The values each field, local, call and request can have.
TypeOK ==
  /\ active \in Runs \union {NoRun}
  /\ runLock \in BOOLEAN
  /\ cancelRequestedBeforeActive \in BOOLEAN
  /\ activeRun \in [Runs -> ActiveRuns]
  /\ watcher \in [Runs -> [emitted : BOOLEAN, outcome : Outcomes \union {"none"}]]
  /\ pc \in [Runs -> Phases]
  /\ result \in [Runs -> Outcomes \union Failures \union {"none", "RUN_ACTIVE"}]
  /\ tempFile \subseteq Runs
  /\ cancel \in [Cancels -> [status : CancelStatuses, run : Runs \union {NoRun}]]
  /\ turn \in [Runs -> Outcomes \union {"none", "running"}]
  /\ start \in [Runs -> {"none", "sent", "turnId", "noTurnId", "error"}]
  /\ interrupt \in [Runs -> {"none", "sent", "exact", "other", "error"}]
  /\ interrupts \in [Runs -> Nat]

----------------------------------------------------------------------------
(* Safety                                                                  *)

\* worker.run admits one call at a time and its guard is outside the try: a
\* second call is refused without releasing the lock of the first.  The lock
\* is held exactly while some call is between its two finally blocks, and
\* "active" names that call once it has an ActiveRun.
ExclusiveRun ==
  /\ \A r, s \in Runs : pc[r] \in Section /\ pc[s] \in Section => r = s
  /\ runLock <=> \E r \in Runs : pc[r] \in Section
  /\ \A r \in Runs : active = r <=> pc[r] \in ActivePhases

\* A cancel() that returned "queued" is not lost: a run that then reports an
\* outcome has first tried to interrupt its turn, whether the turn identifier
\* came with the start-turn response or from the session file.
QueuedCancelReachesTurn ==
  \A c \in Cancels : LET r == cancel[c].run IN
    cancel[c].status = "queued" /\ result[r] \in Outcomes
      => activeRun[r].cancellation # "none"

\* A cancel() never leaks into another run: an interrupt is sent only for a
\* run that some cancel() met, even when that cancel was queued before the
\* ActiveRun existed and the run then failed.
CancelStaysWithItsRun ==
  \A r \in Runs : interrupts[r] > 0 => \E c \in Cancels : cancel[c].run = r

\* Queued and repeated cancels share one interrupt request.
AtMostOneInterrupt == \A r \in Runs : interrupts[r] <= 1

\* A cancel() that reports "requested" was confirmed for the exact turn: the
\* owner did stop it.  An answer that names another turn does not count.
RequestedMeansCancelled ==
  \A c \in Cancels : cancel[c].status = "requested" => turn[cancel[c].run] = "cancelled"

\* Whatever ended the run, nothing of it is left: no temporary bootstrap file
\* (unless the caller was told that it could not be removed), no interrupt that
\* somebody could still be waiting for, and no open socket unless the extension
\* was deactivated while the socket was being opened.
NothingLeftBehind ==
  \A r \in Runs : pc[r] = "done" =>
    /\ r \in tempFile => result[r] = "unremoved"
    /\ \/ activeRun[r].ipc \in {"none", "closed"} /\ activeRun[r].cancellation # "pending"
       \/ activeRun[r].ipc = "open" /\ activeRun[r].disposed

\* README.md: "Cancellation remains available while a long-running turn is
\* active."  While a run watches a running turn over an open connection, a
\* cancel() can still lead to an interrupt of it.
CancellationRemainsAvailable ==
  \A r \in Runs : pc[r] = "watch" /\ turn[r] = "running" /\ activeRun[r].ipc = "open"
                    => activeRun[r].cancellation # "rejected"

----------------------------------------------------------------------------
(* Liveness and refinement                                                 *)

\* Once invokeBootstrap has returned, timers bound every await: the run
\* settles and the lock is free for the next one.
LockReleased ==
  \A r \in Runs : pc[r] \in ActivePhases \ {"prepareBootstrap", "invokeBootstrap"}
                    ~> pc[r] = "done"

\* A cancel() that waits for an interrupt is always answered.
CancelAnswered ==
  \A c \in Cancels : cancel[c].status = "awaiting"
                       ~> cancel[c].status \in {"requested", "rejected"}

HoldsWorker(r) == pc[r] \in Section

Abstract == INSTANCE ExactRun WITH
  holder <- IF \E r \in Runs : HoldsWorker(r)
            THEN CHOOSE r \in Runs : HoldsWorker(r) ELSE NoRun,
  started <- {r \in Runs : start[r] # "none"},
  wanted <- {cancel[c].run : c \in Cancels} \ {NoRun},
  attempted <- {r \in Runs : activeRun[r].cancellation # "none"},
  settled <- result

\* The worker implements the abstract promise of module ExactRun.
ImplementsExactRun == Abstract!Spec
=============================================================================
