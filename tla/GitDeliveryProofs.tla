------------------------- MODULE GitDeliveryProofs -------------------------
(***************************************************************************)
(* Theorems about GitDelivery for any commit graph, any number of changes  *)
(* of the repository and any limit on the commits.                         *)
(***************************************************************************)
EXTENDS GitDelivery, TLAPS

----------------------------------------------------------------------------
(* The orders of the commands                                              *)

LEMMA PreflightSteps ==
  StepsOf(PreflightOrder) = {"preflight.clean", "preflight.branch", "preflight.head",
                             "preflight.upstream", "preflight.repository", "codex"}
  <1>1. DOMAIN PreflightOrder = 1..6
    BY DEF PreflightOrder
  <1> QED
    BY <1>1 DEF StepsOf, PreflightOrder

LEMMA InspectionSteps ==
  StepsOf(InspectionOrder) = {"remotes", "repository", "branch", "head", "ancestry", "commits",
                              "clean", "upstream", "lsRemote"}
  <1>1. DOMAIN InspectionOrder = 1..9
    BY DEF InspectionOrder
  <1> QED
    BY <1>1 DEF StepsOf, InspectionOrder

LEMMA PreflightFollowing ==
  ASSUME Following(PreflightOrder)
  PROVE  /\ \/ pc = "preflight.clean" /\ pc' = "preflight.branch"
            \/ pc = "preflight.branch" /\ pc' = "preflight.head"
            \/ pc = "preflight.head" /\ pc' = "preflight.upstream"
            \/ pc = "preflight.upstream" /\ pc' = "preflight.repository"
            \/ pc = "preflight.repository" /\ pc' = "codex"
         /\ UNCHANGED <<world, changes, calm, outcome, status, failedAt>>
  <1>1. Len(PreflightOrder) = 6
    BY DEF PreflightOrder
  <1>2. PICK i \in 1..5 : pc = PreflightOrder[i] /\ pc' = PreflightOrder[i + 1]
    BY <1>1 DEF Following
  <1>3. i = 1 \/ i = 2 \/ i = 3 \/ i = 4 \/ i = 5
    BY <1>2
  <1> QED
    BY <1>2, <1>3 DEF PreflightOrder, Following

LEMMA InspectionFollowing ==
  ASSUME Following(InspectionOrder)
  PROVE  /\ \/ pc = "remotes" /\ pc' = "repository"
            \/ pc = "repository" /\ pc' = "branch"
            \/ pc = "branch" /\ pc' = "head"
            \/ pc = "head" /\ pc' = "ancestry"
            \/ pc = "ancestry" /\ pc' = "commits"
            \/ pc = "commits" /\ pc' = "clean"
            \/ pc = "clean" /\ pc' = "upstream"
            \/ pc = "upstream" /\ pc' = "lsRemote"
         /\ UNCHANGED <<world, changes, calm, outcome, status, failedAt>>
  <1>1. Len(InspectionOrder) = 9
    BY DEF InspectionOrder
  <1>2. PICK i \in 1..8 : pc = InspectionOrder[i] /\ pc' = InspectionOrder[i + 1]
    BY <1>1 DEF Following
  <1>3. i = 1 \/ i = 2 \/ i = 3 \/ i = 4 \/ i = 5 \/ i = 6 \/ i = 7 \/ i = 8
    BY <1>2
  <1> QED
    BY <1>2, <1>3 DEF InspectionOrder, Following

----------------------------------------------------------------------------
(* deliveryStatus                                                          *)

\* The first test that fails decides.
LEMMA DeliveryStatusIs ==
  ASSUME NEW o, NEW e, NEW kept \in BOOLEAN, NEW same \in BOOLEAN,
         e.workingTreeClean \in BOOLEAN, e.pushVerified \in BOOLEAN
  PROVE  DeliveryStatus(o, e, kept, same) =
           IF o # "completed" THEN "codex_not_completed"
           ELSE IF e.githubRepository # ExpectedRepository THEN "repository_mismatch"
           ELSE IF e.branch # ExpectedBranch THEN "branch_changed"
           ELSE IF ~kept THEN "history_rewritten"
           ELSE IF e.commitShas = {} THEN "no_commit"
           ELSE IF ~e.workingTreeClean THEN "working_tree_dirty"
           ELSE IF ~(same /\ e.pushVerified) THEN "push_not_verified"
           ELSE "verified"
  <1> DEFINE tests == << <<o = "completed",                           "codex_not_completed">>,
                  <<e.githubRepository = ExpectedRepository,   "repository_mismatch">>,
                  <<e.branch = ExpectedBranch,                 "branch_changed">>,
                  <<kept,                                      "history_rewritten">>,
                  <<e.commitShas # {},                         "no_commit">>,
                  <<e.workingTreeClean,                        "working_tree_dirty">>,
                  <<same /\ e.pushVerified,                    "push_not_verified">> >>
             failed == {i \in DOMAIN tests : ~tests[i][1]}
  <1>1. DOMAIN tests = 1..7
    OBVIOUS
  <1>2. /\ 1 \in failed <=> o # "completed"
        /\ 2 \in failed <=> e.githubRepository # ExpectedRepository
        /\ 3 \in failed <=> e.branch # ExpectedBranch
        /\ 4 \in failed <=> ~kept
        /\ 5 \in failed <=> e.commitShas = {}
        /\ 6 \in failed <=> ~e.workingTreeClean
        /\ 7 \in failed <=> ~(same /\ e.pushVerified)
    <2>1. /\ tests[1][1] <=> o = "completed"
          /\ tests[2][1] <=> e.githubRepository = ExpectedRepository
          /\ tests[3][1] <=> e.branch = ExpectedBranch
          /\ tests[4][1] <=> kept
          /\ tests[5][1] <=> e.commitShas # {}
          /\ tests[6][1] <=> e.workingTreeClean
          /\ tests[7][1] <=> same /\ e.pushVerified
      OBVIOUS
    <2> HIDE DEF tests
    <2> QED
      BY <1>1, <2>1
  <1>3. /\ tests[1][2] = "codex_not_completed" /\ tests[2][2] = "repository_mismatch"
        /\ tests[3][2] = "branch_changed" /\ tests[4][2] = "history_rewritten"
        /\ tests[5][2] = "no_commit" /\ tests[6][2] = "working_tree_dirty"
        /\ tests[7][2] = "push_not_verified"
    OBVIOUS
  <1>4. failed \subseteq 1..7
    BY <1>1
  <1>5. DeliveryStatus(o, e, kept, same) =
          IF failed = {} THEN "verified" ELSE tests[Min(failed)][2]
    BY DEF DeliveryStatus
  <1> HIDE DEF tests, failed
  <1>6. ASSUME NEW k \in failed, \A i \in failed : k <= i
        PROVE  Min(failed) = k
    <2>1. \E x \in failed : \A i \in failed : x <= i
      BY <1>6
    <2>2. Min(failed) \in failed /\ \A i \in failed : Min(failed) <= i
      BY <2>1, Zenon DEF Min
    <2>3. PICK m : m = Min(failed)
      OBVIOUS
    <2>4. m \in 1..7 /\ k \in 1..7
      BY <1>4, <1>6, <2>2, <2>3
    <2>5. k <= m /\ m <= k
      BY <1>6, <2>2, <2>3
    <2>6. k = m
      BY <2>4, <2>5
    <2> QED
      BY <2>3, <2>6
  <1>7. CASE failed = {}
    BY <1>2, <1>5, <1>7
  <1>8. CASE failed # {}
    <2>1. PICK k \in failed : \A i \in failed : k <= i
      <3>1. PICK j \in failed : TRUE
        BY <1>8
      <3> QED
        BY <1>4, <3>1
    <2>2. DeliveryStatus(o, e, kept, same) = tests[k][2]
      BY <1>5, <1>6, <1>8, <2>1
    <2>3. \A i \in 1..7 : i < k => i \notin failed
      BY <1>4, <2>1
    <2> QED
      BY <1>2, <1>3, <1>4, <2>2, <2>3
  <1> QED
    BY <1>7, <1>8
----------------------------------------------------------------------------
(* Types                                                                   *)

Evidences == [githubRepository : Maybe(Repositories), branch : Maybe(Branches),
              headSha : Maybe(Commits), commitShas : SUBSET Commits,
              workingTreeClean : BOOLEAN, remoteHeadSha : Maybe(Commits),
              pushVerified : BOOLEAN]

LEMMA AncestryTypes ==
  /\ \A c \in Commits : Ancestors[c] \subseteq Commits
  /\ \A c \in Commits : CommitsAfterBase(c) \in SUBSET Commits
  /\ \A c : BaseIsAncestor(c) \in BOOLEAN
  BY GitAssumption DEF Ancestors, CommitsAfterBase, BaseIsAncestor

LEMMA UnavailableType == UnavailableEvidence \in Evidences
  BY GitAssumption DEF UnavailableEvidence, Evidences, Maybe

LEMMA InitType == Init => TypeOK
  <1> SUFFICES ASSUME Init PROVE TypeOK
    OBVIOUS
  <1>1. (CHOOSE u \in Upstreams : TRUE) \in Upstreams
    BY GitAssumption
  <1>2. world \in Worlds
    BY <1>1, GitAssumption DEF Init, Worlds, Maybe
  <1>3. evidence \in Evidences
    BY UnavailableType DEF Init
  <1>4. changes \in 0..MaxChanges
    BY GitAssumption DEF Init
  <1>5. preflightUpstream \in Maybe(Upstreams)
    BY DEF Init, Maybe
  <1>6. pc \in StepsOf(PreflightOrder) /\ pc # "done"
    BY PreflightSteps DEF Init
  <1> QED
    BY <1>2, <1>3, <1>4, <1>5, <1>6 DEF Init, TypeOK, Evidences

\* What one command of the inspection writes into the evidence.
LEMMA LearnsType ==
  ASSUME TypeOK,
         \/ \E v \in Maybe(Repositories) : Learns("githubRepository", v)
         \/ \E v \in Maybe(Branches) : Learns("branch", v)
         \/ \E v \in Maybe(Commits) : Learns("headSha", v)
         \/ \E v \in SUBSET Commits : Learns("commitShas", v)
         \/ \E v \in BOOLEAN : Learns("workingTreeClean", v)
         \/ UNCHANGED evidence
  PROVE  evidence' \in Evidences
  <1>1. evidence \in Evidences
    BY DEF TypeOK, Evidences
  <1> QED
    BY <1>1 DEF Learns, Evidences

LEMMA StepType == TypeOK /\ [Next]_vars => TypeOK'
  <1> SUFFICES ASSUME TypeOK, [Next]_vars PROVE TypeOK'
    OBVIOUS
  <1> USE DEF Finish, Statuses, DeliveryStatuses
  <1>1. /\ evidence \in Evidences /\ world \in Worlds
        /\ world.repository \in Maybe(Repositories) /\ world.remoteExists \in BOOLEAN
        /\ world.remoteHead \in Maybe(Commits) /\ world.branch \in Maybe(Branches)
        /\ world.upstream \in Maybe(Upstreams) /\ world.head \in Commits
        /\ world.clean \in BOOLEAN
    BY DEF TypeOK, Evidences, Worlds
  <1>2. CASE WorldChanges
    <2>1. world' \in Worlds
      BY <1>1, <1>2 DEF WorldChanges, Worlds, Maybe
    <2>2. changes' \in 0..MaxChanges
      BY <1>2, GitAssumption DEF WorldChanges, TypeOK
    <2> QED
      BY <1>2, <2>1, <2>2 DEF WorldChanges, TypeOK, runVars
  <1>3. CASE PreflightReads
    <2>1. Following(PreflightOrder) /\ UNCHANGED <<originalRemoteExists, evidence>>
          /\ preflightUpstream' \in Maybe(Upstreams)
      BY <1>1, <1>3 DEF PreflightReads, PreflightFinds, TypeOK
    <2> QED
      BY <2>1, PreflightFollowing, PreflightSteps DEF TypeOK
  <1>4. CASE PreflightFails
    BY <1>4 DEF PreflightFails, TypeOK
  <1>5. CASE \E o \in {"completed", "failed", "cancelled"} : CodexReturns(o)
    BY <1>5, InspectionSteps DEF CodexReturns, TypeOK
  <1>6. CASE CodexThrows
    BY <1>6 DEF CodexThrows, TypeOK
  <1>7. ASSUME NEW ok, NEW verdict \in DeliveryStatuses, Gate(ok, verdict),
               evidence' \in Evidences, UNCHANGED <<preflightUpstream, originalRemoteExists>>
        PROVE  TypeOK'
    BY <1>7, InspectionFollowing, InspectionSteps DEF Gate, TypeOK, Evidences
  <1>8. CASE RemotesListed
    <2>1. /\ pc' \in {"repository", "branch"}
          /\ originalRemoteExists' \in BOOLEAN
          /\ UNCHANGED <<world, changes, calm, outcome, status, failedAt,
                         preflightUpstream, evidence>>
          /\ pc = "remotes"
      BY <1>1, <1>8, InspectionFollowing DEF RemotesListed
    <2> QED
      BY <2>1, InspectionSteps DEF TypeOK
  <1>9. CASE RepositoryRead
    BY <1>1, <1>7, <1>9, LearnsType DEF RepositoryRead
  <1>10. CASE BranchRead
    BY <1>1, <1>7, <1>10, LearnsType DEF BranchRead
  <1>11. CASE HeadRead
    <2>1. evidence' \in Evidences
      BY <1>1, <1>11, LearnsType DEF HeadRead, Maybe
    <2> QED
      BY <1>7, <1>11, <2>1 DEF HeadRead, Gate
  <1>12. CASE AncestryChecked
    BY <1>1, <1>7, <1>12 DEF AncestryChecked
  <1>13. CASE CommitsListed
    BY <1>1, <1>7, <1>13, AncestryTypes, LearnsType DEF CommitsListed
  <1>14. CASE CleanRead
    BY <1>1, <1>7, <1>14, LearnsType DEF CleanRead
  <1>15. CASE UpstreamRead
    BY <1>1, <1>7, <1>15 DEF UpstreamRead
  <1>16. CASE RemoteHeadRead
    <2>1. evidence' \in Evidences
      BY <1>1, <1>16 DEF RemoteHeadRead, Evidences
    <2> QED
      BY <1>16, <2>1 DEF RemoteHeadRead, TypeOK, Evidences
  <1>17. CASE InspectionFails
    <2>1. failedAt' \in StepsOf(InspectionOrder) \union {"none", "overflow"}
      BY <1>17 DEF InspectionFails
    <2>2. evidence' \in Evidences
      BY <1>17, UnavailableType DEF InspectionFails
    <2> QED
      BY <1>17, <2>1, <2>2 DEF InspectionFails, TypeOK, Evidences
  <1>18. CASE UNCHANGED vars
    BY <1>18 DEF vars, runVars, TypeOK
  <1> QED
    BY <1>2, <1>3, <1>4, <1>5, <1>6, <1>8, <1>9, <1>10, <1>11, <1>12, <1>13, <1>14, <1>15,
       <1>16, <1>17, <1>18 DEF Next

\* Every state of a run and of the repository around it is well typed, and the
\* promise of run() has settled exactly when there is a result or an error.
THEOREM TypeCorrect == Spec => []TypeOK
  BY InitType, StepType, PTL DEF Spec
----------------------------------------------------------------------------
(* The invariant.  TypeOK says nothing of what the commands found so far:  *)
(* the evidence of a verified delivery rests on every gate before the last *)
(* one, and the agreement of the pipeline with deliveryStatus on what each *)
(* command read being true still when the verdict is given.                *)

\* The commands before which a gate has been passed.
PastClean == {"upstream", "lsRemote"}
PastCommits == PastClean \union {"clean"}
PastAncestry == PastCommits \union {"commits"}
PastHead == PastAncestry \union {"ancestry"}
PastBranch == PastHead \union {"head"}
PastRepository == PastBranch \union {"branch"}
PastRemotes == PastRepository \union {"repository"}

\* Only a completed Codex run is inspected, and an unfinished run has not
\* failed; the repository counts as calm only once Codex has returned.
InOrder ==
  pc # "done" =>
    /\ failedAt = "none"
    /\ pc \in StepsOf(PreflightOrder) => outcome = "none" /\ ~calm
    /\ pc \in StepsOf(InspectionOrder) => outcome = "completed"

\* What the gates that were passed say of the evidence, whatever has changed
\* in the repository since.
Collected ==
  pc # "done" =>
    /\ evidence.githubRepository = ExpectedRepository /\ evidence.branch = ExpectedBranch
    /\ pc \in PastHead => evidence.headSha \in Commits
    /\ pc \in PastAncestry => BaseIsAncestor(evidence.headSha)
    /\ pc \in PastCommits => evidence.commitShas # {}
    /\ pc \in PastClean => evidence.workingTreeClean

\* While the repository stays as Codex left it, what was read is still so.
Current ==
  calm /\ pc # "done" =>
    /\ pc \in PastRemotes => originalRemoteExists = world.remoteExists
    /\ pc = "repository" => world.remoteExists
    /\ pc \in PastRepository /\ world.remoteExists => world.repository = ExpectedRepository
    /\ pc \in PastBranch => world.branch = ExpectedBranch
    /\ pc \in PastHead => evidence.headSha = world.head
    /\ pc \in PastCommits => CommitsAfterBase(world.head) # {}
    /\ pc \in PastClean => world.clean
    /\ pc = "lsRemote" => world.upstream = preflightUpstream /\ world.remoteExists

GitInvariant ==
  /\ TypeOK /\ InOrder /\ Collected /\ Current
  /\ PipelineAgrees /\ FailureHidesNothing /\ VerifiedIsProved

StatusOfWorld ==
   IF outcome # "completed" THEN "codex_not_completed"
   ELSE IF world.remoteExists /\ world.repository # ExpectedRepository
        THEN "repository_mismatch"
   ELSE IF world.branch # ExpectedBranch THEN "branch_changed"
   ELSE IF ~BaseIsAncestor(world.head) THEN "history_rewritten"
   ELSE IF CommitsAfterBase(world.head) = {} THEN "no_commit"
   ELSE IF ~world.clean THEN "working_tree_dirty"
   ELSE IF ~(world.upstream = preflightUpstream /\ world.remoteExists
             /\ world.remoteHead = world.head) THEN "push_not_verified"
   ELSE "verified"

\* deliveryStatus of everything there is to know of the world.
LEMMA TrueStatusIs == TypeOK => TrueStatus = StatusOfWorld
  <1> SUFFICES ASSUME TypeOK PROVE TrueStatus = StatusOfWorld
    OBVIOUS
  <1>1. world.remoteExists \in BOOLEAN /\ world.clean \in BOOLEAN
    BY DEF TypeOK, Worlds
  <1>2. PICK o : o = outcome
    OBVIOUS
  <1>3. PICK e : e = FullEvidence
    OBVIOUS
  <1>4. PICK kept \in BOOLEAN : kept = BaseIsAncestor(world.head)
    BY AncestryTypes
  <1>5. PICK same \in BOOLEAN : same = (world.upstream = preflightUpstream /\ world.remoteExists)
    BY <1>1
  <1>6. /\ e.githubRepository = IF world.remoteExists THEN world.repository
                                                      ELSE ExpectedRepository
        /\ e.branch = world.branch /\ e.commitShas = CommitsAfterBase(world.head)
        /\ e.workingTreeClean = world.clean
        /\ e.pushVerified = (world.remoteHead = world.head)
    BY <1>3 DEF FullEvidence
  <1>7. TrueStatus = DeliveryStatus(o, e, kept, same)
    BY <1>2, <1>3, <1>4, <1>5 DEF TrueStatus
  <1>8. e.workingTreeClean \in BOOLEAN /\ e.pushVerified \in BOOLEAN
    BY <1>1, <1>6
  <1>9. DeliveryStatus(o, e, kept, same) =
           IF o # "completed" THEN "codex_not_completed"
           ELSE IF e.githubRepository # ExpectedRepository THEN "repository_mismatch"
           ELSE IF e.branch # ExpectedBranch THEN "branch_changed"
           ELSE IF ~kept THEN "history_rewritten"
           ELSE IF e.commitShas = {} THEN "no_commit"
           ELSE IF ~e.workingTreeClean THEN "working_tree_dirty"
           ELSE IF ~(same /\ e.pushVerified) THEN "push_not_verified"
           ELSE "verified"
    BY <1>8, DeliveryStatusIs
  <1> QED
    BY <1>1, <1>2, <1>4, <1>5, <1>6, <1>7, <1>9 DEF StatusOfWorld

LEMMA InitInvariant == Init => GitInvariant
  <1> SUFFICES ASSUME Init PROVE GitInvariant
    OBVIOUS
  <1>1. TypeOK /\ status = "none" /\ pc = "preflight.clean" /\ ~calm
    BY InitType DEF Init
  <1>2. InOrder
    BY <1>1, InspectionSteps DEF Init, InOrder
  <1>3. Collected
    BY <1>1 DEF Init, UnavailableEvidence, Collected, PastHead, PastAncestry, PastCommits, PastClean
  <1>4. Current /\ PipelineAgrees /\ FailureHidesNothing /\ VerifiedIsProved
    BY <1>1 DEF Current, PipelineAgrees, FailureHidesNothing, VerifiedIsProved
  <1> QED
    BY <1>1, <1>2, <1>3, <1>4 DEF GitInvariant

\* A step of the program that leaves the run unfinished.
LEMMA RunGoesOn ==
  ASSUME TypeOK', pc' # "done", InOrder', Collected', Current'
  PROVE  GitInvariant'
  <1>1. status' = "none"
    BY DEF TypeOK
  <1>2. PipelineAgrees' /\ FailureHidesNothing' /\ VerifiedIsProved'
    BY <1>1 DEF PipelineAgrees, FailureHidesNothing, VerifiedIsProved
  <1> QED
    BY <1>2 DEF GitInvariant

\* A step that ends the run otherwise than with a verified delivery.
LEMMA RunEnds ==
  ASSUME TypeOK', pc' = "done", status' # "verified", PipelineAgrees', FailureHidesNothing'
  PROVE  GitInvariant'
  BY DEF GitInvariant, InOrder, Collected, Current, VerifiedIsProved

\* A gate of the inspection that closes on the verdict deliveryStatus gives.
LEMMA GateCloses ==
  ASSUME GitInvariant, TypeOK', pc \in StepsOf(InspectionOrder),
         NEW verdict, verdict # "verified", Finish(verdict),
         UNCHANGED <<world, calm, preflightUpstream, outcome, failedAt>>,
         calm => TrueStatus = verdict
  PROVE  GitInvariant'
  <1>1. failedAt = "none" /\ pc # "done"
    BY InspectionSteps DEF GitInvariant, InOrder
  <1>2. TrueStatus' = TrueStatus
    BY DEF TrueStatus, FullEvidence
  <1>3. PipelineAgrees'
    BY <1>2 DEF PipelineAgrees, Finish
  <1>4. FailureHidesNothing'
    BY <1>1 DEF FailureHidesNothing
  <1> QED
    BY <1>3, <1>4, RunEnds DEF Finish

LEMMA StepInvariant == GitInvariant /\ [Next]_vars => GitInvariant'
  <1> SUFFICES ASSUME GitInvariant, [Next]_vars PROVE GitInvariant'
    OBVIOUS
  <1> USE DEF PastRemotes, PastRepository, PastBranch, PastHead, PastAncestry, PastCommits,
              PastClean
  <1>1. TypeOK /\ InOrder /\ Collected /\ Current /\ TypeOK'
    BY StepType DEF GitInvariant
  <1>2. /\ world.repository \in Maybe(Repositories) /\ world.remoteExists \in BOOLEAN
        /\ world.head \in Commits /\ world.clean \in BOOLEAN
        /\ originalRemoteExists \in BOOLEAN
        /\ evidence \in Evidences
    BY <1>1 DEF TypeOK, Worlds, Evidences
  <1>3. CASE WorldChanges
    <2>1. calm' = FALSE /\ UNCHANGED <<pc, runVars>>
      BY <1>3 DEF WorldChanges
    <2>2. InOrder' /\ Collected' /\ Current'
      BY <1>1, <2>1 DEF InOrder, Collected, Current, runVars
    <2>3. PipelineAgrees' /\ FailureHidesNothing'
      BY <2>1 DEF PipelineAgrees, FailureHidesNothing
    <2>4. VerifiedIsProved'
      BY <2>1 DEF GitInvariant, VerifiedIsProved, Envelope, IsReviewable, runVars
    <2> QED
      BY <1>1, <2>2, <2>3, <2>4 DEF GitInvariant
  <1>4. CASE PreflightReads
    <2>1. Following(PreflightOrder) /\ UNCHANGED evidence
      BY <1>4 DEF PreflightReads, PreflightFinds
    <2>2. /\ pc \in StepsOf(PreflightOrder) /\ pc' \in StepsOf(PreflightOrder)
          /\ pc # "done" /\ pc' # "done"
          /\ pc' \notin StepsOf(InspectionOrder)
          /\ UNCHANGED <<world, calm, outcome, status, failedAt>>
      BY <2>1, PreflightFollowing, PreflightSteps, InspectionSteps
    <2>3. InOrder'
      BY <1>1, <2>2 DEF InOrder
    <2>4. Collected' /\ Current'
      BY <1>1, <2>1, <2>2, InspectionSteps DEF Collected, Current, InOrder
    <2> QED
      BY <1>1, <2>2, <2>3, <2>4, RunGoesOn
  <1>5. CASE PreflightFails
    <2>1. /\ pc \in StepsOf(PreflightOrder) /\ pc # "done" /\ pc' = "done"
          /\ status' = "GIT_PREFLIGHT_FAILED" /\ UNCHANGED <<calm, outcome>>
      BY <1>5, PreflightSteps DEF PreflightFails, Finish
    <2>2. ~calm'
      BY <1>1, <2>1 DEF InOrder
    <2> QED
      BY <1>1, <2>1, <2>2, RunEnds DEF PipelineAgrees, FailureHidesNothing
  <1>6. ASSUME NEW o \in {"completed", "failed", "cancelled"}, CodexReturns(o)
        PROVE  GitInvariant'
    <2>1. /\ pc = "codex" /\ outcome' = o /\ calm' = TRUE
          /\ UNCHANGED <<world, preflightUpstream, originalRemoteExists, evidence, failedAt>>
      BY <1>6 DEF CodexReturns
    <2>2. failedAt = "none"
      BY <1>1, <2>1 DEF InOrder
    <2>3. CASE o = "completed"
      <3>1. pc' = "remotes"
        BY <1>6, <2>3 DEF CodexReturns
      <3>2. InOrder'
        BY <2>1, <2>2, <2>3, <3>1, PreflightSteps DEF InOrder
      <3>3. Collected' /\ Current'
        BY <1>1, <2>1, <3>1 DEF Collected, Current
      <3> QED
        BY <1>1, <3>1, <3>2, <3>3, RunGoesOn
    <2>4. CASE o # "completed"
      <3>1. pc' = "done" /\ status' = "codex_not_completed"
        BY <1>6, <2>4 DEF CodexReturns, Finish
      <3>2. TrueStatus' = "codex_not_completed"
        <4>1. (TypeOK => TrueStatus = StatusOfWorld)'
          BY TrueStatusIs, PTL
        <4> QED
          BY <1>1, <2>1, <2>4, <4>1 DEF StatusOfWorld
      <3>3. PipelineAgrees' /\ FailureHidesNothing'
        BY <2>1, <2>2, <3>1, <3>2 DEF PipelineAgrees, FailureHidesNothing
      <3> QED
        BY <1>1, <3>1, <3>3, RunEnds
    <2> QED
      BY <2>3, <2>4
  <1>7. CASE CodexThrows
    <2>1. /\ pc = "codex" /\ pc' = "done" /\ status' = "GIT_EXECUTION_FAILED"
          /\ UNCHANGED <<calm, outcome>>
      BY <1>7 DEF CodexThrows, Finish
    <2>2. ~calm'
      BY <1>1, <2>1, PreflightSteps DEF InOrder
    <2> QED
      BY <1>1, <2>1, <2>2, RunEnds DEF PipelineAgrees, FailureHidesNothing
  <1>8. ASSUME pc \in StepsOf(InspectionOrder), pc' \in StepsOf(InspectionOrder),
               UNCHANGED <<outcome, failedAt>>
        PROVE  InOrder' /\ pc # "done" /\ pc' # "done" /\ outcome = "completed"
    BY <1>1, <1>8, PreflightSteps, InspectionSteps DEF InOrder
  <1>9. CASE RemotesListed
    <2>1. /\ pc = "remotes" /\ originalRemoteExists' = world.remoteExists
          /\ UNCHANGED <<world, calm, outcome, failedAt, evidence>>
          /\ world.remoteExists => pc' = "repository"
          /\ ~world.remoteExists => pc' = "branch"
      BY <1>9, InspectionFollowing DEF RemotesListed
    <2>2. Collected' /\ Current'
      BY <1>1, <1>2, <2>1 DEF Collected, Current
    <2> QED
      BY <1>1, <1>2, <1>8, <2>1, <2>2, RunGoesOn, InspectionSteps
  <1>10. CASE RepositoryRead
    <2>1. /\ pc = "repository" /\ world.remoteExists
          /\ evidence' = [evidence EXCEPT !["githubRepository"] = world.repository]
          /\ Gate(world.repository = ExpectedRepository, "repository_mismatch")
          /\ UNCHANGED <<preflightUpstream, originalRemoteExists>>
      BY <1>10 DEF RepositoryRead, Learns
    <2>2. CASE world.repository = ExpectedRepository
      <3>1. pc' = "branch" /\ UNCHANGED <<world, calm, outcome, failedAt>>
        BY <2>1, <2>2, InspectionFollowing DEF Gate
      <3>2. Collected' /\ Current'
        BY <1>1, <1>2, <2>1, <2>2, <3>1 DEF Collected, Current, Evidences
      <3> QED
        BY <1>1, <1>8, <2>1, <3>1, <3>2, RunGoesOn, InspectionSteps
    <2>3. CASE world.repository # ExpectedRepository
      <3>1. Finish("repository_mismatch") /\ UNCHANGED <<world, calm, outcome, failedAt>>
        BY <2>1, <2>3 DEF Gate
      <3>2. outcome = "completed"
        BY <1>1, <2>1, InspectionSteps DEF InOrder
      <3>3. TrueStatus = "repository_mismatch"
        BY <1>1, <2>1, <2>3, <3>2, TrueStatusIs DEF StatusOfWorld
      <3> QED
        BY <1>1, <2>1, <3>1, <3>3, GateCloses, InspectionSteps
    <2> QED
      BY <2>2, <2>3
  <1>11. CASE BranchRead
    <2>1. /\ pc = "branch" /\ evidence' = [evidence EXCEPT !["branch"] = world.branch]
          /\ Gate(world.branch = ExpectedBranch, "branch_changed")
          /\ UNCHANGED <<preflightUpstream, originalRemoteExists>>
      BY <1>11 DEF BranchRead, Learns
    <2>2. CASE world.branch = ExpectedBranch
      <3>1. pc' = "head" /\ UNCHANGED <<world, calm, outcome, failedAt>>
        BY <2>1, <2>2, InspectionFollowing DEF Gate
      <3>2. Collected' /\ Current'
        BY <1>1, <1>2, <2>1, <2>2, <3>1 DEF Collected, Current, Evidences
      <3> QED
        BY <1>1, <1>8, <2>1, <3>1, <3>2, RunGoesOn, InspectionSteps
    <2>3. CASE world.branch # ExpectedBranch
      <3>1. Finish("branch_changed") /\ UNCHANGED <<world, calm, outcome, failedAt>>
        BY <2>1, <2>3 DEF Gate
      <3>2. outcome = "completed"
        BY <1>1, <2>1, InspectionSteps DEF InOrder
      <3>3. calm => TrueStatus = "branch_changed"
        BY <1>1, <2>1, <2>3, <3>2, TrueStatusIs DEF StatusOfWorld, Current
      <3> QED
        BY <1>1, <2>1, <3>1, <3>3, GateCloses, InspectionSteps
    <2> QED
      BY <2>2, <2>3
  <1>12. CASE HeadRead
    <2>1. /\ pc = "head" /\ evidence' = [evidence EXCEPT !["headSha"] = world.head]
          /\ pc' = "ancestry" /\ UNCHANGED <<world, calm, outcome, failedAt>>
          /\ UNCHANGED <<preflightUpstream, originalRemoteExists>>
      BY <1>12, InspectionFollowing DEF HeadRead, Learns
    <2>2. Collected' /\ Current'
      BY <1>1, <1>2, <2>1 DEF Collected, Current, Evidences
    <2> QED
      BY <1>1, <1>8, <2>1, <2>2, RunGoesOn, InspectionSteps
  <1>13. CASE AncestryChecked
    <2>1. /\ pc = "ancestry" /\ UNCHANGED <<preflightUpstream, originalRemoteExists, evidence>>
          /\ Gate(BaseIsAncestor(evidence.headSha), "history_rewritten")
      BY <1>13 DEF AncestryChecked, AncestryKept
    <2>2. CASE BaseIsAncestor(evidence.headSha)
      <3>1. pc' = "commits" /\ UNCHANGED <<world, calm, outcome, failedAt>>
        BY <2>1, <2>2, InspectionFollowing DEF Gate
      <3>2. Collected' /\ Current'
        BY <1>1, <1>2, <2>1, <2>2, <3>1 DEF Collected, Current
      <3> QED
        BY <1>1, <1>8, <2>1, <3>1, <3>2, RunGoesOn, InspectionSteps
    <2>3. CASE ~BaseIsAncestor(evidence.headSha)
      <3>1. Finish("history_rewritten") /\ UNCHANGED <<world, calm, outcome, failedAt>>
        BY <2>1, <2>3 DEF Gate
      <3>2. outcome = "completed"
        BY <1>1, <2>1, InspectionSteps DEF InOrder
      <3>3. calm => TrueStatus = "history_rewritten"
        BY <1>1, <2>1, <2>3, <3>2, TrueStatusIs DEF StatusOfWorld, Current
      <3> QED
        BY <1>1, <2>1, <3>1, <3>3, GateCloses, InspectionSteps
    <2> QED
      BY <2>2, <2>3
  <1>14. CASE CommitsListed
    <2>1. /\ pc = "commits"
          /\ evidence' = [evidence EXCEPT !["commitShas"] = CommitsAfterBase(world.head)]
          /\ Gate(CommitsAfterBase(world.head) # {}, "no_commit")
          /\ UNCHANGED <<preflightUpstream, originalRemoteExists>>
      BY <1>14 DEF CommitsListed, Learns
    <2>2. CASE CommitsAfterBase(world.head) # {}
      <3>1. pc' = "clean" /\ UNCHANGED <<world, calm, outcome, failedAt>>
        BY <2>1, <2>2, InspectionFollowing DEF Gate
      <3>2. Collected' /\ Current'
        BY <1>1, <1>2, <2>1, <2>2, <3>1 DEF Collected, Current, Evidences
      <3> QED
        BY <1>1, <1>8, <2>1, <3>1, <3>2, RunGoesOn, InspectionSteps
    <2>3. CASE CommitsAfterBase(world.head) = {}
      <3>1. Finish("no_commit") /\ UNCHANGED <<world, calm, outcome, failedAt>>
        BY <2>1, <2>3 DEF Gate
      <3>2. outcome = "completed"
        BY <1>1, <2>1, InspectionSteps DEF InOrder
      <3>3. calm => BaseIsAncestor(world.head)
        BY <1>1, <2>1 DEF Collected, Current
      <3>4. calm => TrueStatus = "no_commit"
        BY <1>1, <2>1, <2>3, <3>2, <3>3, TrueStatusIs DEF StatusOfWorld, Current
      <3> QED
        BY <1>1, <2>1, <3>1, <3>4, GateCloses, InspectionSteps
    <2> QED
      BY <2>2, <2>3
  <1>15. CASE CleanRead
    <2>1. /\ pc = "clean" /\ evidence' = [evidence EXCEPT !["workingTreeClean"] = world.clean]
          /\ Gate(world.clean, "working_tree_dirty")
          /\ UNCHANGED <<preflightUpstream, originalRemoteExists>>
      BY <1>15 DEF CleanRead, Learns
    <2>2. CASE world.clean
      <3>1. pc' = "upstream" /\ UNCHANGED <<world, calm, outcome, failedAt>>
        BY <2>1, <2>2, InspectionFollowing DEF Gate
      <3>2. Collected' /\ Current'
        BY <1>1, <1>2, <2>1, <2>2, <3>1 DEF Collected, Current, Evidences
      <3> QED
        BY <1>1, <1>8, <2>1, <3>1, <3>2, RunGoesOn, InspectionSteps
    <2>3. CASE ~world.clean
      <3>1. Finish("working_tree_dirty") /\ UNCHANGED <<world, calm, outcome, failedAt>>
        BY <2>1, <2>3 DEF Gate
      <3>2. outcome = "completed"
        BY <1>1, <2>1, InspectionSteps DEF InOrder
      <3>3. calm => BaseIsAncestor(world.head)
        BY <1>1, <2>1 DEF Collected, Current
      <3>4. calm => TrueStatus = "working_tree_dirty"
        BY <1>1, <2>1, <2>3, <3>2, <3>3, TrueStatusIs DEF StatusOfWorld, Current
      <3> QED
        BY <1>1, <2>1, <3>1, <3>4, GateCloses, InspectionSteps
    <2> QED
      BY <2>2, <2>3
  <1>16. CASE UpstreamRead
    <2> DEFINE kept == world.upstream = preflightUpstream /\ originalRemoteExists
    <2>1. /\ pc = "upstream" /\ UNCHANGED <<preflightUpstream, originalRemoteExists, evidence>>
          /\ Gate(kept, "push_not_verified")
      BY <1>16 DEF UpstreamRead
    <2>2. CASE kept
      <3>1. pc' = "lsRemote" /\ UNCHANGED <<world, calm, outcome, failedAt>>
        BY <2>1, <2>2, InspectionFollowing DEF Gate
      <3>2. Collected' /\ Current'
        BY <1>1, <1>2, <2>1, <2>2, <3>1 DEF Collected, Current
      <3> QED
        BY <1>1, <1>8, <2>1, <3>1, <3>2, RunGoesOn, InspectionSteps
    <2>3. CASE ~kept
      <3>1. Finish("push_not_verified") /\ UNCHANGED <<world, calm, outcome, failedAt>>
        BY <2>1, <2>3 DEF Gate
      <3>2. outcome = "completed"
        BY <1>1, <2>1, InspectionSteps DEF InOrder
      <3>3. calm => BaseIsAncestor(world.head)
        BY <1>1, <2>1 DEF Collected, Current
      <3>4. calm => TrueStatus = "push_not_verified"
        BY <1>1, <2>1, <2>3, <3>2, <3>3, TrueStatusIs DEF StatusOfWorld, Current
      <3> QED
        BY <1>1, <2>1, <3>1, <3>4, GateCloses, InspectionSteps
    <2> QED
      BY <2>2, <2>3
  \* The last gate before a verified delivery.
  <1>17. ASSUME pc = "lsRemote"
         PROVE  /\ outcome = "completed" /\ failedAt = "none" /\ pc # "done"
                /\ evidence.githubRepository = ExpectedRepository
                /\ evidence.branch = ExpectedBranch
                /\ evidence.headSha \in Commits /\ BaseIsAncestor(evidence.headSha)
                /\ evidence.commitShas # {} /\ evidence.workingTreeClean
                /\ calm => /\ TrueStatus = IF world.remoteHead = world.head
                                           THEN "verified" ELSE "push_not_verified"
                           /\ evidence.headSha = world.head
                           /\ world.upstream = preflightUpstream
    <2>1. outcome = "completed" /\ failedAt = "none" /\ pc # "done"
      BY <1>1, <1>17, InspectionSteps DEF InOrder
    <2>2. calm => /\ evidence.headSha = world.head /\ world.upstream = preflightUpstream
                  /\ BaseIsAncestor(world.head)
      BY <1>1, <1>17 DEF Current, Collected
    <2>3. calm => TrueStatus = IF world.remoteHead = world.head
                               THEN "verified" ELSE "push_not_verified"
      BY <1>1, <1>17, <2>1, <2>2, TrueStatusIs DEF StatusOfWorld, Current
    <2> QED
      BY <1>1, <1>17, <2>1, <2>2, <2>3 DEF Collected
  <1>18. CASE RemoteHeadRead
    <2> DEFINE pushed == world.remoteHead = evidence.headSha
    <2>1. /\ pc = "lsRemote" /\ pc' = "done"
          /\ evidence' = [evidence EXCEPT !.remoteHeadSha = world.remoteHead,
                                          !.pushVerified = pushed]
          /\ status' = IF pushed THEN "verified" ELSE "push_not_verified"
          /\ UNCHANGED <<world, calm, preflightUpstream, outcome, failedAt>>
      BY <1>18 DEF RemoteHeadRead, Finish
    <2>2. TrueStatus' = TrueStatus
      BY <2>1 DEF TrueStatus, FullEvidence
    <2>3. PipelineAgrees'
      BY <1>17, <2>1, <2>2 DEF PipelineAgrees
    <2>4. FailureHidesNothing'
      BY <1>17, <2>1 DEF FailureHidesNothing
    <2>5. VerifiedIsProved'
      <3> SUFFICES ASSUME pushed PROVE VerifiedIsProved'
        BY <2>1 DEF VerifiedIsProved
      <3>1. /\ evidence'.githubRepository = ExpectedRepository
            /\ evidence'.branch = ExpectedBranch
            /\ evidence'.headSha = evidence.headSha /\ evidence'.remoteHeadSha = evidence.headSha
            /\ evidence'.commitShas # {} /\ evidence'.workingTreeClean
            /\ evidence'.pushVerified
        BY <1>2, <1>17, <2>1 DEF Evidences
      <3>2. None \notin {evidence'.githubRepository, evidence'.branch, evidence'.headSha}
        BY <1>17, <2>1, <3>1, GitAssumption
      <3>3. status' = "verified" /\ outcome' = "completed"
        BY <1>17, <2>1
      <3>4. IsReviewable(Envelope)'
        BY <3>2, <3>3 DEF IsReviewable, Envelope, DeliveryStatuses
      <3>5. BaseIsAncestor(evidence.headSha)'
        BY <1>17, <2>1, <3>1
      <3> QED
        BY <3>1, <3>3, <3>4, <3>5 DEF VerifiedIsProved
    <2> QED
      BY <1>1, <2>1, <2>3, <2>4, <2>5 DEF GitInvariant, InOrder, Collected, Current
  <1>19. CASE InspectionFails
    <2>1. /\ pc \in StepsOf(InspectionOrder) /\ pc # "done" /\ pc' = "done"
          /\ status' = "git_inspection_failed"
          /\ failedAt' \in {pc, "overflow"} /\ (failedAt' = "overflow" => pc = "commits")
          /\ UNCHANGED <<world, calm, preflightUpstream, outcome>>
      BY <1>19, InspectionSteps DEF InspectionFails, Finish
    <2>2. TrueStatus' = TrueStatus
      BY <2>1 DEF TrueStatus, FullEvidence
    <2>3. PipelineAgrees'
      BY <2>1, InspectionSteps DEF PipelineAgrees
    <2>4. failedAt' = "lsRemote" => pc = "lsRemote"
      BY <2>1
    <2>5. calm /\ pc = "commits" => BaseIsAncestor(world.head) /\ world.branch = ExpectedBranch
      BY <1>1 DEF Collected, Current
    <2>6. FailureHidesNothing'
      BY <1>17, <2>1, <2>2, <2>4, <2>5 DEF FailureHidesNothing
    <2> QED
      BY <1>1, <2>1, <2>3, <2>6, RunEnds
  <1>20. CASE UNCHANGED vars
    <2>1. InOrder' /\ Collected' /\ Current'
      BY <1>1, <1>20 DEF InOrder, Collected, Current, vars, runVars
    <2>2. TrueStatus' = TrueStatus
      BY <1>20 DEF TrueStatus, FullEvidence, vars, runVars
    <2>3. PipelineAgrees' /\ FailureHidesNothing'
      BY <1>20, <2>2 DEF GitInvariant, PipelineAgrees, FailureHidesNothing, vars, runVars
    <2>4. VerifiedIsProved'
      BY <1>20 DEF GitInvariant, VerifiedIsProved, Envelope, IsReviewable, vars, runVars
    <2> QED
      BY <1>1, <2>1, <2>3, <2>4 DEF GitInvariant
  <1> QED
    BY <1>3, <1>4, <1>5, <1>6, <1>7, <1>9, <1>10, <1>11, <1>12, <1>13, <1>14, <1>15, <1>16,
       <1>18, <1>19, <1>20 DEF Next

----------------------------------------------------------------------------
(* Theorems                                                                *)

\* The invariant holds of every run, whatever the repository does meanwhile.
THEOREM GitInvariantHolds == Spec => []GitInvariant
  BY InitInvariant, StepInvariant, PTL DEF Spec

\* A repository that stays as Codex left it gets, command by command, the
\* verdict that the documented precedence of deliveryStatus gives it.
THEOREM PipelineFollowsPrecedence == Spec => []PipelineAgrees
  <1>1. GitInvariant => PipelineAgrees
    BY DEF GitInvariant
  <1> QED
    BY <1>1, GitInvariantHolds, PTL

\* An inspection that fails in such a repository hides no verdict of higher
\* precedence.
THEOREM FailuresHideNothing == Spec => []FailureHidesNothing
  <1>1. GitInvariant => FailureHidesNothing
    BY DEF GitInvariant
  <1> QED
    BY <1>1, GitInvariantHolds, PTL

\* A delivery is reported as verified only with its proof, and in a form that
\* can be handed over for review.
THEOREM VerifiedDeliveryIsProved == Spec => []VerifiedIsProved
  <1>1. GitInvariant => VerifiedIsProved
    BY DEF GitInvariant
  <1> QED
    BY <1>1, GitInvariantHolds, PTL
=============================================================================
