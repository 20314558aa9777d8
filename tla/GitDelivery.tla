----------------------------- MODULE GitDelivery -----------------------------
(***************************************************************************)
(* One run of GitImplementationService (src/gitImplementationService.ts)   *)
(* with GitInspection (src/gitInspection.ts): the preflight, the Codex run *)
(* and the classification of what it delivered, one git command per step,  *)
(* while Codex, the user and others change the repository and its remote.  *)
(***************************************************************************)
EXTENDS Integers, Sequences, FiniteSetsExt

CONSTANTS None,             \* null: detached HEAD, no upstream, no remote branch
          Repositories,     \* GitHub identities
          Branches, Upstreams,
          Commits, Parent,  \* commit graph: the parent of each commit, or None
          ExpectedRepository, ExpectedBranch, ExpectedBaseSha,  \* the request
          MaxCommits,       \* MAX_COMMITS
          MaxChanges        \* bound on the changes of the world during the run

ASSUME GitAssumption ==
  /\ None \notin Repositories \union Branches \union Upstreams \union Commits
  /\ Parent \in [Commits -> Commits \union {None}]
  /\ ExpectedRepository \in Repositories /\ ExpectedBranch \in Branches
  /\ ExpectedBaseSha \in Commits /\ Upstreams # {}
  /\ {MaxCommits, MaxChanges} \subseteq Nat

VARIABLES
  world,      \* the repository and its remote, outside src/
  changes,    \* changes of the world so far
  calm,       \* the world has not changed since the Codex run returned
  pc,         \* the command run() is about to issue
  preflightUpstream,     \* of GitPreflight; its other fields equal the request
  originalRemoteExists,  \* local of inspectLocalAfterRun
  evidence,   \* GitDeliveryEvidence
  outcome,    \* of the Codex run
  status,     \* deliveryStatus of the result, or the code of the error thrown
  failedAt    \* the command of the inspection that failed, or "none"

runVars == <<preflightUpstream, originalRemoteExists, evidence, outcome, status, failedAt>>
vars == <<world, changes, calm, pc, runVars>>

Maybe(S) == S \union {None}

\* repository, remoteExists and remoteHead are those of the remote and of the
\* remote branch that the preflight found; a repository of None is one whose
\* URL names no GitHub repository.
Worlds ==
  [repository : Maybe(Repositories), remoteExists : BOOLEAN, remoteHead : Maybe(Commits),
   branch : Maybe(Branches), upstream : Maybe(Upstreams), head : Commits, clean : BOOLEAN]

\* git merge-base --is-ancestor and git rev-list base..head.  A commit and what
\* is reached from it by going from parent to parent: in every set of commits
\* that contains it and the parents of its members.
Histories == {H \in SUBSET Commits : \A c \in H : Parent[c] \in H \union {None}}

Ancestors == [c \in Commits |-> {d \in Commits : \A H \in Histories : c \in H => d \in H}]

BaseIsAncestor(head) == ExpectedBaseSha \in Ancestors[head]
CommitsAfterBase(head) == Ancestors[head] \ Ancestors[ExpectedBaseSha]

\* localEvidence(preflight), and unavailableEvidence
UnavailableEvidence ==
  [githubRepository |-> ExpectedRepository, branch |-> ExpectedBranch, headSha |-> None,
   commitShas |-> {}, workingTreeClean |-> FALSE, remoteHeadSha |-> None, pushVerified |-> FALSE]

Init ==
  /\ world = [repository |-> ExpectedRepository, remoteExists |-> TRUE,
              remoteHead |-> ExpectedBaseSha, branch |-> ExpectedBranch,
              upstream |-> CHOOSE u \in Upstreams : TRUE,
              head |-> ExpectedBaseSha, clean |-> TRUE]
  /\ changes = 0
  /\ calm = FALSE
  /\ pc = "preflight.clean"
  /\ preflightUpstream = None
  /\ originalRemoteExists = FALSE
  /\ evidence = UnavailableEvidence
  /\ outcome = "none" /\ status = "none" /\ failedAt = "none"

\* The world: Codex commits and pushes; the user, or anybody, edits, switches
\* branches, rewrites history, changes the configuration.
WorldChanges ==
  /\ changes < MaxChanges
  /\ changes' = changes + 1
  /\ \/ \E r \in Maybe(Repositories) : world' = [world EXCEPT !.repository = r]
     \/ \E c \in Maybe(Commits) : world' = [world EXCEPT !.remoteHead = c]
     \/ \E b \in Maybe(Branches) : world' = [world EXCEPT !.branch = b]
     \/ \E u \in Maybe(Upstreams) : world' = [world EXCEPT !.upstream = u]
     \/ \E c \in Commits : world' = [world EXCEPT !.head = c]
     \/ world' = [world EXCEPT !.remoteExists = ~@]
     \/ world' = [world EXCEPT !.clean = ~@]
  /\ calm' = FALSE
  /\ UNCHANGED <<pc, runVars>>

----------------------------------------------------------------------------
(* Control                                                                 *)

PreflightOrder == <<"preflight.clean", "preflight.branch", "preflight.head",
                    "preflight.upstream", "preflight.repository", "codex">>

\* The commits are enumerated before the ancestry is known.
InspectionOrderBug == <<"remotes", "repository", "branch", "head", "commits", "ancestry",
                        "clean", "upstream", "lsRemote">>

\* The remote is asked before the upstream is compared.
InspectionOrderEagerBug == <<"remotes", "repository", "branch", "head", "ancestry", "commits",
                             "clean", "lsRemote", "upstream">>

InspectionOrder == <<"remotes", "repository", "branch", "head", "ancestry", "commits",
                     "clean", "upstream", "lsRemote">>

StepsOf(order) == {order[i] : i \in DOMAIN order}

Following(order) ==
  /\ \E i \in 1..(Len(order) - 1) : pc = order[i] /\ pc' = order[i + 1]
  /\ UNCHANGED <<world, changes, calm, outcome, status, failedAt>>

\* The promise of run() settles, with a result or an error.
FinishBug(verdict) == pc' = "done" /\ UNCHANGED status

Finish(verdict) == pc' = "done" /\ status' = verdict

----------------------------------------------------------------------------
(* preflight                                                               *)

\* The command of this step succeeds with what the request expects.
PreflightFinds(step, asExpected) ==
  /\ pc = step /\ asExpected
  /\ Following(PreflightOrder)
  /\ UNCHANGED <<originalRemoteExists, evidence>>

PreflightReads ==
  \/ PreflightFinds("preflight.clean", world.clean) /\ UNCHANGED preflightUpstream
  \/ /\ PreflightFinds("preflight.branch", world.branch = ExpectedBranch)
     /\ UNCHANGED preflightUpstream
  \/ /\ PreflightFinds("preflight.head", world.head = ExpectedBaseSha)
     /\ UNCHANGED preflightUpstream
  \/ /\ PreflightFinds("preflight.upstream", world.upstream # None)
     /\ preflightUpstream' = world.upstream
  \/ /\ PreflightFinds("preflight.repository",
                       world.remoteExists /\ world.repository = ExpectedRepository)
     /\ UNCHANGED preflightUpstream

\* It finds something else, or a command fails.
PreflightFails ==
  /\ pc \in StepsOf(PreflightOrder) \ {"codex"}
  /\ Finish("GIT_PREFLIGHT_FAILED")
  /\ UNCHANGED <<world, changes, calm, preflightUpstream, originalRemoteExists, evidence,
                 outcome, failedAt>>

----------------------------------------------------------------------------
(* The Codex run                                                           *)

CodexReturns(o) ==
  /\ pc = "codex"
  /\ outcome' = o
  /\ calm' = TRUE
  /\ IF o = "completed" THEN pc' = "remotes" /\ UNCHANGED status
                        ELSE Finish("codex_not_completed")
  /\ UNCHANGED <<world, changes, preflightUpstream, originalRemoteExists, evidence, failedAt>>

CodexThrows ==
  /\ pc = "codex"
  /\ Finish("GIT_EXECUTION_FAILED")
  /\ UNCHANGED <<world, changes, calm, preflightUpstream, originalRemoteExists, evidence,
                 outcome, failedAt>>

----------------------------------------------------------------------------
(* inspectLocalAfterRun and verifyRemoteHead                               *)

Learns(field, value) == evidence' = [evidence EXCEPT ![field] = value]

\* Go on when ok holds, otherwise return this verdict.
Gate(ok, verdict) ==
  \/ ok /\ Following(InspectionOrder)
  \/ ~ok /\ Finish(verdict) /\ UNCHANGED <<world, changes, calm, outcome, failedAt>>

RemotesListed ==
  /\ pc = "remotes"
  /\ originalRemoteExists' = world.remoteExists
  /\ IF world.remoteExists
     THEN Following(InspectionOrder)
     ELSE pc' = "branch" /\ UNCHANGED <<world, changes, calm, outcome, status, failedAt>>
  /\ UNCHANGED <<preflightUpstream, evidence>>

\* get-url fails when the remote has gone meanwhile.
RepositoryRead ==
  /\ pc = "repository" /\ world.remoteExists
  /\ Learns("githubRepository", world.repository)
  /\ Gate(world.repository = ExpectedRepository, "repository_mismatch")
  /\ UNCHANGED <<preflightUpstream, originalRemoteExists>>

BranchRead ==
  /\ pc = "branch"
  /\ Learns("branch", world.branch)
  /\ Gate(world.branch = ExpectedBranch, "branch_changed")
  /\ UNCHANGED <<preflightUpstream, originalRemoteExists>>

HeadRead ==
  /\ pc = "head"
  /\ Learns("headSha", world.head)
  /\ Following(InspectionOrder)
  /\ UNCHANGED <<preflightUpstream, originalRemoteExists>>

\* Any head is taken for a descendant.
AncestryKeptBug(head) == head # None
AncestryKept(head) == BaseIsAncestor(head)

AncestryChecked ==
  /\ pc = "ancestry"
  /\ Gate(AncestryKept(evidence.headSha), "history_rewritten")
  /\ UNCHANGED <<preflightUpstream, originalRemoteExists, evidence>>

\* rev-list base..HEAD resolves HEAD again.
CommitsListed ==
  LET commits == CommitsAfterBase(world.head) IN
  /\ pc = "commits"
  /\ Cardinality(commits) <= MaxCommits
  /\ Learns("commitShas", commits)
  /\ Gate(commits # {}, "no_commit")
  /\ UNCHANGED <<preflightUpstream, originalRemoteExists>>

CleanRead ==
  /\ pc = "clean"
  /\ Learns("workingTreeClean", world.clean)
  /\ Gate(world.clean, "working_tree_dirty")
  /\ UNCHANGED <<preflightUpstream, originalRemoteExists>>

UpstreamRead ==
  /\ pc = "upstream"
  /\ Gate(world.upstream = preflightUpstream /\ originalRemoteExists, "push_not_verified")
  /\ UNCHANGED <<preflightUpstream, originalRemoteExists, evidence>>

RemoteHeadRead ==
  LET pushed == world.remoteHead = evidence.headSha IN
  /\ pc = "lsRemote" /\ world.remoteExists
  /\ evidence' = [evidence EXCEPT !.remoteHeadSha = world.remoteHead, !.pushVerified = pushed]
  /\ Finish(IF pushed THEN "verified" ELSE "push_not_verified")
  /\ UNCHANGED <<world, changes, calm, preflightUpstream, originalRemoteExists, outcome, failedAt>>

\* A command times out, its answer is malformed, or there are too many commits.
InspectionFails ==
  /\ pc \in StepsOf(InspectionOrder)
  /\ Finish("git_inspection_failed")
  /\ evidence' = UnavailableEvidence
  /\ failedAt' = IF pc = "commits" /\ Cardinality(CommitsAfterBase(world.head)) > MaxCommits
                 THEN "overflow" ELSE pc
  /\ UNCHANGED <<world, changes, calm, preflightUpstream, originalRemoteExists, outcome>>

Next ==
  \/ WorldChanges
  \/ PreflightReads \/ PreflightFails
  \/ \E o \in {"completed", "failed", "cancelled"} : CodexReturns(o)
  \/ CodexThrows
  \/ RemotesListed \/ RepositoryRead \/ BranchRead \/ HeadRead \/ AncestryChecked
  \/ CommitsListed \/ CleanRead \/ UpstreamRead \/ RemoteHeadRead \/ InspectionFails

Spec == Init /\ [][Next]_vars

----------------------------------------------------------------------------
(* deliveryStatus: the precedence of the verdicts, as a function of        *)
(* complete evidence.  run() does not call it.                             *)

DeliveryStatus(o, e, baseIsAncestor, upstreamUnchanged) ==
  LET tests == << <<o = "completed",                           "codex_not_completed">>,
                  <<e.githubRepository = ExpectedRepository,   "repository_mismatch">>,
                  <<e.branch = ExpectedBranch,                 "branch_changed">>,
                  <<baseIsAncestor,                            "history_rewritten">>,
                  <<e.commitShas # {},                         "no_commit">>,
                  <<e.workingTreeClean,                        "working_tree_dirty">>,
                  <<upstreamUnchanged /\ e.pushVerified,       "push_not_verified">> >>
      failed == {i \in DOMAIN tests : ~tests[i][1]}
  IN IF failed = {} THEN "verified" ELSE tests[Min(failed)][2]

\* Everything there is to know of the world at one instant.
FullEvidence ==
  [githubRepository |-> IF world.remoteExists THEN world.repository ELSE ExpectedRepository,
   branch |-> world.branch, headSha |-> world.head,
   commitShas |-> CommitsAfterBase(world.head), workingTreeClean |-> world.clean,
   remoteHeadSha |-> world.remoteHead, pushVerified |-> world.remoteHead = world.head]

TrueStatus ==
  DeliveryStatus(outcome, FullEvidence, BaseIsAncestor(world.head),
                 world.upstream = preflightUpstream /\ world.remoteExists)

----------------------------------------------------------------------------
(* The review envelope of the result, and the check it must pass wherever   *)
(* it is sent: the browser bridge makes it first of all.                    *)

DeliveryStatuses ==
  {"verified", "codex_not_completed", "branch_changed", "history_rewritten", "no_commit",
   "working_tree_dirty", "repository_mismatch", "push_not_verified", "git_inspection_failed"}

\* createImplementationReviewEnvelope; the rest of it comes from the request.
Envelope ==
  [githubRepository |-> evidence.githubRepository, branch |-> evidence.branch,
   headSha |-> evidence.headSha, commitShas |-> evidence.commitShas,
   pushVerified |-> evidence.pushVerified, deliveryStatus |-> status, codexOutcome |-> outcome]

\* validateImplementationReviewEnvelope; what is None here is "" there.
IsReviewable(e) ==
  /\ None \notin {e.githubRepository, e.branch, e.headSha}
  /\ e.deliveryStatus \in DeliveryStatuses
  /\ e.codexOutcome \in {"completed", "failed", "cancelled"}

----------------------------------------------------------------------------
(* Properties                                                              *)

Statuses == DeliveryStatuses \union {"GIT_PREFLIGHT_FAILED", "GIT_EXECUTION_FAILED"}

TypeOK ==
  /\ world \in Worlds /\ changes \in 0..MaxChanges /\ calm \in BOOLEAN
  /\ pc \in StepsOf(PreflightOrder) \union StepsOf(InspectionOrder) \union {"done"}
  /\ preflightUpstream \in Maybe(Upstreams) /\ originalRemoteExists \in BOOLEAN
  /\ evidence \in [githubRepository : Maybe(Repositories), branch : Maybe(Branches),
                   headSha : Maybe(Commits), commitShas : SUBSET Commits,
                   workingTreeClean : BOOLEAN, remoteHeadSha : Maybe(Commits),
                   pushVerified : BOOLEAN]
  /\ outcome \in {"none", "completed", "failed", "cancelled"}
  /\ status \in Statuses \union {"none"} /\ (pc = "done" <=> status # "none")
  /\ failedAt \in StepsOf(InspectionOrder) \union {"none", "overflow"}

\* "Precedence ... makes status deterministic": in a repository that stays as
\* Codex left it, reading it command by command gives the documented verdict.
PipelineAgrees ==
  pc = "done" /\ calm /\ failedAt = "none" /\ outcome # "none" => status = TrueStatus

\* An inspection that fails never hides a verdict of higher precedence: when
\* the remote cannot be asked every local gate has passed, and too many commits
\* are reported only of a history that was kept.
FailureHidesNothing ==
  pc = "done" /\ calm =>
    /\ failedAt = "lsRemote" => TrueStatus \in {"verified", "push_not_verified"}
                                /\ world.upstream = preflightUpstream
    /\ failedAt = "overflow" => BaseIsAncestor(world.head) /\ world.branch = ExpectedBranch

\* Whatever changed meanwhile, a verified delivery comes with its proof: the
\* remote branch was seen at the reported head, which descends from the base,
\* and commits were seen; and it can be handed over for review.
VerifiedIsProved ==
  status = "verified" =>
    /\ outcome = "completed"
    /\ evidence.remoteHeadSha = evidence.headSha /\ evidence.pushVerified
    /\ BaseIsAncestor(evidence.headSha)
    /\ evidence.commitShas # {} /\ evidence.workingTreeClean
    /\ IsReviewable(Envelope)

\* README: verification requires at least one new commit and a remote branch at
\* the local HEAD.  HEAD is resolved twice, so the head that was compared with
\* the remote need not be one of the new commits.
VerifiedHeadIsNew == status = "verified" => evidence.headSha \in evidence.commitShas
=============================================================================
