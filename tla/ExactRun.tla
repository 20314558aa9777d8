------------------------------ MODULE ExactRun ------------------------------
(***************************************************************************)
(* What the Codex worker promises its callers, with no protocol in it: one *)
(* call of run() holds the worker at a time, it asks for at most one turn, *)
(* a cancel() concerns the run that holds the worker, it leads to at most  *)
(* one interrupt and only once the turn was asked for, and a run that was  *)
(* cancelled cannot report an outcome before an interrupt was attempted.   *)
(***************************************************************************)
CONSTANTS Runs, NoRun

VARIABLES
  holder,     \* the run that holds the worker, or NoRun
  started,    \* runs whose turn was asked for
  wanted,     \* runs that a cancel() met
  attempted,  \* runs whose interrupt was attempted
  settled     \* how each run settled

vars == <<holder, started, wanted, attempted, settled>>

Outcomes == {"completed", "failed", "cancelled"}
Refusals == {"rejected", "RUN_ACTIVE"}
Failures == {"rejected", "unremoved"}

Init ==
  /\ holder = NoRun
  /\ started = {}
  /\ wanted = {}
  /\ attempted = {}
  /\ settled = [r \in Runs |-> "none"]

Acquire(r) ==
  /\ holder = NoRun
  /\ settled[r] = "none"
  /\ holder' = r
  /\ UNCHANGED <<started, wanted, attempted, settled>>

\* A call that never gets the worker settles without disturbing its holder.
Refuse(r) ==
  /\ holder # r
  /\ settled[r] = "none"
  /\ \E why \in Refusals : settled' = [settled EXCEPT ![r] = why]
  /\ UNCHANGED <<holder, started, wanted, attempted>>

StartTurn(r) ==
  /\ holder = r
  /\ r \notin started
  /\ started' = started \union {r}
  /\ UNCHANGED <<holder, wanted, attempted, settled>>

Attempt(r) ==
  /\ r \in started \ attempted
  /\ attempted' = attempted \union {r}

Cancel(r) ==
  /\ holder = r
  /\ wanted' = wanted \union {r}
  /\ Attempt(r) \/ UNCHANGED attempted
  /\ UNCHANGED <<holder, started, settled>>

Interrupt(r) ==
  /\ holder = r
  /\ r \in wanted
  /\ Attempt(r)
  /\ UNCHANGED <<holder, started, wanted, settled>>

Settle(r) ==
  /\ holder = r
  /\ holder' = NoRun
  /\ \E res \in Outcomes \union Failures :
       /\ res \in Outcomes => r \in started /\ (r \in wanted => r \in attempted)
       /\ settled' = [settled EXCEPT ![r] = res]
  /\ UNCHANGED <<started, wanted, attempted>>

Next ==
  \E r \in Runs :
    Acquire(r) \/ Refuse(r) \/ StartTurn(r) \/ Cancel(r) \/ Interrupt(r) \/ Settle(r)

Spec == Init /\ [][Next]_vars
=============================================================================
