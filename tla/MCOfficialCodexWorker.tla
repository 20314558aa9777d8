----------------------- MODULE MCOfficialCodexWorker -----------------------
(* Instances of OfficialCodexWorker for TLC. *)
EXTENDS OfficialCodexWorker, TLC

\* Calls are interchangeable (no property below is temporal under this set).
CallSymmetry == Permutations(Runs) \union Permutations(Cancels)
=============================================================================
