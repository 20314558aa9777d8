--------------------------- MODULE MCCodexSession ---------------------------
(* One session there was and two that appear; then the bootstrap turn, the   *)
(* turn asked for, a turn of the user with the same prompt and one with      *)
(* another prompt.                                                           *)
EXTENDS CodexSession

CONSTANTS SameForeign, OtherForeign

MCTurnIds == {Bootstrap, Real, SameForeign, OtherForeign}
MCTexts == MCTurnIds \union {ExactPrompt}
MCSamePrompt == {Real, SameForeign}
NewSymmetry == Permutations(New)
=============================================================================
