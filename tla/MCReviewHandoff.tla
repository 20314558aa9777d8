--------------------------- MODULE MCReviewHandoff ---------------------------
(* Envelopes and connections are interchangeable.  The bounds are large one  *)
(* by one; Explored cuts off the behaviours that use them all up together.   *)
EXTENDS ReviewHandoff, TLC

CONSTANT MaxEffort   \* bound on what is opened, sent, disconnected and revoked in all

HandoffSymmetry == Permutations(Conns) \union Permutations(Envelopes)

Revoking == revokedCodes # 0 \/ \E p \in DOMAIN calls : calls[p].op = "delete"

Explored ==
  Cardinality({c \in Conns : webSocket[c] # "none"})
    + Cardinality({c \in Conns : greeting[c].type = "pair_request"})
    + Cardinality({d \in Deliveries : delivery[d].promise # "none"})
    + Cardinality({i \in Operations : operations[i] # NoOperation})
    + Cardinality({i \in Operations : operations[i].kind = "browser_test_prompt"})
    + (codes - 1) + Len(suspended) + (IF Revoking THEN 3 ELSE 0)
    + Len(SelectSeq(<<storage.manual, storage.token = 0>>, LAMBDA b : b)) <= MaxEffort
=============================================================================
