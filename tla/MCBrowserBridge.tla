--------------------------- MODULE MCBrowserBridge ---------------------------
(* The connections and the extension identities are interchangeable.         *)
EXTENDS BrowserBridge, TLC

BridgeSymmetry == Permutations(Conns) \union Permutations(Extensions) \union Permutations(Envelopes)
=============================================================================
