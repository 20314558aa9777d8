---------------------------- MODULE MCGitDelivery ----------------------------
(* Two commits on the base, one after the other, and a history without it    *)
(* that is as long.                                                          *)
EXTENDS GitDelivery

CONSTANTS base, new1, new2, other1, other2

MCCommits == {base, new1, new2, other1, other2}
MCParent == [c \in MCCommits |->
               CASE c = new1 -> base [] c = new2 -> new1 [] c = other2 -> other1 [] OTHER -> None]
=============================================================================
