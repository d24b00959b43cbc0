--------------------------- MODULE MCUsageMetering ---------------------------
(* A small instance of UsageMetering for TLC. *)
EXTENDS UsageMetering, TLC

CONSTANTS c1, c2, p1, p2, alice

Written  == {c1, c2}
Two      == {p1, p2}
Creators == c1 :> alice @@ c2 :> alice
Sym      == Permutations(Two) \union Permutations(Written)
=============================================================================
