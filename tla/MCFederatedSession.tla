------------------------ MODULE MCFederatedSession ------------------------
(* Small instances of FederatedSession for TLC. *)
EXTENDS FederatedSession, TLC

CONSTANTS r1, r2

Pair == {r1, r2}
=============================================================================
