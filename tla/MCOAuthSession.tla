---------------------------- MODULE MCOAuthSession ----------------------------
(* Small instances of OAuthSession for TLC. *)
EXTENDS OAuthSession

CONSTANTS r1, r2

Pair       == {r1, r2}
ReadIds    == {<<1, 1>>, <<2, 1>>}
WriteOps   == {<<[id |-> 1, op |-> "disable"], [id |-> 2, op |-> "delete"]>>,
               <<[id |-> 2, op |-> "enable"], [id |-> 1, op |-> "delete"]>>}
=============================================================================
