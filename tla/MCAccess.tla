------------------------------ MODULE MCAccess ------------------------------
(* One user with up to two roles, one of which a key may be restricted to. *)
EXTENDS Access
Sym == Permutations(Roles)
MCPolicies ==
    {NoPolicy, Denied, ReadOnly, OwnRecords,
     Split("acl", {1}, Permitted, Denied, Denied),
     Split("acl", {}, ReadOnly, Split("creator", {}, Permitted, Denied, Denied), Permitted),
     Split("creator", {}, Permitted, ReadOnly, OwnKeys),
     Split("group", {TheGroup}, Permitted, Denied, Permitted)}
(* Bound: at most one change around a request, and no request while the    *)
(* pruning task runs.                                                      *)
RequestOrPrune ==
    /\ req.pc = "new" \/ prune.pc = "idle"
    /\ req.pc = "new" \/ left >= MaxChanges - 1
=============================================================================
