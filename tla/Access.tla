------------------------------- MODULE Access -------------------------------
(***************************************************************************)
(* What a request may do with the rows of one resource.  Every role of the *)
(* caller may carry a policy for the resource; the policies reduce to      *)
(* search filters, joined with OR, narrowed with AND by the role that the  *)
(* caller's API key is restricted to.  A filter is used in two forms: as a *)
(* condition of SQL statements and, for creates, in memory.  Meanwhile     *)
(* roles, assignments and rows change, and a background task takes the ids *)
(* of deleted rows out of the id lists of policies.                        *)
(*                                                                         *)
(* One user, one resource (one policy column of the roles), one request    *)
(* and one pruning task are modelled; everybody else is the changes.       *)
(***************************************************************************)
EXTENDS Naturals, FiniteSets, TLC

CONSTANTS
    Roles, Me, Other,   \* roles; the user of the request and another one
    Policies,           \* policies that roles start with and are given
    MaxId,              \* bound: ids of rows
    MaxChanges          \* bound: changes by others

ASSUME AccessAssumption == MaxId \in Nat \ {0} /\ MaxChanges \in Nat /\ Me # Other

Ids == 1..MaxId
TheGroup == "group"
NoPolicy == [kind |-> "null"]
NoRole == "no role"

VARIABLES
    policy,     \* the policy column, by existing role
    mine,       \* roles assigned to the user
    keyRole,    \* role_id of the user's API key
    groups,     \* groups the user belongs to
    rows,       \* creator by id
    used,       \* ids drawn so far
    left,       \* changes left
    req,        \* the request: its phase and what it has read
    prune       \* the pruning task: its phase and what it has read

vars == <<policy, mine, keyRole, groups, rows, used, left, req, prune>>

-----------------------------------------------------------------------------
(* Filters.                                                                *)

AllFilter == [kind |-> "all"]
NoneFilter == [kind |-> "none"]
AclFilter(ids) == [kind |-> "acl", ids |-> ids]
CreatorMatchFilter(u) == [kind |-> "creator", user |-> u]
RecordFilter(u) == [kind |-> "record", user |-> u]  \* the owner is the one of a related row
ScopeMatchFilter(match, in, out) == [kind |-> "scope", match |-> match, in |-> in, out |-> out]
OrFilter(fs) == [kind |-> "or", filters |-> fs]
AndFilter(fs) == [kind |-> "and", filters |-> fs]

(* matches: the filter in memory.  The filter of records asks a related     *)
(* row, and denies if that is not loaded.                                  *)
RECURSIVE Matches(_, _)
Matches(f, row) ==
    CASE f.kind = "all" -> TRUE
      [] f.kind = "none" -> FALSE
      [] f.kind = "acl" -> f.ids = {} \/ row.id \in f.ids
      [] f.kind = "creator" -> row.creator = f.user
      [] f.kind = "record" -> row.joined /\ row.creator = f.user
      [] f.kind = "scope" -> IF Matches(f.match, row) THEN Matches(f.in, row) ELSE Matches(f.out, row)
      [] f.kind = "or" -> \E g \in f.filters : Matches(g, row)
      [] f.kind = "and" -> \A g \in f.filters : Matches(g, row)

(* sql_condition: no clause at all, or the truth of the clause for a row.  *)
NoClause == "no clause"
True == "true"
False == "false"
Clause(b) == IF b THEN True ELSE False
AndClauses(cs) == IF cs \subseteq {NoClause} THEN NoClause ELSE Clause(False \notin cs)
OrDropping(cs) == Clause(True \in cs)  \* Mutant: children without a clause are left out

OrClauses(cs) == IF NoClause \in cs THEN NoClause ELSE Clause(True \in cs)

(* negated_sql_condition of the filters that a scope matches with.         *)
Negated(f, row) ==
    IF f.kind = "acl" THEN Clause(f.ids # {} /\ row.id \notin f.ids) ELSE Clause(row.creator # f.user)

RECURSIVE Condition(_, _)
Condition(f, row) ==
    CASE f.kind = "all" -> NoClause
      [] f.kind = "none" -> False
      [] f.kind = "acl" -> IF f.ids = {} THEN NoClause ELSE Clause(row.id \in f.ids)
      [] f.kind \in {"creator", "record"} -> Clause(row.creator = f.user)
      [] f.kind = "scope" ->
            IF Condition(f.match, row) = NoClause THEN Condition(f.in, row)
            ELSE OrClauses({AndClauses({Condition(f.match, row), Condition(f.in, row)}),
                            AndClauses({Negated(f.match, row), Condition(f.out, row)})})
      [] f.kind = "or" -> OrClauses({Condition(g, row) : g \in f.filters})
      [] f.kind = "and" -> AndClauses({Condition(g, row) : g \in f.filters})

(* and_filter: deny absorbs, "all" disappears, one filter stands alone.    *)
AndOf(fs) ==
    LET flat == UNION {IF f.kind = "and" THEN f.filters ELSE {f} : f \in fs} \ {AllFilter}
    IN IF NoneFilter \in flat THEN NoneFilter
       ELSE IF flat = {} THEN AllFilter
       ELSE IF Cardinality(flat) = 1 THEN CHOOSE f \in flat : TRUE
       ELSE AndFilter(flat)

-----------------------------------------------------------------------------
(* Policies.                                                               *)

Permitted == [kind |-> "permitted"]
Denied == [kind |-> "denied"]
ReadOnly == [kind |-> "readonly"]
OwnKeys == [kind |-> "own"]           \* ApiKeyAccess: the caller's, for every action
OwnRecords == [kind |-> "own_read"]   \* ConversationRecordAccess, EventAccess
Split(kind, ids, match, mismatch, create) ==
    [kind |-> kind, ids |-> ids, on_match |-> match, on_mismatch |-> mismatch, on_create |-> create]
Reading == {"READ", "SEARCH"}

(* Mutant: an empty list is an AclFilter without ids, which matches all.   *)
AclScopeUnchecked(p, in, out) == ScopeMatchFilter(AclFilter(p.ids), in, out)

AclScope(p, in, out) ==
    IF p.ids = {} THEN out ELSE ScopeMatchFilter(AclFilter(p.ids), in, out)

RECURSIVE ToSearchFilter(_, _, _)
ToSearchFilter(p, action, gs) ==
    LET F(q) == ToSearchFilter(q, action, gs)
    IN CASE p.kind = "permitted" -> AllFilter
         [] p.kind = "denied" -> NoneFilter
         [] p.kind = "readonly" -> IF action \in Reading THEN AllFilter ELSE NoneFilter
         [] p.kind = "own" -> CreatorMatchFilter(Me)
         [] p.kind = "own_read" -> IF action \in Reading THEN RecordFilter(Me) ELSE NoneFilter
         [] p.kind \in {"acl", "creator", "group"} /\ action = "CREATE" -> F(p.on_create)
         [] p.kind = "acl" /\ action # "CREATE" -> AclScope(p, F(p.on_match), F(p.on_mismatch))
         [] p.kind = "creator" /\ action # "CREATE" ->
               ScopeMatchFilter(CreatorMatchFilter(Me), F(p.on_match), F(p.on_mismatch))
         [] p.kind = "group" /\ action # "CREATE" ->
               IF gs \cap p.ids # {} THEN F(p.on_match) ELSE F(p.on_mismatch)

(* _combine: the filters by role; a single one stays as it is.             *)
Combine(fs) ==
    LET all == {fs[r] : r \in DOMAIN fs}
    IN CASE Cardinality(DOMAIN fs) = 0 -> NoneFilter
         [] Cardinality(DOMAIN fs) = 1 -> CHOOSE f \in all : TRUE
         [] OTHER -> OrFilter(all)

(* _narrow_with_api_key_role: the key's policy is reduced without groups.  *)
NarrowWithKeyRole(f, q) ==
    CASE q.keyRole = NoRole -> f
      [] q.keyRole # NoRole /\ q.keyPolicy = NoPolicy -> NoneFilter
      [] OTHER -> AndOf({f, ToSearchFilter(q.keyPolicy, q.action, {})})

(* resolve_permission_filter, from what the request has read; NoneFilter   *)
(* is the denial that the guard answers with 403.                          *)
Resolve(q) ==
    LET effective == Combine([r \in {r \in DOMAIN q.roles : q.roles[r] # NoPolicy} |->
                                 ToSearchFilter(q.roles[r], q.action, q.groups)])
    IN IF effective = NoneFilter THEN NoneFilter ELSE NarrowWithKeyRole(effective, q)

-----------------------------------------------------------------------------
(* Changes by others.                                                      *)

NoRequest == [pc |-> "new", action |-> "READ", groups |-> {}, roles |-> <<>>, keyRole |-> NoRole,
              keyPolicy |-> NoPolicy, filter |-> NoneFilter]
NoPrune == [pc |-> "idle", seen |-> <<>>, todo |-> {}, changed |-> <<>>]

Change == left > 0 /\ left' = left - 1 /\ UNCHANGED <<req, prune>>

(* A policy can name any id that has been drawn.                           *)
SetPolicy(r, p) ==
    /\ Change /\ r \in DOMAIN policy
    /\ policy' = [policy EXCEPT ![r] = p]
    /\ UNCHANGED <<mine, keyRole, groups, rows, used>>
SetAcl(r, ids) == \E p \in Policies : p.kind = "acl" /\ SetPolicy(r, [p EXCEPT !.ids = ids])

(* Deleting a role takes its assignments along and frees the keys it       *)
(* restricts.                                                              *)
DeleteRole(r) ==
    /\ Change /\ r \in DOMAIN policy
    /\ policy' = [s \in DOMAIN policy \ {r} |-> policy[s]]
    /\ mine' = mine \ {r}
    /\ keyRole' = IF keyRole = r THEN NoRole ELSE keyRole
    /\ UNCHANGED <<groups, rows, used>>

Assign(r) ==
    /\ Change /\ r \in DOMAIN policy
    /\ mine' = IF r \in mine THEN mine \ {r} ELSE mine \cup {r}
    /\ UNCHANGED <<policy, keyRole, groups, rows, used>>

Membership ==
    /\ Change
    /\ groups' = {TheGroup} \ groups
    /\ UNCHANGED <<policy, mine, keyRole, rows, used>>

CreateRow(i, u) ==
    /\ Change /\ i \notin used
    /\ rows' = (i :> u) @@ rows /\ used' = used \cup {i}
    /\ UNCHANGED <<policy, mine, keyRole, groups>>

DeleteRow(i) ==
    /\ Change /\ i \in DOMAIN rows
    /\ rows' = [j \in DOMAIN rows \ {i} |-> rows[j]]
    /\ UNCHANGED <<policy, mine, keyRole, groups, used>>

-----------------------------------------------------------------------------
(* The request: its token, then its groups, the user's roles (read once    *)
(* and kept for the request) and the key's role, each in a query.          *)

Read(q) == req' = q /\ UNCHANGED <<policy, mine, keyRole, groups, rows, used, left, prune>>

Authenticate(action) ==
    /\ req.pc = "new"
    /\ Read([NoRequest EXCEPT !.pc = "token", !.action = action, !.keyRole = keyRole])
ReadGroups ==
    /\ req.pc = "token"
    /\ Read([req EXCEPT !.pc = "groups", !.groups = groups])
ReadRoles ==
    /\ req.pc = "groups"
    /\ Read([req EXCEPT !.pc = "roles", !.roles = [r \in mine |-> policy[r]]])
ReadKeyRole ==
    /\ req.pc = "roles"
    /\ LET q == [req EXCEPT !.keyPolicy = IF req.keyRole \in DOMAIN policy THEN policy[req.keyRole]
                                          ELSE NoPolicy]
       IN Read([q EXCEPT !.pc = "resolved", !.filter = Resolve(q)])
Answer == req.pc = "resolved" /\ Read(NoRequest)

-----------------------------------------------------------------------------
(* Pruning: read every role, then for each id list ask which ids still     *)
(* exist, then write back the lists that shrank, whole columns, in one     *)
(* commit.  A role that was deleted meanwhile fails the commit.            *)

Pruning(p) == prune' = p /\ UNCHANGED <<mine, keyRole, groups, rows, used, left, req>>
Lists == {r \in DOMAIN policy : policy[r].kind = "acl" /\ policy[r].ids # {}}

PruneRead ==
    /\ prune.pc = "idle" /\ Lists # {}
    /\ Pruning([NoPrune EXCEPT !.pc = "read", !.seen = [r \in Lists |-> policy[r]], !.todo = Lists])
    /\ UNCHANGED policy

PrunedSwapped(p) == [p EXCEPT !.ids = @ \ DOMAIN rows]  \* Mutant: the existing ids are dropped

Pruned(p) == [p EXCEPT !.ids = @ \cap DOMAIN rows]
PrunePolicy(r) ==
    LET kept == Pruned(prune.seen[r])
    IN /\ prune.pc = "read" /\ r \in prune.todo
       /\ Pruning([prune EXCEPT !.todo = @ \ {r},
                                !.changed = IF kept = prune.seen[r] THEN @ ELSE (r :> kept) @@ @])
       /\ UNCHANGED policy

PruneCommit ==
    /\ prune.pc = "read" /\ prune.todo = {}
    /\ policy' = IF DOMAIN prune.changed \subseteq DOMAIN policy THEN prune.changed @@ policy ELSE policy
    /\ Pruning(NoPrune)

Init ==
    /\ policy \in [Roles -> Policies]
    /\ mine \in SUBSET Roles
    /\ keyRole \in Roles \cup {NoRole}
    /\ groups \in SUBSET {TheGroup}
    /\ rows = (1 :> Me) @@ (2 :> Other) /\ used = {1, 2}
    /\ left = MaxChanges /\ req = NoRequest /\ prune = NoPrune

ByOthers ==
    \/ \E r \in Roles :
         \/ \E p \in Policies : SetPolicy(r, p)
         \/ \E ids \in SUBSET used : SetAcl(r, ids)
         \/ DeleteRole(r) \/ Assign(r)
    \/ Membership
    \/ \E i \in Ids : DeleteRow(i) \/ \E u \in {Me, Other} : CreateRow(i, u)

Next ==
    \/ ByOthers
    \/ \E action \in {"CREATE", "READ", "UPDATE"} : Authenticate(action)
    \/ ReadGroups \/ ReadRoles \/ ReadKeyRole \/ Answer
    \/ PruneRead \/ PruneCommit \/ \E r \in Roles : PrunePolicy(r)

Spec == Init /\ [][Next]_vars

-----------------------------------------------------------------------------
(* Properties.                                                             *)

Resolved == req.pc = "resolved"
Subjects == {[id |-> i, creator |-> rows[i], joined |-> b] : i \in DOMAIN rows, b \in BOOLEAN}
            \cup {[id |-> Cardinality(Ids) + 1, creator |-> Me, joined |-> FALSE]}
Selected(f, row) == Condition(f, row) \in {NoClause, True}

(* The two forms of every filter that a request ends up with agree on      *)
(* every row: what a create may insert and an update may change by the     *)
(* check in memory (matches) is what the statements would find             *)
(* (sql_condition), for all joins and narrowings of all policies           *)
(* (search_filter.py, security_models.py).  Only reads of records whose    *)
(* related row is not loaded may be denied in memory.                      *)
FiltersAgree ==
    Resolved => \A row \in Subjects :
        /\ Matches(req.filter, row) => Selected(req.filter, row)
        /\ Selected(req.filter, row) =>
              Matches(req.filter, row) \/ (req.action \in Reading /\ ~row.joined)

(* What a policy grants, as the docstrings of the policies say it.         *)
RECURSIVE Grants(_, _, _, _)
Grants(p, action, gs, row) ==
    LET G(q) == Grants(q, action, gs, row)
        Match == CASE p.kind = "acl" -> row.id \in p.ids
                   [] p.kind = "creator" -> row.creator = Me
                   [] p.kind = "group" -> gs \cap p.ids # {}
    IN CASE p.kind \in {"null", "denied"} -> FALSE
         [] p.kind = "permitted" -> TRUE
         [] p.kind = "readonly" -> action \in Reading
         [] p.kind = "own" -> row.creator = Me
         [] p.kind = "own_read" -> action \in Reading /\ row.creator = Me
         [] OTHER -> IF action = "CREATE" THEN G(p.on_create)
                     ELSE IF Match THEN G(p.on_match) ELSE G(p.on_mismatch)

(* A request may touch exactly the rows that one of the roles it read      *)
(* grants and, with a restricted key, that the key's role grants as well;  *)
(* with a key whose role is gone, none.  An id list that pruning empties   *)
(* grants what is for the rows outside the list, never everything.         *)
GrantsAreExact ==
    Resolved => \A row \in Subjects :
        Selected(req.filter, row) <=>
            /\ \E r \in DOMAIN req.roles : Grants(req.roles[r], req.action, req.groups, row)
            /\ req.keyRole # NoRole => Grants(req.keyPolicy, req.action, {}, row)

(* A list that nobody else changed since the task read it loses only ids   *)
(* of rows that are gone, and a policy that is no list never changes       *)
(* (acl_prune_service.py: "removes the orphans").                          *)
PruneDropsOrphans == [][
    prune.pc = "read" /\ prune'.pc = "idle" =>
        \A r \in DOMAIN policy : policy'[r] # policy[r] =>
            /\ r \in DOMAIN prune.seen
            /\ policy[r] = prune.seen[r] =>
                 /\ policy'[r] = [policy[r] EXCEPT !.ids = policy'[r].ids]
                 /\ policy'[r].ids \subseteq policy[r].ids
                 /\ (policy[r].ids \ policy'[r].ids) \cap DOMAIN rows = {}]_vars

(* Refuted by TLC, and checked by no configuration.                        *)
(* The commit of a pruning takes no id off a list whose row is there and    *)
(* changes no other policy, role updates meanwhile included: pruning        *)
(* "checks which ids still exist ... and removes the orphans"               *)
(* (acl_prune_service.py:5-7).  It writes back whole policies as it read    *)
(* them, and a role update in between is lost.                              *)
PruneRemovesOnlyOrphans == [][
    prune.pc = "read" /\ prune'.pc = "idle" =>
        \A r \in DOMAIN policy : policy'[r] # policy[r] =>
            /\ policy[r].kind = "acl" /\ policy'[r].kind = "acl"
            /\ (policy[r].ids \ policy'[r].ids) \cap DOMAIN rows = {}]_vars

(* A request that passes the guard has a role whose policy does not reduce *)
(* to a deny: resolve_permission_filter "returns None when ... every       *)
(* policy reduces to a deny" (auth_dependencies.py:747-749).               *)
DenialsAreRefused ==
    Resolved /\ req.filter # NoneFilter =>
        \E r \in DOMAIN req.roles :
            req.roles[r] # NoPolicy /\ ToSearchFilter(req.roles[r], req.action, req.groups) # NoneFilter
=============================================================================
