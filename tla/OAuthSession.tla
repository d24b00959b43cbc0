----------------------------- MODULE OAuthSession -----------------------------
(***************************************************************************)
(* The oauth_sessions rows, each with one user's tokens at an external     *)
(* OAuth provider (oauth/oauth_session_service.py), and the requests that  *)
(* read tokens through secret values, refresh, patch or delete rows.  A    *)
(* request has one database transaction, which may touch several rows.     *)
(*                                                                         *)
(* The provider is external: it numbers the refresh tokens of a session,   *)
(* takes only the last one and may replace it when it is used.             *)
(***************************************************************************)
EXTENDS Integers, Sequences, FiniteSets

CONSTANTS
    NumIds,        \* bound: the rows, in the order of their ids
    Reqs,          \* bound: the requests, used once each
    Reads,         \* bound: id sequences of secret-value reads
    Writes,        \* bound: operation sequences of PATCH, DELETE and batch writes
    AccessLife,    \* lifetimes the provider gives access tokens
    RefreshLife,   \* the same for refresh tokens; None: not advertised
    Drift,         \* provider.expire_drift_tolerance
    MaxTime,       \* bound: the clock
    MaxToken,      \* bound: refresh tokens of a session
    None

Ids     == 1 .. NumIds
WriteOp == {"enable", "disable", "delete"}

ASSUME BoundAssumption == NumIds \in Nat /\ MaxTime \in Nat /\ MaxToken \in Nat \ {0}
ASSUME LifeAssumption  == /\ AccessLife \subseteq Nat \ {0} /\ Drift \in Nat
                          /\ RefreshLife \subseteq (Nat \ {0}) \union {None}
ASSUME InputAssumption == /\ Reads \subseteq Seq(Ids)
                          /\ Writes \subseteq Seq([id : Ids, op : WriteOp])

VARIABLES
    now,
    rows,      \* rows[s]: the committed row; None before the callback or once deleted
    lock,      \* lock[s]: the request that holds its row lock
    req,       \* req[r]: a request
    issued,    \* issued[s]: the last refresh token the provider gave out
    lost       \* the sessions with a rotation that was not stored (history)

vars == <<now, rows, lock, req, issued, lost>>

Times == Nat
RowOf == [token : Nat, until : Times \union {None}, access : Times, enabled : BOOLEAN]
ASSUME NoneAssumption == None \notin Reqs /\ None \notin Nat /\ None \notin RowOf

Ended == {"ok", "failed", "error"}   \* 2xx or 404, another 4xx or 502, 500 or a dead process

\* A request reads, refreshes or writes; it resolves each row, locks it, asks the
\* provider and finishes.  todo is what the request still has to do, loaded the ORM instances it holds, and
\* out the uncommitted versions of the rows it wrote, None for a deleted one.
NoRows == [s \in Ids |-> None]
NoReq  == [kind |-> None, step |-> "idle", todo |-> <<>>, loaded |-> NoRows,
           wrote |-> {}, out |-> NoRows]
-----------------------------------------------------------------------------
Less(life)     == IF life > Drift THEN life - Drift ELSE 0
\* _access_expiry and _refresh_expiry.
Expiry(life)   == now + Less(life)
RefreshExpiry(life) == IF life = None THEN None ELSE Expiry(life)

Op(r)   == Head(req[r].todo).op
Id(r)   == Head(req[r].todo).id
Due(row)         == row.access <= now + Drift
RefreshOver(row) == row.until # None /\ row.until <= now

\* The row as the transaction of r sees it.
Visible(r, s) == IF s \in req[r].wrote THEN req[r].out[s] ELSE rows[s]

\* The request q with its first operation done, which lets go of the instance.
Onward(q) == [q EXCEPT !.todo = Tail(q.todo), !.loaded[Head(q.todo).id] = None,
                       !.step = IF Len(q.todo) = 1 THEN "finish" ELSE "resolve"]

Unlocked(r) == [s \in Ids |-> IF lock[s] = r THEN None ELSE lock[s]]
EndedReq(r, step) == [NoReq EXCEPT !.kind = req[r].kind, !.step = step]

\* The transaction of r is rolled back, with the tokens it had been given.
Rotated(r) == {s \in req[r].wrote : /\ req[r].out[s] # None /\ rows[s] # None
                                   /\ req[r].out[s].token # rows[s].token}
Abandon(r, step) ==
    /\ req' = [req EXCEPT ![r] = EndedReq(r, step)]
    /\ lock' = Unlocked(r)
    /\ lost' = lost \union Rotated(r)
    /\ UNCHANGED rows

Init ==
    /\ now = 0 /\ rows = NoRows /\ lock = NoRows
    /\ req = [r \in Reqs |-> NoReq]
    /\ issued = [s \in Ids |-> 0] /\ lost = {}

-----------------------------------------------------------------------------
\* handle_callback: the code is exchanged and the row is inserted.
Callback(s) ==
    /\ issued[s] = 0
    /\ \E life \in AccessLife, rlife \in RefreshLife :
          rows' = [rows EXCEPT ![s] = [token |-> 1, until |-> RefreshExpiry(rlife),
                                       access |-> Expiry(life), enabled |-> TRUE]]
    /\ issued' = [issued EXCEPT ![s] = 1]
    /\ UNCHANGED <<now, lock, req, lost>>

Begin(r, kind, todo, loaded) ==
    /\ req[r].step = "idle" /\ todo # <<>>
    /\ req' = [req EXCEPT ![r] = [NoReq EXCEPT !.kind = kind, !.step = "resolve",
                                  !.todo = todo, !.loaded = loaded]]
    /\ UNCHANGED <<now, rows, lock, issued, lost>>

OpsOn(ids, op) == [i \in DOMAIN ids |-> [id |-> ids[i], op |-> op]]

\* SecretValueSession.get and get_many: rows are loaded one after the other, and
\* an id that is repeated is resolved again.
ReadSecrets(r) == \E ids \in Reads : Begin(r, "read", OpsOn(ids, "read"), NoRows)
\* _search_oauth: all rows are loaded, in the order of their ids, before the
\* first one is resolved.
SearchSecrets(r) ==
    LET found == {s \in Ids : rows[s] # None}
    IN  \E ids \in [1 .. Cardinality(found) -> found] :
            /\ \A i, j \in DOMAIN ids : i < j => ids[i] < ids[j]
            /\ Begin(r, "read", OpsOn(ids, "read"), rows)
\* POST /oauth/sessions/{id}/refresh.
RefreshSession(r) == \E s \in Ids : Begin(r, "refresh", OpsOn(<<s>>, "refresh"), NoRows)
\* PATCH, DELETE and apply_batch.
WriteSessions(r) == \E ops \in Writes : Begin(r, "write", ops, NoRows)

-----------------------------------------------------------------------------
\* The SELECT of _resolve_session or get.  An instance the session already holds
\* keeps the attributes it was loaded with.
Load(r, s) == IF req[r].loaded[s] # None THEN req[r].loaded[s] ELSE Visible(r, s)

\* get_valid_access_token up to the lock: a row that is gone, disabled or not due
\* needs none.
ResolveRead(r) ==
    /\ req[r].step = "resolve" /\ Op(r) = "read"
    /\ LET s == Id(r)
           row == Load(r, s)
           due == rows[s] # None /\ row.enabled /\ Due(row)
       IN  req' = [req EXCEPT ![r] =
                     IF due THEN [@ EXCEPT !.step = "locking", !.loaded[s] = row]
                            ELSE Onward(@)]
    /\ UNCHANGED <<now, rows, lock, issued, lost>>

\* The get of every other operation.  Setting a column to the value it was loaded
\* with issues no statement.
Resolve(r) ==
    /\ req[r].step = "resolve" /\ Op(r) # "read"
    /\ LET s == Id(r)
           row == Load(r, s)
           same == row # None /\ Op(r) = (IF row.enabled THEN "enable" ELSE "disable")
       IN  IF Visible(r, s) = None
           THEN Abandon(r, "failed")
           ELSE /\ req' = [req EXCEPT ![r] =
                             IF same THEN Onward(@)
                             ELSE [@ EXCEPT !.step = "locking", !.loaded[s] = row]]
                /\ UNCHANGED <<rows, lock, lost>>
    /\ UNCHANGED <<now, issued>>

MayLock(r) == req[r].step = "locking" /\ lock[Id(r)] \in {None, r}
Take(r, q) == /\ lock' = [lock EXCEPT ![Id(r)] = r]
              /\ req' = [req EXCEPT ![r] = q]

\* _refresh_if_needed and explicit_refresh once they are granted the lock.  The
\* recheck reads the instance loaded before the wait.
LockForRefresh(r) ==
    /\ MayLock(r) /\ Op(r) \in {"read", "refresh"}
    /\ LET s    == Id(r)
           row  == req[r].loaded[s]
           over == rows[s] = None \/ RefreshOver(row)
       IN  \/ /\ ~over /\ (Op(r) = "refresh" \/ Due(row))
              /\ Take(r, [req[r] EXCEPT !.step = "asking"])
              /\ UNCHANGED <<rows, lost>>
           \/ over /\ Op(r) = "refresh" /\ Abandon(r, "failed")
           \/ /\ (over \/ ~Due(row)) /\ Op(r) = "read"
              /\ req'  = [req EXCEPT ![r] = Onward(@)]
              /\ lock' = IF rows[s] = None THEN lock ELSE [lock EXCEPT ![s] = r]
              /\ UNCHANGED <<rows, lost>>
    /\ UNCHANGED <<now, issued>>

\* lock_timeout aborts the transaction: the refresh answers 409; a read swallows
\* the error, and fails at its next statement if it has one.
LockTimeout(r) ==
    /\ req[r].step = "locking" /\ Op(r) \in {"read", "refresh"}
    /\ lock[Id(r)] \notin {None, r}
    /\ Abandon(r, IF Op(r) = "refresh" THEN "failed"
                  ELSE IF Len(req[r].todo) = 1 THEN "ok" ELSE "error")
    /\ UNCHANGED <<now, issued>>

Write(r, row) ==
    Take(r, [Onward(req[r]) EXCEPT !.wrote = @ \union {Id(r)}, !.out[Id(r)] = row])

\* Mutant of Patch: the loaded instance is merged, which inserts it again.
PatchMerges(r) ==
    /\ MayLock(r) /\ Op(r) \in {"enable", "disable"}
    /\ Write(r, [req[r].loaded[Id(r)] EXCEPT !.enabled = (Op(r) = "enable")])
    /\ UNCHANGED <<now, rows, issued, lost>>

\* The flush of update, which writes the changed column only.
Patch(r) ==
    /\ MayLock(r) /\ Op(r) \in {"enable", "disable"}
    /\ IF rows[Id(r)] = None
       THEN Abandon(r, "error")
       ELSE /\ Write(r, [Visible(r, Id(r)) EXCEPT !.enabled = (Op(r) = "enable")])
            /\ UNCHANGED <<rows, lost>>
    /\ UNCHANGED <<now, issued>>

\* The DELETE of delete: no row is no error.
Delete(r) ==
    /\ MayLock(r) /\ Op(r) = "delete"
    /\ IF rows[Id(r)] = None THEN req' = [req EXCEPT ![r] = Onward(@)] /\ UNCHANGED lock
                             ELSE Write(r, None)
    /\ UNCHANGED <<now, rows, issued, lost>>

\* PostgreSQL ends one of the transactions that wait for each other.
Blocks(q, r) == req[r].step = "locking" /\ q # r /\ lock[Id(r)] = q
DeadlockDetected(r) ==
    /\ \E ring \in SUBSET Reqs :
          /\ r \in ring
          /\ \A q \in ring : (\E p \in ring : Blocks(p, q)) /\ (\E p \in ring : Blocks(q, p))
    /\ Abandon(r, "error")
    /\ UNCHANGED <<now, issued>>

-----------------------------------------------------------------------------
\* Mutants of ProviderAnswers: every column of the loaded instance is written; and
\* the answer's refresh token is ignored.
ProviderAnswersStale(r) ==
    /\ req[r].step = "asking" /\ req[r].loaded[Id(r)].token = issued[Id(r)]
    /\ \E life \in AccessLife : Write(r, [req[r].loaded[Id(r)] EXCEPT !.access = Expiry(life)])
    /\ UNCHANGED <<now, rows, issued, lost>>
ProviderAnswersUnread(r) ==
    /\ req[r].step = "asking" /\ req[r].loaded[Id(r)].token = issued[Id(r)]
    /\ issued' \in {issued, [issued EXCEPT ![Id(r)] = @ + 1]}
    /\ \E life \in AccessLife : Write(r, [Visible(r, Id(r)) EXCEPT !.access = Expiry(life)])
    /\ UNCHANGED <<now, rows, lost>>

\* _do_refresh gets an answer and flushes it: the token columns, and the refresh
\* expiry if one was advertised.  A row that this request refreshed before is
\* refreshed again from what it flushed.
ProviderAnswers(r) ==
    /\ req[r].step = "asking"
    /\ LET s == Id(r)
       IN  /\ req[r].loaded[s].token = issued[s]
           /\ \E rotates \in BOOLEAN, life \in AccessLife, rlife \in RefreshLife :
                LET token == IF rotates THEN issued[s] + 1 ELSE issued[s]
                    until == IF rlife = None THEN Visible(r, s).until ELSE RefreshExpiry(rlife)
                IN  /\ token <= MaxToken
                    /\ issued' = [issued EXCEPT ![s] = token]
                    /\ Write(r, [Visible(r, s) EXCEPT !.token = token, !.until = until,
                                                       !.access = Expiry(life)])
    /\ UNCHANGED <<now, rows, lost>>

\* How a request goes on after an OAuthProviderError: a read takes it for a secret
\* that is not there, the refresh answers 502.
Unanswered(r) ==
    IF Op(r) = "refresh"
    THEN req' = [req EXCEPT ![r] = EndedReq(r, "failed")] /\ lock' = Unlocked(r)
    ELSE req' = [req EXCEPT ![r] = Onward(@)] /\ UNCHANGED lock

\* Mutant of ProviderFails: the transaction stays open.
ProviderFailsLocked(r) ==
    /\ req[r].step = "asking" /\ req' = [req EXCEPT ![r] = EndedReq(r, "failed")]
    /\ UNCHANGED <<now, rows, lock, issued, lost>>

\* The provider is not reached or refuses the token.
ProviderFails(r) ==
    /\ req[r].step = "asking" /\ Unanswered(r)
    /\ UNCHANGED <<now, rows, issued, lost>>

\* The provider replaced the token, but its answer does not arrive.
AnswerIsLost(r) ==
    /\ req[r].step = "asking" /\ Unanswered(r)
    /\ req[r].loaded[Id(r)].token = issued[Id(r)] /\ issued[Id(r)] < MaxToken
    /\ issued' = [issued EXCEPT ![Id(r)] = @ + 1]
    /\ lost' = lost \union {Id(r)}
    /\ UNCHANGED <<now, rows>>

\* The end of a request that went through.  The routers of the session resource
\* commit; the secret-value routes do not.
Finish(r) ==
    /\ req[r].step = "finish"
    /\ IF req[r].kind = "read"
       THEN Abandon(r, "ok")
       ELSE /\ rows' = [s \in Ids |-> Visible(r, s)]
            /\ req' = [req EXCEPT ![r] = EndedReq(r, "ok")]
            /\ lock' = Unlocked(r) /\ UNCHANGED lost
    /\ UNCHANGED <<now, issued>>

Crash(r) ==
    /\ req[r].step \notin {"idle"} \union Ended
    /\ Abandon(r, "error")
    /\ UNCHANGED <<now, issued>>

Tick == now < MaxTime /\ now' = now + 1 /\ UNCHANGED <<rows, lock, req, issued, lost>>

Start(r)   == ReadSecrets(r) \/ SearchSecrets(r) \/ RefreshSession(r) \/ WriteSessions(r)
Proceed(r) == ResolveRead(r) \/ Resolve(r) \/ LockForRefresh(r) \/ LockTimeout(r) \/ Patch(r)
              \/ Delete(r) \/ DeadlockDetected(r) \/ ProviderAnswers(r) \/ ProviderFails(r)
              \/ AnswerIsLost(r) \/ Finish(r)

Next == \/ Tick \/ \E s \in Ids : Callback(s)
        \/ \E r \in Reqs : Start(r) \/ Proceed(r) \/ Crash(r)

\* A request that can go on does: the provider has a timeout, PostgreSQL resolves
\* deadlocks.
Fairness == \A r \in Reqs : WF_vars(Proceed(r))
Spec == Init /\ [][Next]_vars /\ Fairness

-----------------------------------------------------------------------------
\* Enabling or disabling a session is never undone by a token refresh that was in
\* flight: only a PATCH changes the column.
OnlyPatchEnables ==
    [][\A s \in Ids : rows[s] # None /\ rows'[s] # None /\ rows'[s].enabled # rows[s].enabled
          => \E r \in Reqs : req[r].kind = "write" /\ req[r].step = "finish"
                             /\ req'[r].step = "ok"]_vars

\* A refresh or a PATCH in flight does not bring a deleted session back.
DeletedStaysDeleted == [][\A s \in Ids : rows[s] = None /\ issued[s] > 0 => rows'[s] = None]_vars

\* Every request is answered, whatever the order in which batches lock the rows.
RequestsEnd == \A r \in Reqs : (req[r].step # "idle") ~> (req[r].step \in Ended)

\* The refresh token of session s, as the abstract specification sees it.
StoredToken(s)  == IF rows[s] = None THEN None ELSE rows[s].token
PendingToken(s) ==
    IF lock[s] # None /\ s \in Rotated(lock[s]) THEN req[lock[s]].out[s].token ELSE None
RC(s) == INSTANCE RotatingCredential
            WITH stored <- StoredToken(s), pending <- PendingToken(s),
                 issued <- issued[s], lost <- s \in lost

\* Each session is a rotating credential: at most one request replaces its token,
\* what it got is stored whole or lost, and a session under replacement is not deleted.
Credentials == /\ \A s \in Ids : RC(s)!Init
               /\ [][\A s \in Ids : [RC(s)!Next]_(RC(s)!vars)]_vars

-----------------------------------------------------------------------------
\* Statements of the documentation that TLC refutes; no configuration checks them.

\* The docstring of the service: "SELECT ... FOR UPDATE ... re-check after lock".  A
\* request that waited for another refresh does not present the token it replaced.
ReplacedTokenNotPresented ==
    \A r \in Reqs : req[r].step = "asking"
        => Id(r) \in lost \/ req[r].loaded[Id(r)].token = issued[Id(r)]

\* The docstring of the service: "Lazy refresh".  What a read refreshed is what the
\* row then holds.
LazyRefreshIsStored ==
    [][\A r \in Reqs : req[r].step = "finish" /\ req'[r].step = "ok"
          => \A s \in req[r].wrote : rows'[s] = req[r].out[s]]_vars
=============================================================================
