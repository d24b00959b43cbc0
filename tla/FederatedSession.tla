--------------------------- MODULE FederatedSession ---------------------------
(***************************************************************************)
(* One federated login session: its idp_refresh_tokens row with the        *)
(* idp_access_tokens row that hangs on it (auth/auth_service.py), the      *)
(* requests that refresh, revoke or clean it up, each in a database        *)
(* transaction of its own, and the identity provider behind it.            *)
(*                                                                         *)
(* The two rows are written together and are one record here, but they are *)
(* locked apart.  The IdP is external: it hands out numbered refresh       *)
(* tokens, and may rotate one when it is used, after which it is dead.     *)
(***************************************************************************)
EXTENDS Integers, FiniteSets

CONSTANTS
    Reqs,         \* bound: the HTTP requests and cleanup sweeps, used once each
    IdpLife,      \* lifetimes the IdP gives its tokens
    Drift,        \* idp.expire_drift_tolerance
    CleanupAge,   \* idp.delete_expired_seconds
    MaxTime,      \* bound: the clock
    MaxToken,     \* bound: refresh tokens the IdP issues
    None

ASSUME LifeAssumption  == IdpLife \subseteq Nat \ {0} /\ Drift \in Nat /\ CleanupAge \in Nat
ASSUME BoundAssumption == MaxTime \in Nat /\ MaxToken \in Nat \ {0}

VARIABLES
    now,
    login,        \* how the user logged in: "none" yet, "browser" or "client"
    row,          \* the committed rows; None before the login or once deleted
    refreshLock,  \* the request that holds the lock on the refresh row
    accessLock,   \* the request that holds the lock on the access row
    req,          \* req[r]: a request
    idp,          \* the IdP: last token issued, live tokens, rotated ones
    cookies,      \* the session cookies browsers hold
    minted,       \* TRUE once a client was given access and refresh tokens
    lost          \* TRUE once an IdP rotation was not stored (history)

vars == <<now, login, row, refreshLock, accessLock, req, idp, cookies, minted, lost>>

Times  == Nat
RowOf  == [token : Nat, until : Times, accessUntil : Times]
Kinds  == {"cookie", "apikey", "refresh", "revoke", "revokeAccess", "cleanup"}
Refreshing == {"cookie", "apikey", "refresh"}
ASSUME NoneAssumption ==
    None \notin Reqs /\ None \notin Int /\ None \notin Kinds /\ None \notin RowOf
Ended  == {"ok", "failed", "error"}   \* 2xx, 4xx, and 5xx or a dead process
Steps  == {"idle", "locking", "idp", "flush", "commit", "handler",
           "revoking", "deleting", "stamping"} \union Ended

\* seen is the access expiry and token the refresh token its session loaded, out
\* what it flushes, axp the claim of the presented cookie, and time a cutoff or a
\* new expiry.
NoReq == [kind |-> None, step |-> "idle", seen |-> None, token |-> None,
          out |-> None, axp |-> None, time |-> None]

Requests == [kind : Kinds \union {None}, step : Steps, seen : Times \union {None},
             token : Nat \union {None}, out : RowOf \union {None},
             axp : Times \union {None}, time : Int \union {None}]

\* The types of the rows and locks, of the requests, of the IdP and of what
\* clients hold.
TypeOK ==
    /\ now \in Times /\ login \in {"none", "browser", "client"} /\ lost \in BOOLEAN
    /\ row \in RowOf \union {None}
    /\ refreshLock \in Reqs \union {None} /\ accessLock \in Reqs \union {None}
    /\ req \in [Reqs -> Requests]
    /\ idp \in [last : Nat, live : SUBSET Nat, rotated : SUBSET Nat]
    /\ cookies \subseteq [axp : Times, exp : Times]
    /\ minted \in BOOLEAN

-----------------------------------------------------------------------------
\* _idp_access_expiry and _idp_refresh_expiry.
Expiry(life) == now + (IF life > Drift THEN life - Drift ELSE 0)

\* A session cookie minted off an access expiry: its own is at least a second away.
Cookie(axp) == [axp |-> axp, exp |-> IF axp > now THEN axp ELSE now + 1]

AccessUntil == IF row = None THEN None ELSE row.accessUntil
Start(r, kind, step) ==
    req' = [req EXCEPT ![r] = [NoReq EXCEPT !.kind = kind, !.step = step]]
Goto(r, step) == req' = [req EXCEPT ![r].step = step]

\* The transaction of r ends, whatever its outcome.
Release(r) ==
    /\ refreshLock' = IF refreshLock = r THEN None ELSE refreshLock
    /\ accessLock'  = IF accessLock = r THEN None ELSE accessLock

\* r rolls back; a rotation the IdP answered it with is then nowhere stored.
Abandon(r, step) ==
    /\ Goto(r, step) /\ Release(r)
    /\ lost' = (lost \/ (req[r].out # None /\ row # None /\ req[r].out.token # row.token))

\* How an AuthError ends the request: the cookie path does not handle it.
Refused(r) == IF req[r].kind = "cookie" THEN "error" ELSE "failed"
\* An IdpError is not handled by either path of the auth dependency.
IdpRefused(r) == IF req[r].kind = "refresh" THEN "failed" ELSE "error"

Init ==
    /\ now = 0 /\ login = "none" /\ row = None
    /\ refreshLock = None /\ accessLock = None
    /\ req = [r \in Reqs |-> NoReq]
    /\ idp = [last |-> 0, live |-> {}, rotated |-> {}]
    /\ cookies = {} /\ minted = FALSE /\ lost = FALSE

-----------------------------------------------------------------------------
\* handle_callback: the code is exchanged at the IdP and the rows are stored.
\* A browser login gets a cookie, a client login an authorization code.
Login ==
    /\ login = "none" /\ login' \in {"browser", "client"}
    /\ \E life, rlife \in IdpLife :
          row' = [token |-> 1, until |-> Expiry(rlife), accessUntil |-> Expiry(life)]
    /\ cookies' = IF login' = "browser" THEN {Cookie(row'.accessUntil)} ELSE {}
    /\ idp' = [last |-> 1, live |-> {1}, rotated |-> {}]
    /\ UNCHANGED <<now, refreshLock, accessLock, req, minted, lost>>

\* exchange_authorization_code: the code is only checked against the rows.
ExchangeCode ==
    /\ row # None /\ login = "client"
    /\ minted' = TRUE
    /\ UNCHANGED <<now, login, row, refreshLock, accessLock, req, idp, cookies, lost>>

\* depends_access_token with a valid cookie that is about to expire:
\* refresh_access_token loads the access row, without a lock.  (A cookie that is
\* not is only minted again off its own claims.)
PresentCookie(r) ==
    /\ req[r].step = "idle"
    /\ \E c \in cookies :
          /\ c.exp > now /\ c.axp <= now + Drift
          /\ req' = [req EXCEPT ![r] =
                       [NoReq EXCEPT !.kind = "cookie", !.axp = c.axp,
                                     !.seen = AccessUntil,
                                     !.step = IF row = None THEN "error" ELSE "locking"]]
    /\ UNCHANGED <<now, login, row, refreshLock, accessLock, idp, cookies, minted, lost>>

\* _maybe_sync_api_key_session: the row is loaded by _load_access_row.
UseApiKey(r) ==
    /\ req[r].step = "idle" /\ row # None /\ row.accessUntil <= now + Drift
    /\ req' = [req EXCEPT ![r] = [NoReq EXCEPT !.kind = "apikey", !.step = "locking",
                                  !.seen = AccessUntil]]
    /\ UNCHANGED <<now, login, row, refreshLock, accessLock, idp, cookies, minted, lost>>

\* exchange_refresh_token up to the lock: nothing is loaded before it.
RefreshGrant(r) ==
    /\ req[r].step = "idle" /\ minted
    /\ Start(r, "refresh", "locking")
    /\ UNCHANGED <<now, login, row, refreshLock, accessLock, idp, cookies, minted, lost>>

\* Mutant of Lock: the refresh row is read without FOR UPDATE.
LockWithoutWait(r) ==
    /\ req[r].step = "locking" /\ row # None /\ row.until > now
    /\ refreshLock' = r
    /\ req' = [req EXCEPT ![r] = [@ EXCEPT !.seen = row.accessUntil, !.token = row.token,
                                          !.step = "idp"]]
    /\ UNCHANGED <<now, login, row, accessLock, idp, cookies, minted, lost>>

\* _lock_token_rows is granted the lock and reads the refresh row.  The access
\* row is read again too, but an instance the session already holds keeps the
\* attributes it was first loaded with: seen stays what it was.
Lock(r) ==
    /\ req[r].step = "locking" /\ refreshLock = None
    /\ IF row = None \/ (row # None /\ row.until <= now)
       THEN Goto(r, Refused(r)) /\ UNCHANGED refreshLock
       ELSE LET seen == IF req[r].seen = None THEN row.accessUntil ELSE req[r].seen
                skip == req[r].kind # "refresh" /\ seen > now
            IN  /\ refreshLock' = r
                /\ req' = [req EXCEPT ![r] =
                             [@ EXCEPT !.seen = seen, !.token = row.token,
                                       !.step = IF skip THEN "commit" ELSE "idp"]]
    /\ UNCHANGED <<now, login, row, accessLock, idp, cookies, minted, lost>>

\* lock_timeout: the statement fails and aborts the transaction.  The grant
\* answers 409; the auth dependency swallows the error and lets the endpoint run
\* in the same session, a cookie being minted again off its old expiry.
LockTimeout(r) ==
    /\ req[r].step = "locking" /\ refreshLock # None
    /\ Goto(r, IF req[r].kind = "refresh" THEN "failed" ELSE "handler")
    /\ cookies' = IF req[r].kind = "cookie" THEN cookies \union {Cookie(req[r].axp)}
                  ELSE cookies
    /\ UNCHANGED <<now, login, row, refreshLock, accessLock, idp, minted, lost>>

\* The first statement of the endpoint, in the aborted transaction.
HandlerRuns(r) ==
    /\ req[r].step = "handler"
    /\ Goto(r, "error")
    /\ UNCHANGED <<now, login, row, refreshLock, accessLock, idp, cookies, minted, lost>>
-----------------------------------------------------------------------------
\* The IdP takes a live refresh token and answers with new tokens; it may rotate
\* the refresh token.
IdpAnswers(r) ==
    /\ req[r].step = "idp" /\ req[r].token \in idp.live
    /\ \E rotates \in BOOLEAN, life, rlife \in IdpLife :
          LET token == IF rotates THEN idp.last + 1 ELSE req[r].token
          IN  /\ token <= MaxToken
              /\ idp' = IF rotates
                        THEN [last    |-> token,
                              live    |-> (idp.live \ {req[r].token}) \union {token},
                              rotated |-> idp.rotated \union {req[r].token}]
                        ELSE idp
              /\ req' = [req EXCEPT ![r] =
                           [@ EXCEPT !.step = "flush",
                                     !.out = [token |-> token, until |-> Expiry(rlife),
                                              accessUntil |-> Expiry(life)]]]
    /\ UNCHANGED <<now, login, row, refreshLock, accessLock, cookies, minted, lost>>

\* Mutant of IdpFails: the transaction stays open.
IdpFailsLocked(r) ==
    /\ req[r].step = "idp" /\ Goto(r, IdpRefused(r))
    /\ UNCHANGED <<now, login, row, refreshLock, accessLock, idp, cookies, minted, lost>>

\* The IdP is not reached or refuses.
IdpFails(r) ==
    /\ req[r].step = "idp"
    /\ Abandon(r, IdpRefused(r))
    /\ UNCHANGED <<now, login, row, idp, cookies, minted>>

\* The IdP rotated the token, but its answer does not arrive.
AnswerIsLost(r) ==
    /\ req[r].step = "idp" /\ req[r].token \in idp.live /\ idp.last < MaxToken
    /\ idp' = [last    |-> idp.last + 1,
               live    |-> (idp.live \ {req[r].token}) \union {idp.last + 1},
               rotated |-> idp.rotated \union {req[r].token}]
    /\ Goto(r, IdpRefused(r)) /\ Release(r) /\ lost' = TRUE
    /\ UNCHANGED <<now, login, row, cookies, minted>>

\* _refresh_rows flushes both rows.  The refresh row is already locked; for the
\* access row the statement may have to wait, at most lock_timeout.
Flush(r) ==
    /\ req[r].step = "flush" /\ accessLock = None
    /\ accessLock' = r /\ Goto(r, "commit")
    /\ UNCHANGED <<now, login, row, refreshLock, idp, cookies, minted, lost>>

FlushTimesOut(r) ==
    /\ req[r].step = "flush" /\ accessLock # None
    /\ Abandon(r, "error")
    /\ UNCHANGED <<now, login, row, idp, cookies, minted>>

\* Mutant of CommitRefresh: a rotated refresh token is not stored.
CommitOldToken(r) ==
    /\ req[r].step = "commit" /\ req[r].kind \in Refreshing
    /\ row' = IF req[r].out # None THEN [req[r].out EXCEPT !.token = row.token] ELSE row
    /\ Goto(r, "ok") /\ Release(r)
    /\ UNCHANGED <<now, login, idp, cookies, minted, lost>>

\* The router or the dependency commits, and mints from the rows it holds.
CommitRefresh(r) ==
    /\ req[r].step = "commit" /\ req[r].kind \in Refreshing
    /\ LET until == IF req[r].out # None THEN req[r].out.accessUntil ELSE req[r].seen
       IN  /\ row' = IF req[r].out # None THEN req[r].out ELSE row
           /\ cookies' = IF req[r].kind = "cookie" THEN cookies \union {Cookie(until)}
                         ELSE cookies
    /\ Goto(r, "ok") /\ Release(r)
    /\ UNCHANGED <<now, login, idp, minted, lost>>

-----------------------------------------------------------------------------
\* revoke_token for a refresh token, and revoke_session: the row is loaded
\* without a lock, and the IdP is asked to revoke the token it held then.
Revoke(r) ==
    /\ req[r].step = "idle" /\ (minted \/ login = "browser")
    /\ req' = [req EXCEPT ![r] =
                 [NoReq EXCEPT !.kind = "revoke",
                               !.token = IF row = None THEN None ELSE row.token,
                               !.step  = IF row = None THEN "ok" ELSE "revoking"]]
    /\ UNCHANGED <<now, login, row, refreshLock, accessLock, idp, cookies, minted, lost>>

\* revoke_token for an access token.
RevokeAccess(r) ==
    /\ req[r].step = "idle" /\ minted
    /\ Start(r, "revokeAccess", IF row = None THEN "ok" ELSE "revoking")
    /\ UNCHANGED <<now, login, row, refreshLock, accessLock, idp, cookies, minted, lost>>

\* Mutant of IdpRevokes: the new expiry is not set.
IdpRevokesUnstamped(r) ==
    /\ req[r].step = "revoking"
    /\ Goto(r, IF req[r].kind = "revoke" THEN "deleting" ELSE "stamping")
    /\ UNCHANGED <<now, login, row, refreshLock, accessLock, idp, cookies, minted, lost>>

\* _revoke_with_idp returns: its failures are swallowed, and it does nothing
\* when no revocation path is configured.
IdpRevokes(r) ==
    /\ req[r].step = "revoking"
    /\ idp' \in {idp, [idp EXCEPT !.live = @ \ {req[r].token}]}
    /\ req' = IF req[r].kind = "revoke" THEN [req EXCEPT ![r].step = "deleting"]
              ELSE [req EXCEPT ![r] = [@ EXCEPT !.step = "stamping", !.time = now]]
    /\ UNCHANGED <<now, login, row, refreshLock, accessLock, cookies, minted, lost>>

\* delete_expired_tokens computes its cutoff before the statement.
Cleanup(r) ==
    /\ req[r].step = "idle"
    /\ req' = [req EXCEPT ![r] = [NoReq EXCEPT !.kind = "cleanup", !.step = "deleting",
                                  !.time = now - CleanupAge]]
    /\ UNCHANGED <<now, login, row, refreshLock, accessLock, idp, cookies, minted, lost>>

\* Mutants: Matches has a cutoff that is off by one; Delete does not wait for a
\* refresh that is under way.
MatchesEarly(r) == row # None /\ (req[r].kind = "cleanup" => row.until <= req[r].time)
DeleteAtOnce(r) ==
    /\ req[r].step = "deleting" /\ row # None /\ Goto(r, "commit")
    /\ UNCHANGED <<now, login, row, refreshLock, accessLock, idp, cookies, minted, lost>>

\* The DELETE waits for the locks, evaluates its WHERE on the row as it then
\* is, and cascades to the access row.
Matches(r) == /\ row # None
              /\ req[r].kind = "cleanup" => row.until < req[r].time
Delete(r) ==
    /\ req[r].step = "deleting" /\ refreshLock = None /\ accessLock = None
    /\ IF Matches(r) THEN Goto(r, "commit") /\ refreshLock' = r /\ accessLock' = r
                     ELSE Goto(r, "ok") /\ UNCHANGED <<refreshLock, accessLock>>
    /\ UNCHANGED <<now, login, row, idp, cookies, minted, lost>>

CommitDelete(r) ==
    /\ req[r].step = "commit" /\ req[r].kind \in {"revoke", "cleanup"}
    /\ row' = None /\ Goto(r, "ok") /\ Release(r)
    /\ UNCHANGED <<now, login, idp, cookies, minted, lost>>

\* The flush of revoke_token: an ORM update that finds no row raises.
Stamp(r) ==
    /\ req[r].step = "stamping" /\ accessLock = None
    /\ IF row = None THEN Goto(r, "error") /\ UNCHANGED accessLock
                     ELSE Goto(r, "commit") /\ accessLock' = r
    /\ UNCHANGED <<now, login, row, refreshLock, idp, cookies, minted, lost>>

CommitStamp(r) ==
    /\ req[r].step = "commit" /\ req[r].kind = "revokeAccess"
    /\ row' = [row EXCEPT !.accessUntil = req[r].time] /\ Goto(r, "ok") /\ Release(r)
    /\ UNCHANGED <<now, login, idp, cookies, minted, lost>>

-----------------------------------------------------------------------------
\* The process serving r dies, or its client goes away.
Crash(r) ==
    /\ req[r].step \notin {"idle"} \union Ended
    /\ Abandon(r, "failed")
    /\ UNCHANGED <<now, login, row, idp, cookies, minted>>

Tick == /\ now < MaxTime /\ now' = now + 1
        /\ UNCHANGED <<login, row, refreshLock, accessLock, req, idp, cookies, minted, lost>>

Refresh(r) == Lock(r) \/ LockTimeout(r) \/ HandlerRuns(r) \/ IdpAnswers(r) \/ IdpFails(r) \/ AnswerIsLost(r)
              \/ Flush(r) \/ FlushTimesOut(r) \/ CommitRefresh(r)
Remove(r)  == IdpRevokes(r) \/ Delete(r) \/ CommitDelete(r) \/ Stamp(r) \/ CommitStamp(r)
Begin(r)   == PresentCookie(r) \/ UseApiKey(r) \/ RefreshGrant(r)
              \/ Revoke(r) \/ RevokeAccess(r) \/ Cleanup(r)

Next == \/ Login \/ ExchangeCode \/ Tick
        \/ \E r \in Reqs : Begin(r) \/ Refresh(r) \/ Remove(r) \/ Crash(r)

\* A request that can go on does: lock waits and IdP calls have timeouts.
Fairness == \A r \in Reqs : WF_vars(Refresh(r) \/ Remove(r))
Spec == Init /\ [][Next]_vars /\ Fairness

-----------------------------------------------------------------------------
Storing(r) == req[r].step \in {"flush", "commit"} /\ req[r].out # None

\* The row locks are what the requests are doing: whoever talks to the IdP or
\* writes the rows holds them, alone, on rows that are still there and still
\* hold the refresh token it loaded.
LockInv ==
    /\ \A r \in Reqs :
          /\ (refreshLock = r) <=>
                \/ req[r].step \in {"idp", "flush"}
                \/ req[r].step = "commit" /\ req[r].kind # "revokeAccess"
          /\ accessLock = r => req[r].step = "commit"
          /\ req[r].step = "commit" /\ accessLock # r =>
                req[r].kind \in Refreshing /\ req[r].out = None
          /\ req[r].step \in {"idp", "flush", "commit"} => row # None
          /\ (req[r].step = "idp" \/ Storing(r)) => req[r].token = row.token

\* What a request carries at each step.  A cleanup that found an expired row keeps
\* it expired until it commits, and its cutoff is never ahead of the clock.
RequestInv ==
    \A r \in Reqs :
      LET q == req[r]
      IN  /\ q.step # "idle" => q.kind # None
          /\ q.step \in {"locking", "idp", "flush"} => q.kind \in Refreshing
          /\ q.out # None => Storing(r) \/ q.step \in Ended
          /\ q.out # None => q.kind \in Refreshing
          /\ q.step = "flush" => q.out # None
          /\ q.step = "commit" /\ q.kind \in Refreshing /\ q.out = None => q.seen # None
          /\ q.step = "revoking" => q.kind \in {"revoke", "revokeAccess"}
          /\ q.step = "deleting" => q.kind \in {"revoke", "cleanup"}
          /\ q.step = "stamping" => q.kind = "revokeAccess"
          /\ q.kind = "revokeAccess" /\ q.step \in {"stamping", "commit"} => q.time \in Times
          /\ q.kind = "cookie" /\ q.step \notin Ended => q.axp # None
          /\ q.kind = "cleanup" => q.time \in Int /\ q.time + CleanupAge <= now
          /\ q.kind = "cleanup" /\ q.step = "commit" => row.until < q.time

\* The IdP is never shown a refresh token it has rotated, unless a rotation was
\* lost with a crash or an answer that did not arrive: concurrent refreshes work
\* from the token the last one stored.
NoReplay ==
    lost \/ \A r \in Reqs : req[r].step = "idp" => req[r].token \notin idp.rotated

\* The token of the rows is current, except while the request that holds the
\* lock is about to store the one that replaces it.
TokenInv ==
    /\ (row # None => login # "none") /\ (login = "none" => idp.rotated = {})
    /\ idp.rotated \subseteq 1 .. idp.last /\ idp.live \subseteq 1 .. idp.last
    /\ lost \/ row = None \/ row.token \notin idp.rotated \/ \E r \in Reqs : Storing(r)
    /\ lost \/ \A r \in Reqs : Storing(r) => req[r].out.token \notin idp.rotated

\* A refresh that is under way when the session is deleted does not bring its
\* rows back.
DeletedStaysDeleted == [][row = None /\ login # "none" => row' = None]_vars

\* The cleanup never deletes a session that can still be refreshed, even if it
\* was refreshed while the DELETE waited for its row.
CleanupSparesLiveSessions ==
    [][\A r \in Reqs : req[r].kind = "cleanup" /\ req[r].step = "commit" /\ row' = None
          => row.until + CleanupAge < now]_vars

\* Every request is answered: no order of locks, timeouts and IdP failures
\* leaves one waiting.
RequestsEnd ==
    \A r \in Reqs : (req[r].step # "idle") ~> (req[r].step \in Ended)

\* The session as the abstract specification sees it.
StoredToken  == IF row = None THEN None ELSE row.token
PendingToken ==
    IF /\ refreshLock # None /\ req[refreshLock].out # None
       /\ req[refreshLock].out.token # row.token
    THEN req[refreshLock].out.token ELSE None
RC == INSTANCE RotatingCredential
         WITH stored <- StoredToken, pending <- PendingToken, issued <- idp.last

\* A login session is a rotating credential: at most one replacement of its refresh
\* token is under way, it is stored or it is lost, and a session whose token is
\* being replaced is not deleted.
Credential == RC!Spec

-----------------------------------------------------------------------------
\* Statements of the documentation that TLC refutes; no configuration checks them.
Starts(r, step) == req[r].step # step /\ req'[r].step = step

\* _refresh_rows_if_needed's docstring: "if the access row's expiry is still in
\* the future another process already refreshed it, so the IdP call is skipped".
RecheckSkipsRefreshedRows ==
    [][\A r \in Reqs : Starts(r, "idp") /\ req[r].kind # "refresh"
          => row.accessUntil <= now]_vars

\* _maybe_refresh_auth_cookie's docstring: when the expiry "is imminent (within
\* the drift tolerance) the dependency triggers a server-side refresh ... before
\* re-minting the cookie".
ImminentCookiesAreRefreshed ==
    [][\A r \in Reqs : req[r].step = "commit" /\ Starts(r, "ok") /\ req[r].kind = "cookie"
          => row'.accessUntil > req[r].axp]_vars

\* revoke_token's docstring: the access row's expires_at "is moved to now so the
\* session won't refresh".
RevokedAccessIsNotRefreshed ==
    [][\A r, s \in Reqs :
          /\ req[s].kind = "revokeAccess" /\ req[s].step = "ok"
          /\ row # None /\ req[s].time = row.accessUntil
          => ~Starts(r, "idp")]_vars
=============================================================================
