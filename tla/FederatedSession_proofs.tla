----------------------- MODULE FederatedSession_proofs -----------------------
(***************************************************************************)
(* Proofs about FederatedSession: its type invariant, its locks, that the  *)
(* IdP is never shown a rotated token, and what a deletion does.           *)
(***************************************************************************)
EXTENDS FederatedSession, TLAPS

\* The inductive invariant: the locks say who may write, the steps say what a
\* request carries, and both are needed to follow a rotated token.
IInv == TypeOK /\ LockInv /\ RequestInv /\ TokenInv /\ NoReplay

USE DEF Times, RowOf, Kinds, Refreshing, Ended, Steps, NoReq

USE LifeAssumption, BoundAssumption, NoneAssumption

\* Before the login there is nothing to lock and nothing to present.
LEMMA InitInv == Init => IInv
  <1> SUFFICES ASSUME Init PROVE IInv  OBVIOUS
  <1>1. NoReq \in Requests  BY DEF Requests
  <1>2. TypeOK  BY <1>1 DEF Init, TypeOK
  <1>3. \A r \in Reqs : req[r].kind = None /\ req[r].step = "idle" /\ req[r].out = None
                       /\ refreshLock # r /\ accessLock # r
    BY DEF Init
  <1>4. LockInv  BY <1>3 DEF LockInv, Storing
  <1>5. RequestInv  BY <1>3 DEF RequestInv, Storing
  <1>6. TokenInv  BY <1>3 DEF Init, TokenInv, Storing
  <1>7. NoReplay  BY <1>3 DEF NoReplay
  <1> QED  BY <1>2, <1>4, <1>5, <1>6, <1>7 DEF IInv

\* What a change of several fields of a request does to its record.
LEMMA ThreeFields ==
  ASSUME NEW f \in Requests, NEW a \in Times \union {None}, NEW b \in Nat \union {None},
         NEW c \in Steps
  PROVE  [f EXCEPT !.seen = a, !.token = b, !.step = c] \in Requests
  <1>1. [f EXCEPT !.seen = a] \in Requests  BY DEF Requests
  <1>2. \A g \in Requests : [g EXCEPT !.token = b] \in Requests  BY DEF Requests
  <1>3. \A g \in Requests : [g EXCEPT !.step = c] \in Requests  BY DEF Requests
  <1> QED  BY <1>1, <1>2, <1>3

\* The same for two fields.
LEMMA TwoFields ==
  ASSUME NEW f \in Requests, NEW a \in RowOf
  PROVE  [f EXCEPT !.step = "flush", !.out = a] \in Requests
  <1>1. [f EXCEPT !.step = "flush"] \in Requests  BY DEF Requests
  <1>2. \A g \in Requests : [g EXCEPT !.out = a] \in Requests  BY DEF Requests
  <1> QED  BY <1>1, <1>2

\* The same for the two fields a revocation of an access token sets.
LEMMA StampFields ==
  ASSUME NEW f \in Requests, NEW b \in Int
  PROVE  [f EXCEPT !.step = "stamping", !.time = b] \in Requests
  <1>1. [f EXCEPT !.step = "stamping"] \in Requests  BY DEF Requests
  <1>2. \A g \in Requests : [g EXCEPT !.time = b] \in Requests  BY DEF Requests
  <1> QED  BY <1>1, <1>2

\* A transaction that is given up leaves the stored token current, or sets lost.
LEMMA AbandonedTokens ==
  ASSUME NEW r \in Reqs, NEW step \in {"failed", "error"}, IInv, Abandon(r, step),
         UNCHANGED <<login, row, idp>>
  PROVE  TokenInv'
  <1>1. /\ req'[r].step = step
        /\ \A p \in Reqs : p # r => req'[p] = req[p]
    BY DEF IInv, TypeOK, Requests, Abandon, Goto
  <1>2. ~Storing(r)' /\ \A p \in Reqs : p # r => (Storing(p)' <=> Storing(p))
    BY <1>1 DEF Storing
  <1>3. CASE lost'  BY <1>3 DEF IInv, TokenInv
  <1>4. CASE ~lost'
    <2>1. ~lost /\ (req[r].out = None \/ row = None \/ req[r].out.token = row.token)
      BY <1>4 DEF Abandon
    <2>2. Storing(r) => req[r].out # None /\ row # None /\ req[r].out.token \notin idp.rotated
      BY <2>1 DEF IInv, LockInv, TokenInv, Storing
    <2>3. row = None \/ row.token \notin idp.rotated \/ \E p \in Reqs : Storing(p)'
      <3>1. CASE Storing(r)  BY <2>1, <2>2, <3>1
      <3>2. CASE ~Storing(r)  BY <1>2, <2>1, <3>2 DEF IInv, TokenInv
      <3> QED  BY <3>1, <3>2
    <2>4. \A p \in Reqs : Storing(p)' => req'[p].out.token \notin idp.rotated
      BY <1>1, <1>2, <2>1 DEF IInv, TokenInv
    <2> QED  BY <2>3, <2>4 DEF IInv, TokenInv
  <1> QED  BY <1>3, <1>4

\* A cookie arrives (_maybe_refresh_auth_cookie): a request begins, no row is locked.
LEMMA PresentCookieStep == ASSUME NEW r \in Reqs, IInv, PresentCookie(r) PROVE IInv'
  <1>1. TypeOK'
    <2>1. PICK c \in cookies :
            req' = [req EXCEPT ![r] =
                      [NoReq EXCEPT !.kind = "cookie", !.axp = c.axp,
                                    !.seen = AccessUntil,
                                    !.step = IF row = None THEN "error" ELSE "locking"]]
      BY DEF PresentCookie
    <2>2. c.axp \in Times /\ AccessUntil \in Times \union {None}
      BY DEF IInv, TypeOK, AccessUntil
    <2> DEFINE q == [NoReq EXCEPT !.kind = "cookie", !.axp = c.axp, !.seen = AccessUntil,
                                  !.step = IF row = None THEN "error" ELSE "locking"]
    <2>3. q \in Requests
      BY <2>2 DEF NoReq, Requests, Kinds, Steps, Ended
    <2>4. req' = [req EXCEPT ![r] = q]
      BY <2>1
    <2> HIDE DEF q
    <2>5. req' \in [Reqs -> Requests]
      BY <2>3, <2>4 DEF IInv, TypeOK
    <2> QED  BY <2>5 DEF IInv, TypeOK, PresentCookie
  <1>2. LockInv'
    BY DEF IInv, TypeOK, Requests, LockInv, RequestInv, Storing,
           PresentCookie, AccessUntil
  <1>3. RequestInv'
    BY DEF IInv, TypeOK, Requests, LockInv, RequestInv, Storing,
           PresentCookie, AccessUntil
  <1>4. TokenInv'
    BY DEF IInv, TypeOK, Requests, LockInv, RequestInv, TokenInv, NoReplay, Storing,
           PresentCookie, AccessUntil
  <1>5. NoReplay'
    BY DEF IInv, TypeOK, Requests, LockInv, RequestInv, TokenInv, NoReplay, Storing,
           PresentCookie, AccessUntil
  <1> QED  BY <1>1, <1>2, <1>3, <1>4, <1>5 DEF IInv

\* An API key arrives (_maybe_sync_api_key_session): a request begins.
LEMMA UseApiKeyStep == ASSUME NEW r \in Reqs, IInv, UseApiKey(r) PROVE IInv'
  <1>1. TypeOK'
    BY DEF IInv, TypeOK, Requests, LockInv, RequestInv, Storing,
           UseApiKey, AccessUntil
  <1>2. LockInv'
    BY DEF IInv, TypeOK, Requests, LockInv, RequestInv, Storing,
           UseApiKey, AccessUntil
  <1>3. RequestInv'
    BY DEF IInv, TypeOK, Requests, LockInv, RequestInv, Storing,
           UseApiKey, AccessUntil
  <1>4. TokenInv'
    BY DEF IInv, TypeOK, Requests, LockInv, RequestInv, TokenInv, NoReplay, Storing,
           UseApiKey, AccessUntil
  <1>5. NoReplay'
    BY DEF IInv, TypeOK, Requests, LockInv, RequestInv, TokenInv, NoReplay, Storing,
           UseApiKey, AccessUntil
  <1> QED  BY <1>1, <1>2, <1>3, <1>4, <1>5 DEF IInv

\* A client asks for a refresh (exchange_refresh_token): a request begins.
LEMMA RefreshGrantStep == ASSUME NEW r \in Reqs, IInv, RefreshGrant(r) PROVE IInv'
  <1>1. TypeOK'
    BY DEF IInv, TypeOK, Requests, LockInv, RequestInv, Storing,
           RefreshGrant, AccessUntil, Start
  <1>2. LockInv'
    BY DEF IInv, TypeOK, Requests, LockInv, RequestInv, Storing,
           RefreshGrant, AccessUntil, Start
  <1>3. RequestInv'
    BY DEF IInv, TypeOK, Requests, LockInv, RequestInv, Storing,
           RefreshGrant, AccessUntil, Start
  <1>4. TokenInv'
    BY DEF IInv, TypeOK, Requests, LockInv, RequestInv, TokenInv, NoReplay, Storing,
           RefreshGrant, AccessUntil, Start
  <1>5. NoReplay'
    BY DEF IInv, TypeOK, Requests, LockInv, RequestInv, TokenInv, NoReplay, Storing,
           RefreshGrant, AccessUntil, Start
  <1> QED  BY <1>1, <1>2, <1>3, <1>4, <1>5 DEF IInv

\* A revocation of the refresh token or a logout begins.
LEMMA RevokeStep == ASSUME NEW r \in Reqs, IInv, Revoke(r) PROVE IInv'
  <1>1. TypeOK'
    <2> DEFINE q == [NoReq EXCEPT !.kind = "revoke",
                                  !.token = IF row = None THEN None ELSE row.token,
                                  !.step = IF row = None THEN "ok" ELSE "revoking"]
    <2>1. row # None => row.token \in Nat
      BY DEF IInv, TypeOK, RowOf
    <2>2. q \in Requests
      BY <2>1 DEF NoReq, Requests, Kinds, Steps, Ended
    <2>3. req' = [req EXCEPT ![r] = q]
      BY DEF Revoke
    <2> HIDE DEF q
    <2>4. req' \in [Reqs -> Requests]
      BY <2>2, <2>3 DEF IInv, TypeOK
    <2> QED  BY <2>4 DEF IInv, TypeOK, Revoke
  <1>2. LockInv'
    BY DEF IInv, TypeOK, Requests, LockInv, RequestInv, Storing,
           Revoke, AccessUntil
  <1>3. RequestInv'
    BY DEF IInv, TypeOK, Requests, LockInv, RequestInv, Storing,
           Revoke, AccessUntil
  <1>4. TokenInv'
    BY DEF IInv, TypeOK, Requests, LockInv, RequestInv, TokenInv, NoReplay, Storing,
           Revoke, AccessUntil
  <1>5. NoReplay'
    BY DEF IInv, TypeOK, Requests, LockInv, RequestInv, TokenInv, NoReplay, Storing,
           Revoke, AccessUntil
  <1> QED  BY <1>1, <1>2, <1>3, <1>4, <1>5 DEF IInv

\* A revocation of the access token begins.
LEMMA RevokeAccessStep == ASSUME NEW r \in Reqs, IInv, RevokeAccess(r) PROVE IInv'
  <1>1. TypeOK'
    BY DEF IInv, TypeOK, Requests, LockInv, RequestInv, Storing,
           RevokeAccess, AccessUntil, Start
  <1>2. LockInv'
    BY DEF IInv, TypeOK, Requests, LockInv, RequestInv, Storing,
           RevokeAccess, AccessUntil, Start
  <1>3. RequestInv'
    BY DEF IInv, TypeOK, Requests, LockInv, RequestInv, Storing,
           RevokeAccess, AccessUntil, Start
  <1>4. TokenInv'
    BY DEF IInv, TypeOK, Requests, LockInv, RequestInv, TokenInv, NoReplay, Storing,
           RevokeAccess, AccessUntil, Start
  <1>5. NoReplay'
    BY DEF IInv, TypeOK, Requests, LockInv, RequestInv, TokenInv, NoReplay, Storing,
           RevokeAccess, AccessUntil, Start
  <1> QED  BY <1>1, <1>2, <1>3, <1>4, <1>5 DEF IInv

\* A cleanup sweep begins, with a cutoff behind the clock.
LEMMA CleanupStep == ASSUME NEW r \in Reqs, IInv, Cleanup(r) PROVE IInv'
  <1>1. TypeOK'
    <2>1. now - CleanupAge \in Int  BY DEF IInv, TypeOK
    <2>2. req'[r] \in Requests /\ \A p \in Reqs : p # r => req'[p] = req[p]
      BY <2>1 DEF IInv, TypeOK, Requests, Cleanup
    <2> QED  BY <2>2 DEF IInv, TypeOK, Cleanup
  <1>2. LockInv'
    BY DEF IInv, TypeOK, Requests, LockInv, RequestInv, Storing,
           Cleanup
  <1>3. RequestInv'
    BY DEF IInv, TypeOK, Requests, LockInv, RequestInv, Storing,
           Cleanup
  <1>4. TokenInv'
    BY DEF IInv, TypeOK, Requests, LockInv, RequestInv, TokenInv, NoReplay, Storing,
           Cleanup
  <1>5. NoReplay'
    BY DEF IInv, TypeOK, Requests, LockInv, RequestInv, TokenInv, NoReplay, Storing,
           Cleanup
  <1> QED  BY <1>1, <1>2, <1>3, <1>4, <1>5 DEF IInv

\* _lock_token_rows gets the lock: the refresh token it read is the one stored,
\* because the row is locked, whatever the access row's loaded attributes say.
LEMMA LockStep == ASSUME NEW r \in Reqs, IInv, Lock(r) PROVE IInv'
  <1>1. CASE row = None \/ (row # None /\ row.until <= now)
    <2> USE <1>1 DEF Lock, Goto, Refused
    <2>1. TypeOK'  BY DEF IInv, TypeOK, Requests, RequestInv
    <2>2. LockInv'  BY DEF IInv, TypeOK, Requests, LockInv, RequestInv, Storing
    <2>3. RequestInv'  BY DEF IInv, TypeOK, Requests, RequestInv, Storing
    <2>4. TokenInv'  BY DEF IInv, TypeOK, Requests, TokenInv, Storing
    <2>5. NoReplay'  BY DEF IInv, TypeOK, Requests, NoReplay
    <2> QED  BY <2>1, <2>2, <2>3, <2>4, <2>5 DEF IInv
  <1>2. CASE ~(row = None \/ (row # None /\ row.until <= now))
    <2> DEFINE seen == IF req[r].seen = None THEN row.accessUntil ELSE req[r].seen
               skip == req[r].kind # "refresh" /\ seen > now
               step == IF skip THEN "commit" ELSE "idp"
               new  == [req[r] EXCEPT !.seen = seen, !.token = row.token, !.step = step]
    <2>1. /\ refreshLock = None /\ refreshLock' = r /\ req' = [req EXCEPT ![r] = new]
          /\ UNCHANGED <<now, login, row, accessLock, idp, cookies, minted, lost>>
          /\ req[r].step = "locking"
      BY <1>2 DEF Lock
    <2>2. row \in RowOf /\ row # None /\ req[r] \in Requests /\ req[r].kind \in Refreshing
      BY <1>2, <2>1 DEF IInv, TypeOK, RequestInv
    <2>3. seen \in Times /\ step \in {"commit", "idp"}  BY <2>2 DEF Requests
    <2> HIDE DEF seen, step
    <2>4. new \in Requests  BY <2>2, <2>3, ThreeFields
    <2>5. /\ new.kind = req[r].kind /\ new.out = req[r].out /\ new.axp = req[r].axp
          /\ new.time = req[r].time /\ new.seen = seen /\ new.token = row.token
          /\ new.step = step
      BY <2>2 DEF Requests
    <2> HIDE DEF new
    <2>6. req'[r] = new /\ \A p \in Reqs : p # r => req'[p] = req[p]
      BY <2>1 DEF IInv, TypeOK
    <2>7. TypeOK'  BY <2>1, <2>4 DEF IInv, TypeOK
    <2>8. req[r].out = None /\ \A p \in Reqs : ~Storing(p)
      BY <2>1, <2>2 DEF IInv, LockInv, RequestInv, Storing
    <2>9. LockInv'
      BY <2>1, <2>2, <2>3, <2>5, <2>6, <2>8 DEF IInv, TypeOK, LockInv, RequestInv, Storing
    <2>10. RequestInv'
      BY <2>1, <2>2, <2>3, <2>5, <2>6, <2>8 DEF IInv, TypeOK, LockInv, RequestInv, Storing
    <2>11. lost \/ row.token \notin idp.rotated  BY <2>2, <2>8 DEF IInv, TokenInv
    <2>12. \A p \in Reqs : ~Storing(p)'  BY <2>5, <2>6, <2>8 DEF Storing
    <2>13. TokenInv'  BY <2>1, <2>11, <2>12 DEF IInv, TokenInv
    <2>14. NoReplay'  BY <2>1, <2>5, <2>6, <2>11 DEF IInv, NoReplay
    <2> QED  BY <2>7, <2>9, <2>10, <2>13, <2>14 DEF IInv
  <1> QED  BY <1>1, <1>2

\* The lock timeout ends the wait; nothing was locked.
LEMMA LockTimeoutStep == ASSUME NEW r \in Reqs, IInv, LockTimeout(r) PROVE IInv'
  <1>1. TypeOK'
    BY DEF IInv, TypeOK, Requests, LockInv, RequestInv, Storing,
           LockTimeout, Cookie, Goto
  <1>2. LockInv'
    BY DEF IInv, TypeOK, Requests, LockInv, RequestInv, Storing,
           LockTimeout, Cookie, Goto
  <1>3. RequestInv'
    BY DEF IInv, TypeOK, Requests, LockInv, RequestInv, Storing,
           LockTimeout, Cookie, Goto
  <1>4. TokenInv'
    BY DEF IInv, TypeOK, Requests, LockInv, RequestInv, TokenInv, NoReplay, Storing,
           LockTimeout, Cookie, Goto
  <1>5. NoReplay'
    BY DEF IInv, TypeOK, Requests, LockInv, RequestInv, TokenInv, NoReplay, Storing,
           LockTimeout, Cookie, Goto
  <1> QED  BY <1>1, <1>2, <1>3, <1>4, <1>5 DEF IInv

\* A request that went on past the refresh finishes its handler.
LEMMA HandlerRunsStep == ASSUME NEW r \in Reqs, IInv, HandlerRuns(r) PROVE IInv'
  <1>1. TypeOK'
    BY DEF IInv, TypeOK, Requests, LockInv, RequestInv, Storing,
           HandlerRuns, Goto
  <1>2. LockInv'
    BY DEF IInv, TypeOK, Requests, LockInv, RequestInv, Storing,
           HandlerRuns, Goto
  <1>3. RequestInv'
    BY DEF IInv, TypeOK, Requests, LockInv, RequestInv, Storing,
           HandlerRuns, Goto
  <1>4. TokenInv'
    BY DEF IInv, TypeOK, Requests, LockInv, RequestInv, TokenInv, NoReplay, Storing,
           HandlerRuns, Goto
  <1>5. NoReplay'
    BY DEF IInv, TypeOK, Requests, LockInv, RequestInv, TokenInv, NoReplay, Storing,
           HandlerRuns, Goto
  <1> QED  BY <1>1, <1>2, <1>3, <1>4, <1>5 DEF IInv

\* The IdP answers: the token it rotates is the one the lock holder read, and the
\* one it hands out is new.
LEMMA IdpAnswersStep == ASSUME NEW r \in Reqs, IInv, IdpAnswers(r) PROVE IInv'
  <1>0. PICK rotates \in BOOLEAN, life \in IdpLife, rlife \in IdpLife :
          LET token == IF rotates THEN idp.last + 1 ELSE req[r].token
          IN  /\ idp' = IF rotates
                        THEN [last    |-> token,
                              live    |-> (idp.live \ {req[r].token}) \union {token},
                              rotated |-> idp.rotated \union {req[r].token}]
                        ELSE idp
              /\ req' = [req EXCEPT ![r] =
                           [@ EXCEPT !.step = "flush",
                                     !.out = [token |-> token, until |-> Expiry(rlife),
                                              accessUntil |-> Expiry(life)]]]
    BY DEF IdpAnswers
  <1> DEFINE token == IF rotates THEN idp.last + 1 ELSE req[r].token
             out == [token |-> token, until |-> Expiry(rlife), accessUntil |-> Expiry(life)]
             new == [req[r] EXCEPT !.step = "flush", !.out = out]
  <1>a. Expiry(life) \in Times /\ Expiry(rlife) \in Times  BY DEF IInv, TypeOK, Expiry
  <1>b. req[r].token \in Nat /\ token \in Nat  BY DEF IInv, TypeOK, Requests, IdpAnswers
  <1>c. out \in RowOf /\ out.token = token  BY <1>a, <1>b
  <1>d. req' = [req EXCEPT ![r] = new]  BY <1>0
  <1>e. idp' = IF rotates THEN [last    |-> token,
                                live    |-> (idp.live \ {req[r].token}) \union {token},
                                rotated |-> idp.rotated \union {req[r].token}]
                          ELSE idp
    BY <1>0
  <1> HIDE DEF out
  <1>f. new \in Requests  BY <1>c, TwoFields DEF IInv, TypeOK
  <1>g. new.step = "flush" /\ new.out = out  BY DEF IInv, TypeOK, Requests
  <1> HIDE DEF new
  <1>h. req'[r] = new /\ req' \in [Reqs -> Requests]  BY <1>d, <1>f DEF IInv, TypeOK
  <1>1. TypeOK'
    <2>1. idp' \in [last : Nat, live : SUBSET Nat, rotated : SUBSET Nat]
      BY <1>b, <1>e DEF IInv, TypeOK
    <2> QED  BY <2>1, <1>h DEF IInv, TypeOK, IdpAnswers
  <1>2. LockInv'
    BY DEF IInv, TypeOK, Requests, LockInv, RequestInv, Storing,
           IdpAnswers, Expiry
  <1>3. RequestInv'
    BY DEF IInv, TypeOK, Requests, LockInv, RequestInv, Storing,
           IdpAnswers, Expiry
  <1>4. TokenInv'
    <2>1. \A p \in Reqs : p # r => req'[p] = req[p] /\ ~Storing(p)
      BY DEF IInv, TypeOK, LockInv, RequestInv, Storing, IdpAnswers
    <2>2. /\ req'[r].step = "flush" /\ req'[r].out # None
          /\ \/ req'[r].out.token = req[r].token /\ idp' = idp
             \/ /\ req'[r].out.token = idp.last + 1 /\ idp'.last = idp.last + 1
                /\ idp'.live = (idp.live \ {req[r].token}) \union {idp.last + 1}
                /\ idp'.rotated = idp.rotated \union {req[r].token}
      BY <1>c, <1>e, <1>g, <1>h DEF IInv, TypeOK
    <2>3. /\ req[r].token \in 1 .. idp.last
          /\ idp.last \in Nat /\ idp.rotated \subseteq 1 .. idp.last /\ idp.live \subseteq 1 .. idp.last
      BY DEF IInv, TypeOK, TokenInv, IdpAnswers
    <2>4. idp'.rotated \subseteq 1 .. idp'.last /\ idp'.live \subseteq 1 .. idp'.last
      BY <2>2, <2>3
    <2>5. lost \/ req'[r].out.token \notin idp'.rotated
      BY <2>2, <2>3 DEF IInv, NoReplay, IdpAnswers
    <2>6. row' = row /\ login' = login /\ lost' = lost /\ row # None  BY DEF IInv, LockInv, IdpAnswers
    <2>7. Storing(r)' /\ \A p \in Reqs : p # r => ~Storing(p)'  BY <2>1, <2>2 DEF Storing
    <2> QED  BY <2>4, <2>5, <2>6, <2>7 DEF IInv, TokenInv
  <1>5. NoReplay'
    BY DEF IInv, TypeOK, Requests, LockInv, RequestInv, TokenInv, NoReplay, Storing,
           IdpAnswers, Expiry
  <1> QED  BY <1>1, <1>2, <1>3, <1>4, <1>5 DEF IInv

\* The IdP refuses or is unreachable: the transaction ends, no token changed.
LEMMA IdpFailsStep == ASSUME NEW r \in Reqs, IInv, IdpFails(r) PROVE IInv'
  <1>1. TypeOK'
    BY DEF IInv, TypeOK, Requests, LockInv, RequestInv, Storing,
           IdpFails, Goto, Release, Abandon, IdpRefused
  <1>2. LockInv'
    BY DEF IInv, TypeOK, Requests, LockInv, RequestInv, Storing,
           IdpFails, Goto, Release, Abandon, IdpRefused
  <1>3. RequestInv'
    BY DEF IInv, TypeOK, Requests, LockInv, RequestInv, Storing,
           IdpFails, Goto, Release, Abandon, IdpRefused
  <1>4. TokenInv'
    BY DEF IInv, TypeOK, Requests, LockInv, RequestInv, TokenInv, NoReplay, Storing,
           IdpFails, Goto, Release, Abandon, IdpRefused
  <1>5. NoReplay'
    BY DEF IInv, TypeOK, Requests, LockInv, RequestInv, TokenInv, NoReplay, Storing,
           IdpFails, Goto, Release, Abandon, IdpRefused
  <1> QED  BY <1>1, <1>2, <1>3, <1>4, <1>5 DEF IInv

\* The IdP rotated the token and the answer was lost: lost records it.
LEMMA AnswerIsLostStep == ASSUME NEW r \in Reqs, IInv, AnswerIsLost(r) PROVE IInv'
  <1>1. TypeOK'
    <2>1. req[r].token \in Nat /\ idp.last + 1 \in Nat
      BY DEF IInv, TypeOK, TokenInv, AnswerIsLost
    <2>2. idp' \in [last : Nat, live : SUBSET Nat, rotated : SUBSET Nat]
      BY <2>1 DEF IInv, TypeOK, AnswerIsLost
    <2>3. req' \in [Reqs -> Requests]
      BY DEF IInv, TypeOK, Requests, AnswerIsLost, Goto, IdpRefused
    <2> QED  BY <2>2, <2>3 DEF IInv, TypeOK, AnswerIsLost, Release
  <1>2. LockInv'
    BY DEF IInv, TypeOK, Requests, LockInv, RequestInv, Storing,
           AnswerIsLost, Goto, Release, IdpRefused
  <1>3. RequestInv'
    BY DEF IInv, TypeOK, Requests, LockInv, RequestInv, Storing,
           AnswerIsLost, Goto, Release, IdpRefused
  <1>4. TokenInv'
    BY DEF IInv, TypeOK, Requests, LockInv, RequestInv, TokenInv, NoReplay, Storing,
           AnswerIsLost, Goto, Release, IdpRefused
  <1>5. NoReplay'
    BY DEF IInv, TypeOK, Requests, LockInv, RequestInv, TokenInv, NoReplay, Storing,
           AnswerIsLost, Goto, Release, IdpRefused
  <1> QED  BY <1>1, <1>2, <1>3, <1>4, <1>5 DEF IInv

\* _refresh_rows flushes: it holds both rows from here to the commit.
LEMMA FlushStep == ASSUME NEW r \in Reqs, IInv, Flush(r) PROVE IInv'
  <1>1. TypeOK'
    BY DEF IInv, TypeOK, Requests, LockInv, RequestInv, Storing,
           Flush, Goto
  <1>2. LockInv'
    BY DEF IInv, TypeOK, Requests, LockInv, RequestInv, Storing,
           Flush, Goto
  <1>3. RequestInv'
    BY DEF IInv, TypeOK, Requests, LockInv, RequestInv, Storing,
           Flush, Goto
  <1>4. TokenInv'
    BY DEF IInv, TypeOK, Requests, LockInv, RequestInv, TokenInv, NoReplay, Storing,
           Flush, Goto
  <1>5. NoReplay'
    BY DEF IInv, TypeOK, Requests, LockInv, RequestInv, TokenInv, NoReplay, Storing,
           Flush, Goto
  <1> QED  BY <1>1, <1>2, <1>3, <1>4, <1>5 DEF IInv

\* The flush does not get the access row: the rotation is lost.
LEMMA FlushTimesOutStep == ASSUME NEW r \in Reqs, IInv, FlushTimesOut(r) PROVE IInv'
  <1>1. TypeOK'
    BY DEF IInv, TypeOK, Requests, LockInv, RequestInv, Storing,
           FlushTimesOut, Goto, Release, Abandon
  <1>2. LockInv'
    BY DEF IInv, TypeOK, Requests, LockInv, RequestInv, Storing,
           FlushTimesOut, Goto, Release, Abandon
  <1>3. RequestInv'
    BY DEF IInv, TypeOK, Requests, LockInv, RequestInv, Storing,
           FlushTimesOut, Goto, Release, Abandon
  <1>4. TokenInv'  BY AbandonedTokens DEF FlushTimesOut
  <1>5. NoReplay'
    BY DEF IInv, TypeOK, Requests, LockInv, RequestInv, TokenInv, NoReplay, Storing,
           FlushTimesOut, Goto, Release, Abandon
  <1> QED  BY <1>1, <1>2, <1>3, <1>4, <1>5 DEF IInv

\* The router commits the rotated token under the lock.
LEMMA CommitRefreshStep == ASSUME NEW r \in Reqs, IInv, CommitRefresh(r) PROVE IInv'
  <1>1. TypeOK'
    BY DEF IInv, TypeOK, Requests, LockInv, RequestInv, Storing,
           CommitRefresh, Cookie, Goto, Release
  <1>2. LockInv'
    BY DEF IInv, TypeOK, Requests, LockInv, RequestInv, Storing,
           CommitRefresh, Cookie, Goto, Release
  <1>3. RequestInv'
    BY DEF IInv, TypeOK, Requests, LockInv, RequestInv, Storing,
           CommitRefresh, Cookie, Goto, Release
  <1>4. TokenInv'
    BY DEF IInv, TypeOK, Requests, LockInv, RequestInv, TokenInv, NoReplay, Storing,
           CommitRefresh, Cookie, Goto, Release
  <1>5. NoReplay'
    BY DEF IInv, TypeOK, Requests, LockInv, RequestInv, TokenInv, NoReplay, Storing,
           CommitRefresh, Cookie, Goto, Release
  <1> QED  BY <1>1, <1>2, <1>3, <1>4, <1>5 DEF IInv

\* _revoke_with_idp ran, best effort; the rows are next.
LEMMA IdpRevokesStep == ASSUME NEW r \in Reqs, IInv, IdpRevokes(r) PROVE IInv'
  <1>1. TypeOK'
    <2>1. CASE req[r].kind = "revoke"  BY <2>1 DEF IInv, TypeOK, Requests, IdpRevokes
    <2>2. CASE req[r].kind # "revoke"
      <3>1. [req[r] EXCEPT !.step = "stamping", !.time = now] \in Requests
        <4>1. req[r] \in Requests /\ now \in Int  BY DEF IInv, TypeOK
        <4> QED  BY <4>1, StampFields
      <3>2. req' = [req EXCEPT ![r] = [req[r] EXCEPT !.step = "stamping", !.time = now]]
        BY <2>2 DEF IdpRevokes
      <3>3. req' \in [Reqs -> Requests]  BY <3>1, <3>2 DEF IInv, TypeOK
      <3> QED  BY <3>3 DEF IInv, TypeOK, IdpRevokes
    <2> QED  BY <2>1, <2>2
  <1>2. LockInv'
    BY DEF IInv, TypeOK, Requests, LockInv, RequestInv, Storing,
           IdpRevokes
  <1>3. RequestInv'
    BY DEF IInv, TypeOK, Requests, LockInv, RequestInv, Storing,
           IdpRevokes
  <1>4. TokenInv'
    BY DEF IInv, TypeOK, Requests, LockInv, RequestInv, TokenInv, NoReplay, Storing,
           IdpRevokes
  <1>5. NoReplay'
    BY DEF IInv, TypeOK, Requests, LockInv, RequestInv, TokenInv, NoReplay, Storing,
           IdpRevokes
  <1> QED  BY <1>1, <1>2, <1>3, <1>4, <1>5 DEF IInv

\* A DELETE gets the row and checks its condition on what it finds.
LEMMA DeleteStep == ASSUME NEW r \in Reqs, IInv, Delete(r) PROVE IInv'
  <1>1. TypeOK'
    BY DEF IInv, TypeOK, Requests, LockInv, RequestInv, Storing,
           Delete, Goto, Matches
  <1>2. LockInv'
    BY DEF IInv, TypeOK, Requests, LockInv, RequestInv, Storing,
           Delete, Goto, Matches
  <1>3. RequestInv'
    BY DEF IInv, TypeOK, Requests, LockInv, RequestInv, Storing,
           Delete, Goto, Matches
  <1>4. TokenInv'
    BY DEF IInv, TypeOK, Requests, LockInv, RequestInv, TokenInv, NoReplay, Storing,
           Delete, Goto, Matches
  <1>5. NoReplay'
    BY DEF IInv, TypeOK, Requests, LockInv, RequestInv, TokenInv, NoReplay, Storing,
           Delete, Goto, Matches
  <1> QED  BY <1>1, <1>2, <1>3, <1>4, <1>5 DEF IInv

\* A deletion commits: no request holds the row any more.
LEMMA CommitDeleteStep == ASSUME NEW r \in Reqs, IInv, CommitDelete(r) PROVE IInv'
  <1>1. TypeOK'
    BY DEF IInv, TypeOK, Requests, LockInv, RequestInv, Storing,
           CommitDelete, Goto, Release
  <1>2. LockInv'
    BY DEF IInv, TypeOK, Requests, LockInv, RequestInv, Storing,
           CommitDelete, Goto, Release
  <1>3. RequestInv'
    BY DEF IInv, TypeOK, Requests, LockInv, RequestInv, Storing,
           CommitDelete, Goto, Release
  <1>4. TokenInv'
    BY DEF IInv, TypeOK, Requests, LockInv, RequestInv, TokenInv, NoReplay, Storing,
           CommitDelete, Goto, Release
  <1>5. NoReplay'
    BY DEF IInv, TypeOK, Requests, LockInv, RequestInv, TokenInv, NoReplay, Storing,
           CommitDelete, Goto, Release
  <1> QED  BY <1>1, <1>2, <1>3, <1>4, <1>5 DEF IInv

\* revoke_token writes the access row's expiry.
LEMMA StampStep == ASSUME NEW r \in Reqs, IInv, Stamp(r) PROVE IInv'
  <1>1. TypeOK'
    BY DEF IInv, TypeOK, Requests, LockInv, RequestInv, Storing,
           Stamp, Goto
  <1>2. LockInv'
    BY DEF IInv, TypeOK, Requests, LockInv, RequestInv, Storing,
           Stamp, Goto
  <1>3. RequestInv'
    BY DEF IInv, TypeOK, Requests, LockInv, RequestInv, Storing,
           Stamp, Goto
  <1>4. TokenInv'
    BY DEF IInv, TypeOK, Requests, LockInv, RequestInv, TokenInv, NoReplay, Storing,
           Stamp, Goto
  <1>5. NoReplay'
    BY DEF IInv, TypeOK, Requests, LockInv, RequestInv, TokenInv, NoReplay, Storing,
           Stamp, Goto
  <1> QED  BY <1>1, <1>2, <1>3, <1>4, <1>5 DEF IInv

\* The stamped expiry commits; the refresh token is untouched.
LEMMA CommitStampStep == ASSUME NEW r \in Reqs, IInv, CommitStamp(r) PROVE IInv'
  <1>1. TypeOK'
    BY DEF IInv, TypeOK, Requests, LockInv, RequestInv, Storing,
           CommitStamp, Goto, Release
  <1>2. LockInv'
    BY DEF IInv, TypeOK, Requests, LockInv, RequestInv, Storing,
           CommitStamp, Goto, Release
  <1>3. RequestInv'
    BY DEF IInv, TypeOK, Requests, LockInv, RequestInv, Storing,
           CommitStamp, Goto, Release
  <1>4. TokenInv'
    BY DEF IInv, TypeOK, Requests, LockInv, RequestInv, TokenInv, NoReplay, Storing,
           CommitStamp, Goto, Release
  <1>5. NoReplay'
    BY DEF IInv, TypeOK, Requests, LockInv, RequestInv, TokenInv, NoReplay, Storing,
           CommitStamp, Goto, Release
  <1> QED  BY <1>1, <1>2, <1>3, <1>4, <1>5 DEF IInv

\* A request or its process dies and its transaction is rolled back.
LEMMA CrashStep == ASSUME NEW r \in Reqs, IInv, Crash(r) PROVE IInv'
  <1>1. TypeOK'
    BY DEF IInv, TypeOK, Requests, LockInv, RequestInv, Storing,
           Crash, Goto, Release, Abandon
  <1>2. LockInv'
    BY DEF IInv, TypeOK, Requests, LockInv, RequestInv, Storing,
           Crash, Goto, Release, Abandon
  <1>3. RequestInv'
    BY DEF IInv, TypeOK, Requests, LockInv, RequestInv, Storing,
           Crash, Goto, Release, Abandon
  <1>4. TokenInv'  BY AbandonedTokens DEF Crash
  <1>5. NoReplay'
    BY DEF IInv, TypeOK, Requests, LockInv, RequestInv, TokenInv, NoReplay, Storing,
           Crash, Goto, Release, Abandon
  <1> QED  BY <1>1, <1>2, <1>3, <1>4, <1>5 DEF IInv

\* Steps that are nobody's request.
LEMMA LoginStep == ASSUME IInv, Login PROVE IInv'
  <1>1. TypeOK'  BY DEF IInv, TypeOK, Login, Expiry, Cookie
  <1>a. row' \in RowOf  BY DEF IInv, TypeOK, Login, Expiry
  <1>2. row = None /\ row' # None /\ idp' = [last |-> 1, live |-> {1}, rotated |-> {}]
    BY <1>a DEF IInv, TokenInv, Login
  <1>3. LockInv'  BY <1>2 DEF IInv, LockInv, RequestInv, Storing, Login
  <1>4. RequestInv'  BY <1>2 DEF IInv, LockInv, RequestInv, Storing, Login
  <1>5. TokenInv'  BY <1>2 DEF IInv, TokenInv, Storing, Login
  <1>6. NoReplay'  BY <1>2 DEF IInv, NoReplay, Login
  <1> QED  BY <1>1, <1>3, <1>4, <1>5, <1>6 DEF IInv

\* exchange_authorization_code mints tokens and touches no row.
LEMMA ExchangeCodeStep == ASSUME IInv, ExchangeCode PROVE IInv'
  <1>1. TypeOK'  BY DEF IInv, TypeOK, ExchangeCode
  <1>2. LockInv' /\ RequestInv' /\ TokenInv' /\ NoReplay'
    BY DEF IInv, LockInv, RequestInv, TokenInv, NoReplay, Storing, ExchangeCode
  <1> QED  BY <1>1, <1>2 DEF IInv

\* The clock only makes more rows expired.
LEMMA TickStep == ASSUME IInv, Tick PROVE IInv'
  <1>1. TypeOK'  BY DEF IInv, TypeOK, Tick
  <1>2. LockInv' /\ TokenInv' /\ NoReplay'
    BY DEF IInv, LockInv, TokenInv, NoReplay, Storing, Tick
  <1>3. RequestInv'  BY DEF IInv, TypeOK, Requests, RequestInv, Storing, Tick
  <1> QED  BY <1>1, <1>2, <1>3 DEF IInv

\* Every step of every request, of the IdP and of the clock keeps the invariant.
LEMMA NextInv == IInv /\ [Next]_vars => IInv'
  <1> SUFFICES ASSUME IInv, [Next]_vars PROVE IInv'  OBVIOUS
  <1>1. CASE Login  BY <1>1, LoginStep
  <1>2. CASE ExchangeCode  BY <1>2, ExchangeCodeStep
  <1>3. CASE Tick  BY <1>3, TickStep
  <1>4. CASE \E r \in Reqs : Begin(r)
    BY <1>4, PresentCookieStep, UseApiKeyStep, RefreshGrantStep, RevokeStep,
       RevokeAccessStep, CleanupStep DEF Begin
  <1>5. CASE \E r \in Reqs : Refresh(r)
    BY <1>5, LockStep, LockTimeoutStep, HandlerRunsStep, IdpAnswersStep, IdpFailsStep,
       AnswerIsLostStep, FlushStep, FlushTimesOutStep, CommitRefreshStep DEF Refresh
  <1>6. CASE \E r \in Reqs : Remove(r)
    BY <1>6, IdpRevokesStep, DeleteStep, CommitDeleteStep, StampStep, CommitStampStep
       DEF Remove
  <1>7. CASE \E r \in Reqs : Crash(r)  BY <1>7, CrashStep
  <1>8. CASE UNCHANGED vars
    BY <1>8 DEF vars, IInv, TypeOK, LockInv, RequestInv, TokenInv, NoReplay, Storing
  <1> QED  BY <1>1, <1>2, <1>3, <1>4, <1>5, <1>6, <1>7, <1>8 DEF Next

\* The inductive invariant holds throughout.
THEOREM Invariance == Spec => []IInv
  <1> QED  BY InitInv, NextInv, PTL DEF Spec

\* The rows, the requests and the IdP's tokens have their types throughout.
THEOREM TypeCorrect == Spec => []TypeOK
  <1>1. IInv => TypeOK  BY DEF IInv
  <1> QED  BY <1>1, Invariance, PTL

\* _lock_token_rows and _refresh_rows: whoever talks to the IdP or writes the
\* rows holds their locks, alone, on the rows it read.
THEOREM LocksAreWhatRequestsDo == Spec => []LockInv
  <1>1. IInv => LockInv  BY DEF IInv
  <1> QED  BY <1>1, Invariance, PTL

\* Every request carries what its step needs, and a cleanup commits only the
\* deletion of a row that is expired past its cutoff.
THEOREM RequestsCarryTheirStep == Spec => []RequestInv
  <1>1. IInv => RequestInv  BY DEF IInv
  <1> QED  BY <1>1, Invariance, PTL

\* The stored token is current, except while the request that holds the lock is
\* about to store the one that replaces it.
THEOREM StoredTokenIsCurrent == Spec => []TokenInv
  <1>1. IInv => TokenInv  BY DEF IInv
  <1> QED  BY <1>1, Invariance, PTL

\* _lock_token_rows: concurrent refreshes never show the IdP a token it has
\* rotated, unless a rotation was lost on the way to the row.
THEOREM RotatedTokensAreNotReplayed == Spec => []NoReplay
  <1>1. IInv => NoReplay  BY DEF IInv
  <1> QED  BY <1>1, Invariance, PTL

\* No step brings back the rows of a deleted session.
LEMMA DeletedStep ==
  ASSUME IInv, [Next]_vars, row = None, login # "none" PROVE row' = None
  <1>1. \A r \in Reqs : req[r].step \notin {"idp", "flush", "commit"}
    BY DEF IInv, LockInv
  <1>2. CASE Login  BY <1>2 DEF Login
  <1>3. CASE ExchangeCode \/ Tick  BY <1>3 DEF ExchangeCode, Tick
  <1>4. CASE \E r \in Reqs : Begin(r) \/ Crash(r)
    BY <1>4 DEF Begin, PresentCookie, UseApiKey, RefreshGrant, Revoke, RevokeAccess,
                Cleanup, Crash
  <1>5. CASE \E r \in Reqs : Refresh(r)
    BY <1>1, <1>5 DEF Refresh, Lock, LockTimeout, HandlerRuns, IdpAnswers, IdpFails,
                      AnswerIsLost, Flush, FlushTimesOut, CommitRefresh
  <1>6. CASE \E r \in Reqs : Remove(r)
    BY <1>1, <1>6 DEF Remove, IdpRevokes, Delete, CommitDelete, Stamp, CommitStamp
  <1>7. CASE UNCHANGED vars  BY <1>7 DEF vars
  <1> QED  BY <1>2, <1>3, <1>4, <1>5, <1>6, <1>7 DEF Next

\* revoke_token, revoke_session and delete_expired_tokens: a refresh under way
\* when the session is deleted does not bring its rows back.
THEOREM DeletedSessionsStayDeleted == Spec => DeletedStaysDeleted
  <1>1. IInv /\ [Next]_vars => [row = None /\ login # "none" => row' = None]_vars
    BY DeletedStep
  <1> QED  BY <1>1, Invariance, PTL DEF Spec, DeletedStaysDeleted

\* A step that deletes the rows is the commit of the request that locked them.
LEMMA CleanupStepSpares ==
  ASSUME IInv, [Next]_vars, NEW r \in Reqs, req[r].kind = "cleanup",
         req[r].step = "commit", row' = None
  PROVE  row.until + CleanupAge < now
  <1>1. row # None /\ row \in RowOf /\ now \in Nat
    BY DEF IInv, TypeOK, LockInv
  <1>2. /\ req[r].time \in Int /\ req[r].time + CleanupAge <= now
        /\ row.until < req[r].time
    BY DEF IInv, RequestInv
  <1> QED  BY <1>1, <1>2

\* delete_expired_tokens: the cleanup never deletes a session that could still
\* be refreshed, even when it was refreshed while the DELETE waited for its row.
THEOREM CleanupOnlyDeletesExpired == Spec => CleanupSparesLiveSessions
  <1>1. IInv /\ [Next]_vars =>
          [\A r \in Reqs : req[r].kind = "cleanup" /\ req[r].step = "commit" /\ row' = None
             => row.until + CleanupAge < now]_vars
    BY CleanupStepSpares
  <1> QED  BY <1>1, Invariance, PTL DEF Spec, CleanupSparesLiveSessions

-----------------------------------------------------------------------------
(***************************************************************************)
(* FederatedSession implements RotatingCredential, and what follows from   *)
(* it: the stored refresh token is the one the IdP takes, or the one that  *)
(* replaces it is on its way, or a replacement was lost.                   *)
(***************************************************************************)
\* The IdP takes no token but the last one, and issued none before the login.
LiveInv == /\ idp.live \subseteq {idp.last}
           /\ login = "none" => idp.last = 0

\* A request holds a rotated token only while it holds the lock of the refresh row.
LEMMA OutIsLocked ==
  ASSUME IInv, NEW r \in Reqs, req[r].out # None, req[r].step \notin Ended
  PROVE  refreshLock = r /\ Storing(r) /\ row # None
  <1>1. Storing(r) /\ req[r].kind \in Refreshing  BY DEF IInv, RequestInv
  <1>2. req[r].step \in {"flush", "commit"}  BY <1>1 DEF Storing
  <1> QED  BY <1>1, <1>2 DEF IInv, LockInv

\* The token that is on its way is in the hands of the lock holder.
LEMMA PendingIsOut ==
  ASSUME IInv
  PROVE  /\ refreshLock \notin Reqs => PendingToken = None
         /\ \A r \in Reqs : refreshLock = r =>
              PendingToken = IF req[r].out # None /\ req[r].out.token # row.token
                             THEN req[r].out.token ELSE None
  BY DEF IInv, TypeOK, PendingToken

\* LiveInv holds before the login.
LEMMA LiveInit == Init => LiveInv
  BY DEF Init, LiveInv

\* A rotation retires the token that was live.
LEMMA LiveRotates ==
  ASSUME IInv, LiveInv, NEW t \in idp.live, row # None,
         idp' = [last |-> idp.last + 1, live |-> (idp.live \ {t}) \union {idp.last + 1},
                 rotated |-> idp.rotated \union {t}], login' = login
  PROVE  LiveInv'
  <1>1. t = idp.last /\ idp.live \ {t} = {}  BY DEF LiveInv
  <1>2. login # "none"  BY DEF IInv, TokenInv
  <1> QED  BY <1>1, <1>2 DEF LiveInv

\* Every step keeps LiveInv: only the IdP issues, rotates and revokes tokens.
LEMMA LiveNext == IInv /\ LiveInv /\ [Next]_vars => LiveInv'
  <1> SUFFICES ASSUME IInv, LiveInv, [Next]_vars PROVE LiveInv'  OBVIOUS
  <1>1. CASE Login  BY <1>1 DEF Login, LiveInv
  <1>2. CASE ExchangeCode \/ Tick  BY <1>2 DEF ExchangeCode, Tick, LiveInv
  <1>3. CASE \E r \in Reqs : Begin(r)
    BY <1>3 DEF Begin, PresentCookie, UseApiKey, RefreshGrant, Revoke, RevokeAccess,
                Cleanup, LiveInv
  <1>4. ASSUME NEW r \in Reqs, Refresh(r) PROVE LiveInv'
    <2>1. CASE IdpAnswers(r)
      <3>1. row # None /\ req[r].token \in idp.live /\ login' = login
        BY <2>1 DEF IdpAnswers, IInv, LockInv
      <3>2. CASE idp' = idp  BY <3>1, <3>2 DEF LiveInv
      <3>3. CASE idp' # idp
        BY <2>1, <3>1, <3>3, LiveRotates DEF IdpAnswers
      <3> QED  BY <3>2, <3>3
    <2>2. CASE AnswerIsLost(r)
      BY <2>2, LiveRotates DEF AnswerIsLost, IInv, LockInv
    <2>3. CASE ~IdpAnswers(r) /\ ~AnswerIsLost(r)
      BY <1>4, <2>3 DEF Refresh, Lock, LockTimeout, HandlerRuns, IdpFails, Flush,
                        FlushTimesOut, CommitRefresh, LiveInv
    <2> QED  BY <2>1, <2>2, <2>3
  <1>5. ASSUME NEW r \in Reqs, Remove(r) PROVE LiveInv'
    <2>1. CASE IdpRevokes(r)
      <3>1. login' = login /\ idp'.last = idp.last /\ idp'.live \subseteq idp.live
        BY <2>1 DEF IdpRevokes, IInv, TypeOK
      <3> QED  BY <3>1 DEF LiveInv
    <2>2. CASE ~IdpRevokes(r)
      BY <1>5, <2>2 DEF Remove, Delete, CommitDelete, Stamp, CommitStamp, LiveInv
    <2> QED  BY <2>1, <2>2
  <1>6. CASE \E r \in Reqs : Crash(r)  BY <1>6 DEF Crash, LiveInv
  <1>7. CASE UNCHANGED vars  BY <1>7 DEF vars, LiveInv
  <1> QED  BY <1>1, <1>2, <1>3, <1>4, <1>5, <1>6, <1>7 DEF Next

-----------------------------------------------------------------------------
\* A step that leaves the row's token, the lock and what the holder carries alone
\* is a stutter of the credential.
LEMMA Quiet ==
  ASSUME IInv, NEW r \in Reqs, \A p \in Reqs : p # r => req'[p] = req[p],
         req'[r].out = req[r].out \/ refreshLock # r,
         refreshLock' = refreshLock, lost' = lost, idp'.last = idp.last,
         row = None <=> row' = None, row # None => row'.token = row.token
  PROVE  UNCHANGED RC!vars
  <1>1. StoredToken' = StoredToken  BY DEF StoredToken
  <1>2. refreshLock \in Reqs \union {None}  BY DEF IInv, TypeOK
  <1>3. CASE refreshLock = None  BY <1>1, <1>3 DEF PendingToken, RC!vars
  <1>4. CASE refreshLock \in Reqs
    <2>1. req'[refreshLock].out = req[refreshLock].out  BY <1>4
    <2>2. req[refreshLock].step \notin Ended /\ (req[refreshLock].out # None => row # None)
      BY <1>4, OutIsLocked DEF IInv, LockInv
    <2> QED  BY <1>1, <1>4, <2>1, <2>2 DEF PendingToken, RC!vars
  <1> QED  BY <1>2, <1>3, <1>4

\* The first and the last state of a request: what it carries when it begins.
LEMMA IdleCarriesNothing ==
  ASSUME IInv, NEW r \in Reqs, req[r].step \in {"idle", "locking", "idp", "handler", "revoking",
                                               "deleting", "stamping"}
  PROVE  req[r].out = None
  BY DEF IInv, RequestInv, Storing

\* A request that gives up drops the token it was about to store.
LEMMA AbandonMaps ==
  ASSUME IInv, NEW r \in Reqs, req[r].step \notin {"idle"} \union Ended,
         NEW step \in {"failed", "error"}, Abandon(r, step), UNCHANGED <<row, idp>>
  PROVE  [RC!Next]_(RC!vars)
  <1>1. StoredToken' = StoredToken /\ idp'.last = idp.last  BY DEF StoredToken
  <1>2. CASE PendingToken # None /\ refreshLock = r
    <2>1. req[r].out # None /\ req[r].out.token # row.token
      BY <1>2, PendingIsOut
    <2>2. row # None  BY <2>1, OutIsLocked
    <2>3. lost' = TRUE  BY <2>1, <2>2 DEF Abandon
    <2>4. PendingToken' = None  BY <1>2 DEF Abandon, Release, PendingToken
    <2> QED  BY <1>1, <1>2, <2>3, <2>4 DEF RC!Drop, RC!Next
  <1>3. CASE PendingToken = None /\ refreshLock = r
    <2>1. ~(req[r].out # None /\ row # None /\ req[r].out.token # row.token)
      BY <1>3, PendingIsOut DEF IInv, TypeOK, Requests
    <2>2. lost' = lost  BY <2>1 DEF Abandon, IInv, TypeOK
    <2>3. PendingToken' = None  BY <1>3 DEF Abandon, Release, PendingToken
    <2> QED  BY <1>1, <1>3, <2>2, <2>3 DEF RC!vars
  <1>4. CASE refreshLock # r
    <2>1. req[r].out = None  BY <1>4, OutIsLocked
    <2>2. lost' = lost  BY <2>1 DEF Abandon, IInv, TypeOK
    <2>3. refreshLock' = refreshLock /\ \A p \in Reqs : p # r => req'[p] = req[p]
      BY <1>4 DEF Abandon, Release, Goto, IInv, TypeOK
    <2> QED  BY <1>4, <2>2, <2>3, Quiet
  <1> QED  BY <1>2, <1>3, <1>4

\* The clock plus a lifetime less the drift is a time.
LEMMA ExpiryIsTime == ASSUME IInv, NEW life \in IdpLife PROVE Expiry(life) \in Nat
  <1>1. now \in Nat  BY DEF IInv, TypeOK
  <1>2. life \in Nat /\ Drift \in Nat  OBVIOUS
  <1>3. CASE life > Drift
    <2>1. life - Drift \in Nat  BY <1>2, <1>3
    <2> QED  BY <1>1, <1>3, <2>1 DEF Expiry
  <1>4. CASE ~(life > Drift)  BY <1>1, <1>4 DEF Expiry
  <1> QED  BY <1>3, <1>4

\* The login issues the first token.
LEMMA LoginMaps == ASSUME IInv, LiveInv, Login PROVE RC!Next
  <1>1. login = "none" /\ row = None  BY DEF Login, IInv, TokenInv
  <1>2. refreshLock = None
    BY <1>1 DEF IInv, TypeOK, LockInv
  <1>3. PendingToken = None /\ PendingToken' = None  BY <1>2 DEF PendingToken, Login
  <1>4. StoredToken' = 1
    <2>1. PICK life \in IdpLife, rlife \in IdpLife :
            row' = [token |-> 1, until |-> Expiry(rlife), accessUntil |-> Expiry(life)]
      BY DEF Login
    <2>2. Expiry(life) \in Nat /\ Expiry(rlife) \in Nat  BY ExpiryIsTime
    <2>3. row' \in RowOf /\ row'.token = 1  BY <2>1, <2>2
    <2> QED  BY <2>3 DEF StoredToken
  <1>5. idp.last = 0 /\ idp'.last = 1  BY <1>1 DEF Login, LiveInv
  <1> QED  BY <1>3, <1>4, <1>5 DEF Login, RC!Issue, RC!Next

\* A request begins, or goes on without the lock.
LEMMA BeginMaps == ASSUME IInv, NEW r \in Reqs, Begin(r) PROVE UNCHANGED RC!vars
  <1>1. req[r].step = "idle"
    BY DEF Begin, PresentCookie, UseApiKey, RefreshGrant, Revoke, RevokeAccess, Cleanup
  <1>2. refreshLock # r  BY <1>1 DEF IInv, LockInv
  <1>3. UNCHANGED <<row, refreshLock, idp, lost>> /\ \A p \in Reqs : p # r => req'[p] = req[p]
    BY DEF Begin, PresentCookie, UseApiKey, RefreshGrant, Revoke, RevokeAccess, Cleanup,
           Start, IInv, TypeOK
  <1> QED  BY <1>2, <1>3, Quiet

\* A request takes the lock of the refresh row: nothing is on its way yet.
LEMMA LockMaps == ASSUME IInv, NEW r \in Reqs, Lock(r) PROVE UNCHANGED RC!vars
  <1>1. req[r].out = None /\ refreshLock = None  BY IdleCarriesNothing DEF Lock
  <1>2. req'[r].out = None /\ refreshLock' \in {None, r}
    <2>1. req[r] \in Requests /\ r \in DOMAIN req  BY DEF IInv, TypeOK
    <2>2. CASE row = None \/ (row # None /\ row.until <= now)
      <3>1. req' = [req EXCEPT ![r].step = Refused(r)] /\ refreshLock' = refreshLock
        BY <2>2 DEF Lock, Goto
      <3>2. req'[r] = [req[r] EXCEPT !.step = Refused(r)]  BY <2>1, <3>1
      <3> QED  BY <1>1, <2>1, <3>1, <3>2 DEF Requests
    <2>3. CASE ~(row = None \/ (row # None /\ row.until <= now))
      <3>1. PICK seen, step :
              req' = [req EXCEPT ![r] = [@ EXCEPT !.seen = seen, !.token = row.token,
                                                  !.step = step]]
        BY <2>3 DEF Lock
      <3>2. req'[r] = [req[r] EXCEPT !.seen = seen, !.token = row.token, !.step = step]
        BY <2>1, <3>1
      <3>3. refreshLock' = r  BY <2>3 DEF Lock
      <3> QED  BY <1>1, <2>1, <3>2, <3>3 DEF Requests
    <2> QED  BY <2>2, <2>3
  <1>3. PendingToken = None /\ PendingToken' = None  BY <1>1, <1>2 DEF PendingToken
  <1> QED  BY <1>3 DEF Lock, StoredToken, RC!vars

\* The IdP answers: the token is the same, or it is rotated.
LEMMA IdpAnswersMaps == ASSUME IInv, LiveInv, NEW r \in Reqs, IdpAnswers(r)
                        PROVE  [RC!Next]_(RC!vars)
  <1>1. /\ refreshLock = r /\ row # None /\ req[r].token = row.token
        /\ row.token = idp.last /\ idp.last \in Nat
    BY DEF IdpAnswers, IInv, TypeOK, LockInv, LiveInv
  <1>2. req[r].out = None /\ PendingToken = None
    BY <1>1, IdleCarriesNothing, PendingIsOut DEF IdpAnswers
  <1>3. PICK rotates \in BOOLEAN, life \in IdpLife, rlife \in IdpLife :
          LET token == IF rotates THEN idp.last + 1 ELSE req[r].token
          IN  /\ idp' = IF rotates
                        THEN [last    |-> token,
                              live    |-> (idp.live \ {req[r].token}) \union {token},
                              rotated |-> idp.rotated \union {req[r].token}]
                        ELSE idp
              /\ req' = [req EXCEPT ![r] =
                           [@ EXCEPT !.step = "flush",
                                     !.out = [token |-> token, until |-> Expiry(rlife),
                                              accessUntil |-> Expiry(life)]]]
    BY DEF IdpAnswers
  <1> DEFINE token == IF rotates THEN idp.last + 1 ELSE req[r].token
  <1>4. req'[r].out # None /\ req'[r].out.token = token
    <2>1. Expiry(life) \in Nat /\ Expiry(rlife) \in Nat
      BY ExpiryIsTime
    <2>2. token \in Nat  BY <1>1
    <2> DEFINE o == [token |-> token, until |-> Expiry(rlife), accessUntil |-> Expiry(life)]
    <2>3. o \in RowOf  BY <2>1, <2>2
    <2>4. req'[r].out = o  BY <1>3 DEF IInv, TypeOK, Requests
    <2> QED  BY <2>3, <2>4
  <1>5. UNCHANGED <<row, refreshLock, lost>> /\ StoredToken' = StoredToken
    BY DEF IdpAnswers, StoredToken
  <1>6. PendingToken' = IF token # row.token THEN token ELSE None
    BY <1>1, <1>4, <1>5 DEF PendingToken
  <1>7. CASE rotates
    <2>1. idp'.last = idp.last + 1 /\ PendingToken' = idp.last + 1
      BY <1>1, <1>3, <1>6, <1>7
    <2>2. StoredToken = idp.last /\ StoredToken # None  BY <1>1 DEF StoredToken
    <2> QED  BY <1>2, <1>5, <2>1, <2>2 DEF RC!Rotate, RC!Next
  <1>8. CASE ~rotates
    BY <1>1, <1>2, <1>3, <1>5, <1>6, <1>8 DEF RC!vars
  <1> QED  BY <1>7, <1>8

\* The IdP rotates the token and the answer is lost.
LEMMA AnswerIsLostMaps == ASSUME IInv, LiveInv, NEW r \in Reqs, AnswerIsLost(r) PROVE RC!Next
  <1>1. /\ refreshLock = r /\ row # None /\ req[r].token = row.token
        /\ row.token = idp.last
    BY DEF AnswerIsLost, IInv, LockInv, LiveInv
  <1>2. PendingToken = None
    BY <1>1, IdleCarriesNothing, PendingIsOut DEF AnswerIsLost
  <1>3. PendingToken' = None  BY <1>1 DEF AnswerIsLost, Release, PendingToken
  <1>4. StoredToken = idp.last /\ StoredToken # None /\ StoredToken' = StoredToken
    BY <1>1 DEF AnswerIsLost, StoredToken, IInv, TypeOK
  <1>5. idp'.last = idp.last + 1 /\ lost' = TRUE  BY DEF AnswerIsLost
  <1> QED  BY <1>2, <1>3, <1>4, <1>5 DEF RC!Rotate, RC!Next

\* The commit of a refresh stores the token that was on its way.
LEMMA CommitRefreshMaps == ASSUME IInv, NEW r \in Reqs, CommitRefresh(r)
                           PROVE  [RC!Next]_(RC!vars)
  <1>1. refreshLock = r /\ row # None  BY DEF CommitRefresh, IInv, LockInv
  <1>2. PendingToken' = None  BY <1>1 DEF CommitRefresh, Release, PendingToken
  <1>3. UNCHANGED <<idp, lost>>  BY DEF CommitRefresh
  <1>4. CASE PendingToken # None
    <2>1. req[r].out # None /\ PendingToken = req[r].out.token  BY <1>1, <1>4, PendingIsOut
    <2>2. StoredToken' = PendingToken  BY <2>1 DEF CommitRefresh, StoredToken, IInv, TypeOK, Requests
    <2> QED  BY <1>2, <1>3, <1>4, <2>2 DEF RC!Store, RC!Next
  <1>5. CASE PendingToken = None
    <2>1. req[r].out = None \/ req[r].out.token = row.token
      BY <1>1, <1>5, PendingIsOut DEF IInv, TypeOK, Requests
    <2>2. StoredToken' = StoredToken
      BY <1>1, <2>1 DEF CommitRefresh, StoredToken, IInv, TypeOK, Requests
    <2> QED  BY <1>2, <1>3, <1>5, <2>2 DEF RC!vars
  <1> QED  BY <1>4, <1>5

\* The commit of a deletion forgets the token: its request carries none.
LEMMA CommitDeleteMaps == ASSUME IInv, NEW r \in Reqs, CommitDelete(r) PROVE RC!Next
  <1>1. refreshLock = r /\ row # None  BY DEF CommitDelete, IInv, LockInv
  <1>2. req[r].out = None  BY DEF CommitDelete, IInv, RequestInv
  <1>3. PendingToken = None  BY <1>1, <1>2, PendingIsOut
  <1>4. PendingToken' = None  BY <1>1 DEF CommitDelete, Release, PendingToken
  <1>5. StoredToken # None /\ StoredToken' = None
    BY <1>1 DEF CommitDelete, StoredToken, IInv, TypeOK
  <1> QED  BY <1>3, <1>4, <1>5 DEF CommitDelete, RC!Forget, RC!Next

\* The steps that only move the request on leave the credential alone.
LEMMA GotoMaps ==
  ASSUME IInv, NEW r \in Reqs, LockTimeout(r) \/ HandlerRuns(r) \/ Flush(r) \/ Stamp(r)
  PROVE  UNCHANGED RC!vars
  <1>1. PICK step \in Steps : req' = [req EXCEPT ![r].step = step]
    BY DEF LockTimeout, HandlerRuns, Flush, Stamp, Goto
  <1>2. UNCHANGED <<row, refreshLock, idp, lost>>
    BY DEF LockTimeout, HandlerRuns, Flush, Stamp
  <1>3. /\ \A p \in Reqs : p # r => req'[p] = req[p]
        /\ req'[r].out = req[r].out
    BY <1>1 DEF IInv, TypeOK, Requests
  <1> QED  BY <1>2, <1>3, Quiet

\* A revocation at the IdP issues no token.
LEMMA IdpRevokesMaps == ASSUME IInv, NEW r \in Reqs, IdpRevokes(r) PROVE UNCHANGED RC!vars
  <1>1. /\ \A p \in Reqs : p # r => req'[p] = req[p]
        /\ req'[r].out = req[r].out
    BY DEF IdpRevokes, IInv, TypeOK, Requests
  <1>2. UNCHANGED <<row, refreshLock, lost>> /\ idp'.last = idp.last
    BY DEF IdpRevokes, IInv, TypeOK
  <1> QED  BY <1>1, <1>2, Quiet

\* The new expiry of a revoked access token leaves the refresh token alone.
LEMMA CommitStampMaps == ASSUME IInv, NEW r \in Reqs, CommitStamp(r) PROVE UNCHANGED RC!vars
  <1>1. req' = [req EXCEPT ![r].step = "ok"]  BY DEF CommitStamp, Goto
  <1>2. /\ \A p \in Reqs : p # r => req'[p] = req[p]
        /\ req'[r].out = req[r].out
    BY <1>1 DEF IInv, TypeOK, Requests
  <1>3. refreshLock # r /\ row # None /\ req[r].time \in Times
    BY DEF CommitStamp, IInv, LockInv, RequestInv
  <1>4. row \in RowOf /\ row' = [row EXCEPT !.accessUntil = req[r].time]
    BY <1>3 DEF CommitStamp, IInv, TypeOK
  <1>5. row' \in RowOf /\ row'.token = row.token  BY <1>3, <1>4
  <1>6. UNCHANGED <<refreshLock, idp, lost>>  BY <1>3 DEF CommitStamp, Release
  <1> QED  BY <1>2, <1>3, <1>4, <1>5, <1>6, Quiet

\* A deletion takes the lock with nothing on its way.
LEMMA DeleteMaps == ASSUME IInv, NEW r \in Reqs, Delete(r) PROVE UNCHANGED RC!vars
  <1>1. req[r].out = None /\ refreshLock = None  BY IdleCarriesNothing DEF Delete
  <1>2. req'[r].out = None /\ refreshLock' \in {None, r}
    BY <1>1 DEF Delete, Goto, IInv, TypeOK, Requests
  <1>3. PendingToken = None /\ PendingToken' = None  BY <1>1, <1>2 DEF PendingToken
  <1> QED  BY <1>3 DEF Delete, StoredToken, RC!vars

-----------------------------------------------------------------------------
\* Every step of the session is a step of the credential, or leaves it alone.
LEMMA NextMaps == IInv /\ LiveInv /\ [Next]_vars => [RC!Next]_(RC!vars)
  <1> SUFFICES ASSUME IInv, LiveInv, [Next]_vars PROVE [RC!Next]_(RC!vars)  OBVIOUS
  <1>1. CASE Login  BY <1>1, LoginMaps
  <1>2. CASE ExchangeCode \/ Tick \/ UNCHANGED vars
    BY <1>2 DEF ExchangeCode, Tick, vars, RC!vars, StoredToken, PendingToken
  <1>3. CASE \E r \in Reqs : Begin(r)  BY <1>3, BeginMaps
  <1>4. ASSUME NEW r \in Reqs, Refresh(r) PROVE [RC!Next]_(RC!vars)
    <2>1. CASE Lock(r)  BY <2>1, LockMaps
    <2>2. CASE IdpAnswers(r)  BY <2>2, IdpAnswersMaps
    <2>3. CASE AnswerIsLost(r)  BY <2>3, AnswerIsLostMaps
    <2>4. CASE CommitRefresh(r)  BY <2>4, CommitRefreshMaps
    <2>5. CASE IdpFails(r)
      BY <2>5, AbandonMaps DEF IdpFails, IdpRefused
    <2>6. CASE FlushTimesOut(r)
      BY <2>6, AbandonMaps DEF FlushTimesOut
    <2>7. CASE LockTimeout(r) \/ HandlerRuns(r) \/ Flush(r)
      BY <2>7, GotoMaps
    <2> QED  BY <1>4, <2>1, <2>2, <2>3, <2>4, <2>5, <2>6, <2>7 DEF Refresh
  <1>5. ASSUME NEW r \in Reqs, Remove(r) PROVE [RC!Next]_(RC!vars)
    BY <1>5, DeleteMaps, CommitDeleteMaps, GotoMaps, IdpRevokesMaps, CommitStampMaps DEF Remove
  <1>6. CASE \E r \in Reqs : Crash(r)
    BY <1>6, AbandonMaps DEF Crash
  <1> QED  BY <1>1, <1>2, <1>3, <1>4, <1>5, <1>6 DEF Next

\* FederatedSession implements RotatingCredential: at most one replacement of the
\* refresh token is under way (_lock_token_rows), it is stored (the commit of the
\* router) or lost, and a session whose token is being replaced is not deleted.
THEOREM SessionIsRotatingCredential == Spec => Credential
  <1>1. Init => RC!Init
    BY DEF Init, RC!Init, StoredToken, PendingToken
  <1>2. Spec => []LiveInv
    BY LiveInit, LiveNext, Invariance, PTL DEF Spec
  <1> QED  BY <1>1, <1>2, NextMaps, Invariance, PTL DEF Spec, Credential, RC!Spec

\* A replacement on its way is the last token, unless one was lost, and replaces a
\* token that is stored.
PendingInv == /\ PendingToken # None => (lost \/ PendingToken = idp.last) /\ StoredToken # None
              /\ idp.last = 0 => StoredToken = None /\ PendingToken = None

\* The inductive invariant of the rotating credential.
CInv == RC!TypeOK /\ PendingInv /\ RC!Current

\* Nothing is stored before the first token.
LEMMA CInit == RC!Init => CInv
  <1> SUFFICES ASSUME RC!Init PROVE CInv  OBVIOUS
  <1>1. StoredToken = None /\ PendingToken = None /\ idp.last = 0 /\ lost = FALSE
    BY DEF RC!Init
  <1>2. RC!TypeOK
    <2>1. lost \in BOOLEAN  BY <1>1, Zenon
    <2> QED  BY <1>1, <2>1 DEF RC!TypeOK
  <1>3. RC!Current  BY <1>1, Zenon DEF RC!Current
  <1>4. PendingInv  BY <1>1 DEF PendingInv
  <1> QED  BY <1>2, <1>3, <1>4 DEF CInv

\* Every step of the credential keeps the invariant, by itself.
LEMMA CNext == CInv /\ [RC!Next]_(RC!vars) => CInv'
  <1> SUFFICES ASSUME CInv, [RC!Next]_(RC!vars) PROVE CInv'  OBVIOUS
  <1> USE DEF CInv, RC!TypeOK, PendingInv, RC!Current
  <1>1. CASE RC!Issue   BY <1>1 DEF RC!Issue
  <1>2. CASE RC!Rotate
    <2>1. /\ idp.last \in Nat /\ (idp.last)' = idp.last + 1
          /\ StoredToken' = StoredToken /\ StoredToken # None
      BY <1>2 DEF RC!Rotate
    <2>2. CASE PendingToken' = idp.last + 1 /\ lost' = lost  BY <2>1, <2>2
    <2>3. CASE PendingToken' = PendingToken /\ lost' = TRUE  BY <2>1, <2>3
    <2> QED  BY <1>2, <2>2, <2>3 DEF RC!Rotate
  <1>3. CASE RC!Store   BY <1>3 DEF RC!Store
  <1>4. CASE RC!Drop    BY <1>4 DEF RC!Drop
  <1>5. CASE RC!Forget  BY <1>5 DEF RC!Forget
  <1>6. CASE UNCHANGED RC!vars  BY <1>6 DEF RC!vars
  <1> QED  BY <1>1, <1>2, <1>3, <1>4, <1>5, <1>6 DEF RC!Next

\* As long as no replacement was lost, the IdP takes the stored token or the one on its
\* way to be stored: a rotation at the IdP (_refresh_rows, _refresh_token_row)
\* never strands a session that is not deleted.
THEOREM CredentialIsCurrent == Spec => []RC!Current
  <1>1. CInv => RC!Current  BY DEF CInv
  <1>2. Credential => []RC!Current  BY <1>1, CInit, CNext, PTL DEF Credential, RC!Spec
  <1> QED  BY <1>2, SessionIsRotatingCredential, PTL
=============================================================================
