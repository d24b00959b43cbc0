# A verification development of ohev2

TLA+ models of the OpenHands enterprise backend in `src/src/openhands/ev2` (abbreviated
`ev2/` below), TLC runs that check them on small instances, and TLAPS proofs of what
matters most for every value of the constants.

Contents: [the system](#the-system), [modules](#the-modules), [runs](#the-runs),
[proofs](#the-proofs), [disagreements found](#disagreements-between-code-and-documentation),
[what is not modelled](#what-is-not-modelled), [plan](#plan).

## The system

ev2 is one FastAPI service over PostgreSQL. A deployment runs several processes of it; they
share nothing but the database, the identity provider (IdP), OAuth providers, an object store
and a container engine. Two facts shape everything below.

* `ev2/db.py:32-39, 90-94`: a request gets a session from `async with factory() as session`.
  Services flush, *routers* commit; a session that is closed without a commit is rolled back.
  Sessions run at READ COMMITTED with `expire_on_commit=False`, and an ORM row that is already
  loaded keeps its attributes when a later SELECT returns it again, also after a lock.
* `ev2/app.py:86-101, 397-435`: every process runs background loops (token cleanup, job
  sweeps, partitions, usage aggregation, ACL pruning, warm sandboxes, CORS refresh), started in
  `lifespan`; a loop sleeps, opens a session, works, logs an exception and goes on.

| component | state | operations | what is hard | what makes it correct |
|---|---|---|---|---|
| job table (`job/job_service.py`) | `jobs` rows: status, runner, start, limit | create, patch, delete, batch; claim, complete, recover | statements of several runners and clients on the same rows, between SELECT and UPDATE and between UPDATE and COMMIT | a row is claimed once per queueing; terminal rows are not overwritten; a late completion does not close another run; recovery fails only overdue jobs; a runner keeps to its capacity |
| job runner (`job/job_runner_service.py`) | `_live` table, asyncio tasks | sweep, task end, shutdown | sweeps, task completions, done callbacks that run later and shutdown interleave on one event loop; a sweep may fail | entries of `_live` are of tasks of their own job; late tasks are cancelled; shutdown cancels what runs, and ends |
| federated session (`auth/*`) | refresh and access row, cookies, IdP tokens | login, cookie and API-key refresh, refresh grant, revoke, logout, cleanup | rotating tokens: a refresh is a write at the IdP and a write here, with a lock, a timeout and a crash in between | the stored token is the IdP's; no rotated token is presented; a deleted session stays deleted; every request ends |
| OAuth provider sessions (`oauth/*`, `secret/oauth_secret_provider.py`) | one row per session with both tokens | callback, lazy refresh, explicit refresh, patch, delete | as above, with callers that do not commit | as above |
| daily partitions (usage, events, jobs) | dated partitions and DEFAULT | preallocate, drop | missed sweeps, rows in DEFAULT, midnight | an allocated day has its partition; nothing inside retention is dropped |
| usage metering (`llm_usage_service.py`, MCP and sandbox likewise) | raw rows, per-minute projection | record, aggregate | late commits, missed and overlapping sweeps | a minute aggregated after its last commit is exact and stays so |
| event log and webhooks (`event/*`, `webhook/*`) | rows, stored bodies, conversation record | append, batch, ingest, upsert, drop, backfill | two stores without a transaction; stale ORM objects | a retained row's body can be read; no event outlives its conversation |
| sandboxes (`sandbox/*`) | containers or Deployments, volumes, Services, tarballs, snapshot rows | create, claim, pause, resume, delete, sweep, refresh, snapshot | no transaction at the daemon; claims beside the refresh loops of all processes | a sandbox is claimed once; storage precedes it; the pool overshoots its target by a bounded number |
| permissions (`security/*`, `util/search_filter.py`, `role/*`) | roles, grants | union and intersection of filters | SQL and in-memory evaluation must agree | a request touches exactly what some grant allows |
| ACL pruning (`security/acl_prune_service.py`) | role policy columns | prune | beside role patches and new rows | only ids of deleted entities disappear |
| resources: users, roles, grants, keys, OAuth clients and providers, flags, groups, secrets, MCP and LLM configuration, templates, configs, conversation records | one table each, with foreign keys | create, read, page, patch, delete, batch | cascades, RESTRICT, races between a check and a flush | what commits is granted; partial updates are partial; failures have a status |
| CORS origins cache (`cors/*`) | process-local cache | lookup, fill, reset | a reset between read and fill, several processes | bounded staleness |
| encryption, hashing, settings, scripts | none, or used offline | | | |

Calls between them: routers call one service each with the permission filter of the principal;
`auth_dependencies` runs before every handler in the handler's session; `app.py` drives the
runner, the partition functions, the aggregation and the pool; webhooks call the event service
in their own session; secret values call the OAuth session service in the reader's session.

## The modules

### JobService: the job table

`rows` is the committed table, `uncommitted[j]` the version a session wrote and the row lock that
comes with it, `tx[s]` the statement a session is in, with the ids its SELECT chose and it has
yet to visit (`todo`) and the `datetime.now()` it took (`at`). `runs` are the job bodies that
were started. An action of the first group is a call of the service up to its SELECT:
`Create`, `CreateRunnerOwned`, `Update`, `Delete`, `ClaimPending`, `Complete`,
`RecoverDeadRunners`. `Visit` is PostgreSQL's UPDATE of one row at READ COMMITTED: it waits for
the lock, evaluates the WHERE on the row it then finds, and writes or skips it; `ClaimRow`,
`CompleteRow`, `RecoverRow`, `PatchRow`, `DeleteRow` are its uses. `Commit` and `Rollback` are the
caller's, `CloseClaim` is the end of the claim session of this repository's runner: the claim is not committed and
the bodies are started all the same (`_claim_and_run`). `Crash` kills a runner with its sessions and bodies. A client session may go on with
another operation before it commits, as `POST /jobs/batch` does.

The module answers whether the *statements* are right, whoever sends them: a runner whose phases commit, as its
documentation says, and one that starts bodies and rolls back, as it does. So there is no property that ties bodies to rows:
a body may run while its row is PENDING, and a second one beside it (`job_runner_commits`). `ClaimsTakePendingRows` is about the
rows: a claim is committed only over a row that is still PENDING, and `LockInv` says the same of a claim that is flushed and
not committed. JobRunner models what the runner does around the statements. A client's PATCH may take a job out of a terminal
status, which `TerminalStatusKept` leaves to clients.

### JobRunner: the runner of one process

The sweep loop is `RecoverAndCancel`, `SelectPending`, `ClaimAndRun` (the awaits of `sweep_once`
lie between them), or `SweepFails`. A task is created (`StartRuns`), enters its body
(`BodyStarts`), ends it (`BodyEnds`: `except BaseException` takes a cancellation too), and runs its
completion session (`CompletionEnds`). Then it is done, and `OnDone`, in a later step of the event loop, pops the entry
of its job, whichever task that entry is of; sweeps, new runs and `aclose` come in between. At shutdown `lifespan` stops the
sweep (`StopSweep`); `Aclose` cancels the tasks it finds in `_live`, and `Drained` ends the wait for these tasks
(`awaited`), not for what the table holds meanwhile. `SessionEnds(written)` is the end of an
`async with` block: what was written is given for the reader and discarded, because nobody
commits. The completion may thus write either status: neither survives.

### FederatedSession: the tokens of one login

`row` holds the committed refresh and access rows (written together, locked apart by
`refreshLock` and `accessLock`). `req[r]` is an HTTP request or a cleanup sweep: its kind, its step,
the access expiry its session loaded before the lock (`seen`) and the refresh token it read under
the lock (`token`), what it will write (`out`). The IdP is external: it numbers the refresh tokens
it issues, keeps the live and the rotated ones, may rotate or not, refuse, time out, or answer
into the void (`AnswerIsLost`). `lost` is history: a rotation was not stored. `RefreshGrant`,
`PresentCookie`, `UseApiKey` begin a request that may refresh, `Lock` is `_lock_token_rows` and the
recheck after it, `Flush` and `CommitRefresh` the write and the router's commit; `Revoke`,
`RevokeAccess`, `IdpRevokes`, `Delete`, `Stamp` and their commits are `revoke_token` and
`revoke_session`; `Cleanup` is `delete_expired_tokens`, whose DELETE evaluates its WHERE after the
wait for the lock. Lock timeouts are taken to surface as the `OperationalError` the code catches;
with asyncpg they may reach it as another `DBAPIError`, in which case the request ends with an error
one step earlier.

### RotatingCredential: what both kinds of session promise

The abstract specification of a refresh token that the provider may replace whenever it is used:
`stored` is the token in a committed row, `pending` the one that replaced it and is still in the hands
of one request, `issued` the last one the provider gave out, `lost` says that a replacement was never
stored. A credential is issued once; a rotation starts from the current token, which is the stored one or, if the request that
holds the pending one rotates again, that; what is pending is stored or dropped, and a credential is not forgotten
while it is being replaced. FederatedSession maps its row,
the refresh lock holder's `out`, `idp.last` and `lost` to it (`Credential`); OAuthSession has one
instance for each session (`RC(s)`, `Credentials`).

### OAuthSession: tokens of external providers

`rows[s]` is the committed row of a session, `lock[s]` its row lock, `issued[s]` the provider's last refresh
token and `lost` the sessions with a rotation that was not stored. A request `req[r]` is one transaction
over several rows: `todo` is what it still has to do, `loaded` the ORM instances it holds (a later SELECT
does not refresh them), `wrote` and `out` its uncommitted versions. `ReadSecrets` and `SearchSecrets` are
the routes of the secret values, `RefreshSession` the explicit refresh, `WriteSessions` PATCH, DELETE and
the batch. Each operation goes through `Resolve` (the get), a lock (`LockForRefresh`, or the statement of
`Patch` and `Delete`), possibly the provider (`ProviderAnswers`, `ProviderFails`, `AnswerIsLost`), and the
request ends with `Finish`: writes and explicit refreshes commit, reads roll back since their routes do
not commit. PostgreSQL's deadlock detector is an action, because a batch locks rows in the order of its
operations.

A read may name an id twice, as the batch route of the secret values accepts it: the instance of the first
operation is let go of when the operation is done (`Onward`; SQLAlchemy's identity map holds it weakly), the second loads what the
first flushed, and refreshes again if that is due.

Left out: permission filters admit every row and providers are enabled; the two SELECTs of a patch that changes nothing are one step; a provider error other than "no
answer" and "refused" is one of them; lock timeouts surface as the error the code catches, as above.

### UsageMetering: partitioned tables and what is counted in them

A behaviour is about one of `llm_usage`, `mcp_usage`, `sandbox_usage` or `jobs` (`table`). A `call` is a
proxied request, a poll or a job: it is served, inserts its row (`RecordLlm`, ...: the minute and the
partition are decided here), commits, or is lost (`RecordFails`, `Disconnect`, `Crash`, and
`NoToolCallSeen`, the SSE proxy that looks for `tools/call` in the answers). `EnsurePartitions` is the
sweep as one transaction: its DDL waits for open inserts, and its date may be yesterday's by then; it
fails while DEFAULT holds a row of a missing day (`Blocked`). `AggregateReads` and `AggregateMinute` are the
snapshot and the upsert of `aggregate_minute`, in several processes. A sum is the set of the rows summed, so
that counting twice, or a stale sum, is visible. `settled` and `swept` are history.

### EventLog: rows, bodies and a conversation

`row[e]` is the row of an event, flushed or committed in some partition; `bodies` is the store, which takes part in
no transaction. A request (`CreateEvent`, `WriteEventsBatch`, `OnEvent`, `OnConversationUpdate`,
`UpdateConversation`) is `Begin`, any number of `AppendEvent` and `FoldStats`, then `Commit` or `Fails`. `loaded` are
the metrics its ORM object holds and `wrote` the columns its flush found changed: an UPDATE writes these only.
`EnsurePartitions` commits, and `CleanStore` deletes the bodies of what was dropped as a later step that may fail.
`Backfill*` are the steps of the script: list, look up, insert (waiting for an insert of the same id in flight), one
commit.

### Sandboxes: the daemon, the pool and snapshots

`provider` picks one of the two `SandboxService` implementations; `box`, `disk`, `service` and `tar` are what it keeps,
`rows` the committed snapshot rows, `act[t]` where thread `t` is. Every call to the daemon or the API server is one
action (`DockerRename`, `K8sPatchClaim`, `K8sCreatePvc`, ...), and any thread may end before its next one (`Fails`). The
resource version of the claim's patch is `mark`: the candidates that were written since they were listed (`Go`). `LoopKey`
is what the refresh passes as template id: `"uuid"` is what `app.py` does, `"tag"` what the rest of the code expects. The
passing run takes `"tag"`, as otherwise the pool is never used and nothing about it could be checked. Every process runs a
refresh loop (a thread of `Loops`) and nothing elects one of them, so loops that counted the same pool all fill it
and later loops delete the excess: the pool does not keep to `num_warm`. `OverfillIsBounded` says what is left: no more than
the loops of all processes can add.

### Tables, Entities, Resources: the resources and their request cycle

Tables is the schema of the initial migration: foreign keys, ON DELETE, unique keys. Entities has, for each of the twenty
resources, what its own service and router contribute: the rows a create may insert (`XCreate`), the changes of an
update (`XPatch`), the rows its queries select (`XRows`), the operations there are (`XVerbs`), the permissions of the
read routes (`XRoutes`) and the statuses of failures (`XErrors`). Resources is the cycle they share: `Receive` a request
or a batch, `Create` or `Select` with their checks on what the transaction sees, `Flush` as one statement with its
collisions, missing parents, cascades, RESTRICT and lock waits, `Commit` of the router; `End` rolls back and answers. `asked`
is what the caller wanted changed, `old` what the ORM loaded, and `Merge` the UPDATE that carries the difference. A `scene`
is the set of tables in play, with parents outside it taken to exist. A new row gets an id (`FreeIds`) that no row has and no
request in flight names: ids are random, so one that was deleted is not drawn again while somebody remembers it. Left out: payload validation, and the values of
columns other than keys, of which one (`val`) stands for all.

### CorsCache: the origins each process remembers

Extends Resources with the cache of one process. `Miss`, `ReadOrigins`, `Fill` are a lookup; `Reset` happens when a
statement on the origins ran in this process, before its commit (`Flushed`); `Elsewhere` is the same step in another process.

### Access: policies, filters and pruning

Filters are records with two evaluations, `Matches` in memory and `Condition` as a clause that may be absent; policies
reduce to filters (`ToSearchFilter`), which are joined (`Combine`) and narrowed by the role of the API key
(`NarrowWithKeyRole`). A request reads its token, the groups, the roles and the key's role in steps of their own, while
`ByOthers` changes them. The filter of conversation records and events (`RecordFilter`) asks a related row, and denies in
memory if the ORM has not loaded it: `FiltersAgree` lets the two forms differ there, on reads only. `PruneRead`, `PrunePolicy` and `PruneCommit` are the background task. `Grants` is the reference
definition: what the docstrings of the policies say. It is recursive, so this module has no theorems.

## The runs

| run | module | question | bounds and why they are enough |
|---|---|---|---|
| `job_service` | JobService | may statements of runners and clients on one row break the state machine of a job? does recovery fail only overdue jobs? do count and claim keep a runner within its limit? | either one row, two runners and a clock to 2 that lets the limit 1 expire (a row lock involves one holder and one waiter, and a third session can only repeat the waiter), or two rows and one runner with room for one, which lives on and claims in sweeps at time 0 while a client writes one row per transaction (constraint `OneJobOrOneRunner`); two sessions; symmetric in runners and sessions |
| `job_runner` | JobRunner | are the entries of `_live` current, are late tasks cancelled, does the drain end? | two jobs and two tasks: two runs of one job, and two jobs at once; limit 1 |
| `session` | FederatedSession | tokens, locks, deletion, termination; is it a rotating credential? | two requests of any kinds, each used once; lifetimes 1 and 3 with drift 1 give an expiry that is immediate, imminent and distant within a clock to 2; two tokens give one rotation and its replay |
| `oauth_session` | OAuthSession | several rows in one transaction: locks, deadlocks, patches and deletions beside refreshes; is each session a rotating credential? | two rows, which two requests may lock in opposite orders; access lifetimes 1 and 5 with drift 2 give a token that is due at once and one that is not; refresh tokens live 1 second after the drift, so they run out within a clock to 1; three tokens give two rotations, by two requests or by one that names a row twice; a read names one row twice or both |
| `metering` | UsageMetering | are minutes exact, are days kept and shielded? | two calls of one creator, in the same or different minutes; days of two minutes and a clock to 5 give three days, one allocated ahead, one retained; two processes aggregate |
| `events` | EventLog | do rows and bodies stay together? | two events, one with a truncated row; two requests; three days with one allocated and one retained |
| `sandboxes` | Sandboxes | claims beside the refreshes, order of creation, snapshots; by how much may two loops overfill the pool? | two requests or sweeps of one process, the refresh loops of two processes, two configs, one snapshot, a target of 1; three sandboxes: two loops that counted none already make one too many, and the third shows that there is no other; constraints: two threads work at a time, or both loops and one request that creates or claims (`TwoAtWork`); the third sandbox is made beside a loop at work (`ThirdBesideLoop`); snapshots are explored with at most one sandbox and no pool (`PoolOrSnapshots`) |
| `resources` | Resources, CorsCache | what commits, what fails, what is paged, what the cache holds | eighteen scenes that put every table beside its parents and children; up to two rows at the start and three ids; two requests, overlapping in all scenes but the two largest, batches of two in the scenes of the two kinds of secrets; five callers (all, own rows, editor, reader, denied by several roles); pages of one row; constraint: a client pages or the cache is in use |
| `access` | Access | filters, grants and pruning | two roles out of eight policies that nest every kind, three ids of which one is drawn later; two changes; constraints: at most one change around a request, and requests and the pruning task apart |
| `job_runner_commits`, `job_runner_shutdown`, `warm_pool_fills` | JobRunner, Sandboxes | each refutes a sentence of the documentation, see below | |

Deadlock is checked where a system without work has a step of its own (`resources`, `access`). Elsewhere it is not: a job
table whose clock has reached its bound, a closed runner and a set of requests that have all ended really stop.

Each of JobService, FederatedSession and Resources has its type invariant checked; for the others it would say
nothing that the other properties do not. Symmetry is used only in runs without liveness.

Fairness. JobService states none: its properties are safety. JobRunner: an event loop runs what is
ready, so a created task starts, a cancelled body reacts at its next await, a completion session
ends (its statements have timeouts) and a drain with nothing to wait for returns; sweeps are
strongly fair since a database failure may end one but not all of them. A body that is not
cancelled may run for ever. FederatedSession: a request that can take a step takes one, since
its waits are bounded (the lock by `lock_timeout`, the IdP by the HTTP client's timeout); requests
need not begin, the clock need not advance and processes need not crash. OAuthSession: the same, with
the batch writes waiting for their locks without a timeout; two that wait for each other are ended by
PostgreSQL's deadlock detection. `warm_pool_fills` assumes weak fairness of the refresh loop and of
the steps of a creation, and no failures, so that its counterexample is not a system that stopped. The other modules
state no fairness: their properties are safety.

Every property of a passing run has a mutant: a definition of the model changed the way a
plausible bug would change the code (a dropped re-check, a `<=` for a `<`, a lock that is not
waited for), with which TLC refutes the property. They stand before the definition they change,
marked as mutants, and are used nowhere else.

## The proofs

The modules `*_proofs` prove, for any sets of jobs, runners, sessions, requests, events and processes and any bounds, every
safety property that the runs check on JobService, JobRunner, FederatedSession,
OAuthSession, UsageMetering, EventLog, Resources, CorsCache and Sandboxes, and that FederatedSession and each row of OAuthSession implement
RotatingCredential, from the named assumptions of the modules (ids are naturals, the null values are distinct from what they stand in for, lifetimes are
positive).

* JobService. The inductive invariant is `Inv == TypeOK /\ LockInv /\ StatementInv /\ RunInv`. The
  four action properties speak of one commit; what makes them true is `LockInv`: a version under
  a row lock still matches the committed row beneath it, because `Visit` evaluated the WHERE on that
  row and nobody can change it while the lock is held. `StatementInv` is needed to keep `LockInv`: a
  session does not visit a row twice, so its own earlier version is never taken for the committed
  one. `RunInv` says that the job of a body exists, so that a completion addresses a row. The proof
  goes by kinds of step: a statement begins (`BeginStep`), inserts (`InsertStep`), visits one row
  (`VisitStep`), ends (`EndStep`). `SweepsKeepCapacity` proves `RunnerWithinCapacity` for finitely many jobs where no job is
  claimed on insert, as in the second half of the run `job_service`: `CapInv` says that what a runner has and what its one claiming
  session wrote or selected fit together, and that a version is RUNNING only if a claim wrote it or the row was.
* FederatedSession. `IInv == TypeOK /\ LockInv /\ RequestInv /\ TokenInv /\ NoReplay`. `NoReplay` alone is not
  inductive: it needs that the stored token is not rotated unless the lock holder is about to
  replace it (`TokenInv`), that whoever talks to the IdP holds the lock and read the stored token under
  it (`LockInv`), and that requests carry tokens only in the steps that use them (`RequestInv`). One
  lemma per action.
  `SessionIsRotatingCredential` shows `Spec => Credential` on top of `IInv` and of
  `LiveInv`: the IdP takes no token but the last one it issued, so that a rotation starts from the current
  token. `OutIsLocked` says that a token on its way is in the hands of the holder of the refresh lock; hence a
  request without the lock that moves on is a stutter (`Quiet`), and each action of the lock holder is one step
  of the credential: IdpAnswers and AnswerIsLost rotate, CommitRefresh stores, a request that gives up drops,
  CommitDelete forgets. The credential is followed without the fairness of `Spec`. `CredentialIsCurrent` uses the
  abstract specification alone: while nothing is lost the IdP takes the stored token or the pending one.
* OAuthSession_proofs, for any number of rows, requests and operations in a request. `IInv == TypeOK /\ TodoInv /\ WroteInv
  /\ AskInv /\ IssuedInv`. `DeletedCorrect` and `EnabledCorrect` speak of the one step that commits; they need that the rows
  a request wrote are locked by it and still there, and that what a refresh wrote keeps the committed `enabled`
  (`WroteInv`), so also that the row is locked and there while the provider is asked (`AskInv`).
  `SessionsAreRotatingCredentials` takes `CredInv` besides: an operation loads its row before it locks it (`Prepared`), the
  tokens a request wrote lie between the row's and the provider's last one (`WroteTokens`), and those it loaded are not
  newer than what it sees (`LoadedTokens`), so that a token the provider takes is the one the request sees: the
  committed one, or the one it wrote itself when it came to the same row before (`AskedRow`). Nothing is assumed about the
  ids that a read names.
* UsageMetering_proofs, for any clock, retention, preallocation, lag and number of processes (it needs that the null
  values are no integers). `IInv == TypeOK /\ PlaceInv /\ WindowInv /\ SumInv`. `SettledMinutesAreExact` is not
  inductive: a process that summed before the retention dropped the rows may write afterwards. `SumInv` says that once the
  exact sum of a minute is written, or on its way, every sum on its way is exact or empty, and an empty one changes nothing;
  that takes `PlaceInv`, by which the rows of a day are in one place and are dropped together. `PreallocationShields` needs
  `WindowInv`: the days the last sweep allocated are still there, as days are dropped behind them only.
* EventLog_proofs, for any number of events, requests and days. `IInv == TypeOK /\ RowInv /\ StoreInv /\ OwnInv`.
  `EventsHaveParents` needs that a flushed row already keeps its conversation alive (`RowInv`), and that the rows which a
  transaction may commit or undo are its own (`OwnInv`). `RetainedBodiesAreStored` needs the same of flushed rows, and that
  the day being cleaned has no partition (`StoreInv`). The metrics of the conversation are left untyped.
* JobRunner_proofs. `IInv == TypeOK /\ LiveEntriesAreCurrent /\ StopInv`. `LiveCorrect`: the done callback takes the entry of
  the task's job with it, even if a later run of the job is listed there, so no entry is left of a task that is gone.
  `DrainCorrect` (`DrainWaitsForCancelled`, which no run checks) needs `StopInv`: once the process stops there are no sweeps and no new tasks, and what `aclose` took from
  `_live` was cancelled in the same step; a task loses its cancellation only by leaving its body.
* Resources_proofs, for any requests, ids, callers, page size, TTL and length of a batch. Its assumptions on the constants
  (`ResourcesAssumption`, `EntitiesAssumption`, `ScenesAssumption`, `CorsAssumption`) say that ids and names are numbers, that
  callers are users, and that a scene with LLM profiles has their connections, and one with OAuth clients their redirect URIs.
  - `TypesCorrect` rests on `TypeInv`, which says more than `TypeOK`: what a transaction has written are rows or deletions of
    its tables, and what a request has checked but not yet sent is a payload of its table, whatever resource it is. `CreatesOK`
    and `PatchesOK` go through the twenty resources, `DeleteOK` through the cascades of the schema: a delete empties only
    columns that may be NULL.
  - `PagesCover`: `PageInv` says that of the rows that were there and visible since the first page, those up to the cursor have
    been shown. Only `Commit` changes rows (`OnlyCommits`), and the cursor of a page splits what it showed from the rest
    (`CursorOf`).
  - `CorsStaleness`: `CacheInv` says that what a lookup or the cache knows of an origin is what the table says, unless a commit
    changed it after the time the knowledge is stamped with, which is the time its lookup began.
  - `LlmsBillTheirCreator`: `LlmInv` is about versions of rows, which are committed, written by an open transaction or held by
    a request that has passed its checks. All versions of a profile or connection have one creator, and a version of a profile
    has the creator of the connection that it names (`Consistent`); every profile a transaction sees has its connection
    (`Supported`); and no two transactions write a profile and delete its connection (`NotPulled`), which the waiting on
    foreign keys gives. A connection's id must not be drawn again while somebody still names it: see `FreeIds`.
  - `ReferencesHold`: `KeyInv` says that foreign keys hold in the database and in what every open transaction sees, that no
    two transactions write the same row (`Exclusive`) and that none deletes a row another one's row points at (`Unpulled`).
    The last two are what waiting gives (`NotBlocked`); without them a commit could take a parent away under a child that
    was checked against it (`CommitReferenced`). A delete leaves nothing dangling: cascades lead from lower tables of the
    schema to higher ones, and there are four levels (`Level`).
  - `AloneAnswers`: `AloneInv` says of a request that nobody overlaps what its routes have checked and still holds when its
    statement runs (`Undisturbed`): its caller is there, the row it updates is there, and the parents that a route without a
    status for foreign keys looked up are there. Then no statement is stale, a key collides or a parent is missing only where
    the route has a status for it (`NoCollision`, `NoDangling`), and RESTRICT stops only deletes that are listed
    (`NoRestriction`, from the schema).
  - `EffectsGranted` and `PatchesKeep`: `EffectInv` gives every row in an open transaction a reason (`Justified`): it was
    inserted under CREATE, changed under UPDATE in columns that were asked for, deleted under DELETE or by a cascade from a
    row the transaction removed, or it is attached to the resource. The reasons are checked on a row that may be old when the
    statement runs; they carry over because the filters of the managed tables look only at the creator, and all copies of
    a row, committed, written, loaded or about to be created, have the same one (`OneCreator`), which needs that nobody
    else knows the id of a row under creation (`Fresh1`). Others' commits leave reasons alone by `Exclusive`. At the commit
    (`CommitEffects`) a parent that was removed is a row that vanishes, by `ReferencesHold`.
* Sandboxes_proofs, for any number of requests, loops, configs, snapshots and sandboxes, on both providers.
  - `SandboxInvariant`: `SInv == TypeInv /\ BoxInv /\ ThreadInv /\ PairInv`. A thread acts on what it was told by an earlier
    call, so the invariant says for each step what of that still holds (`Fits`): the volume of a creation is there and its
    container is not, a snapshot whose row is about to be committed is whole, a candidate of a claim that nobody has written
    since (`mark`) is still warm. None of it survives the other threads without `Apart`: nobody else has the id of a sandbox
    that is being created, as deletions, sweeps and claims take theirs from what exists; nor a snapshot that is being
    captured. There is a lemma per action; most steps go through `QuietStep` (no sandbox is written) or `TouchStep` (one is).
  - `StorageFirst` and `ArtifactsFirst` follow at once. `ClaimsAreExclusive` uses `Effect`, which says of every step that it
    leaves a sandbox alone, removes it, keeps its owner, starts it or claims it. A Kubernetes claim is exclusive by `Fits`,
    whatever processes there are. A Docker claim needs `LockInv`, one holder of the claim lock and nothing
    taken from its list behind its back, which holds if all requests belong to one process (`OneProcess`, as in the run; the loops take no lock and may run anywhere):
    the lock is an `asyncio.Lock` of the service object.
  - `OverfillBounded`, for any finite number of loops: `PoolInv` counts the pool together with the sandboxes that loops are still
    going to add by their own counts (`Slots`), and that sum is at most loops times target. A loop takes its slots when
    it counts, and gives one up for each sandbox it adds (`CountInv`: it creates only while its count is below its goal);
    claims and deletions only make the pool smaller.

Only model-checked: liveness (`ListedLateTasksEnd`, `DrainCompletes`, `RequestsEnd`), which TLAPS cannot prove under
fairness, and the three properties of Access (`FiltersAgree`, `GrantsAreExact`, `PruneDropsOrphans`). Its filters and
policies are trees of any depth: what the recursive operators make of them takes an induction over data, and the next-state
relation reaches them, which keeps the module, its pruning task included, out of TLAPS's reach.

## Disagreements between code and documentation

PROJECT.json quotes the sentences. Where a run is named, TLC ends it with a counterexample.

1. `job_runner_commits`: the runner never commits. Claims, recoveries and completions are rolled
   back. Consequences, visible in the same model: a pending job is started again by every sweep;
   `max_concurrent_jobs` bounds one sweep, not the runner, as the count never sees a RUNNING row;
   jobs beyond the first `max_concurrent_jobs` ids never start.
2. `job_runner_shutdown`: `aclose` is documented to cancel all live tasks. A job that is started while an earlier task of it
   runs replaces that task's entry in `_live`, and the task that ends first removes the entry of the other: shutdown leaves a body
   running that nobody cancels.
3. `warm_pool_fills`: the refresh names templates by their row id, everything else by their image tag; the pool stays
   empty.

The following are stated in the modules as definitions that say so; TLC refutes each, and no configuration lists them.

4. `FederatedSession!RecheckSkipsRefreshedRows`: the recheck after the lock reads attributes loaded before the wait, so two
   requests that find the session expired both call the IdP. The second uses the token the first
   one stored, so nothing is lost (`NoReplay` holds), but the call is not saved.
5. `FederatedSession!ImminentCookiesAreRefreshed`: in the imminent window the recheck skips the refresh that the dependency
   asked for, so a cookie is never refreshed before it dies.
6. `FederatedSession!RevokedAccessIsNotRefreshed`: revoking an access token marks its row expired, which causes the refresh
   it should prevent.
7. `OAuthSession!LazyRefreshIsStored`: the secret-value routes, which refresh provider tokens lazily, do not commit: the
   refreshed tokens are rolled back. With a provider that rotates, the row is left with a dead token.
8. `OAuthSession!ReplacedTokenNotPresented`: a refresh that waited for the row lock rechecks, and presents, the tokens it
   loaded before the wait; the second of two concurrent refreshes shows the provider a replaced token.
9. `UsageMetering!DefaultRowsAreAllocated`: a row in DEFAULT keeps its day from being allocated, and the sweep from
   dropping what has expired.
10. `EventLog!BatchesAreAtomic`: the bodies of a batch that failed stay in the store, and backfill makes rows of them.
11. `CorsCache!CorsChangesAreImmediate`: the cache is dropped before the commit, and can be filled with the old origins
    in between.
12. `Access!DenialsAreRefused`: two roles that each deny pass the guard that one role does not.
13. `Access!PruneRemovesOnlyOrphans`: pruning writes back the whole policy it read, and a role update in between is lost.

Read in the code while modelling it, and part of the models, without a definition of their own:

14. `claim_pending` documents SKIP LOCKED and does not use it; a claim waits for another one.
15. `tolerate_invalid` has no effect: both of its values end in a secret that is silently omitted.
16. A pool whose `num_warm` was set to 0 is left as it is (`RefreshCount`).
17. The rename by which Docker claims a container is no compare-and-swap across processes (`DockerRename`).
18. Docker containers are never stamped with the time of their pause (`DockerSweep`).
19. The role of a restricted key is reduced without the groups of its user (`NarrowWithKeyRole`).
20. An API key's restriction cannot be cleared (`ApiKeyPatch`).
21. An update of an MCP config rewrites its encrypted columns from what it loaded (`RewritingTables`).
22. Aggregation takes the minute before now, not the first unprocessed one (`AggregateReads`).
23. The duration of an MCP call is measured after its answer (formatting, not in a model).

Others met while reading, without a run of their own: `exchange_refresh_token` documents a skip when
another process refreshed already (`auth_service.py:401-404`) and always refreshes; `complete` documents that
zero rows mean a terminal row (`job_service.py:323-326`), but a row claimed again by another runner gives zero
as well; `started_at` is documented as never written mid-run (`job_models.py:210`) and is, when a client
PATCHes a running job to PENDING and a runner claims it; a revocation that races a deletion answers 500, not
200, since the ORM finds no row to write; an access token lives at least one second although its grant may
have ended (`auth_service.py:1692-1694`); after a lock timeout the cookie dependency lets the request proceed
(`auth_dependencies.py:227-235`), in a transaction that PostgreSQL has aborted; an authorization code can be
exchanged more than once while it lives. The result of the pod that captures a Kubernetes snapshot is not read, and the
row is committed anyway (`k8s_sandbox_service.py:693-706`); `session_api_key` of a Kubernetes sandbox is always null
(1286); deleting a sandbox config leaves its system API key (`sandbox_config_service.py:134-146` creates it); deleting a user
or a config that RESTRICT keeps alive, or naming a role that does not exist in an API key, answers 500 (`Unclassified`);
concurrent updates of the redirect URIs of a client leave the union of both lists; one envelope whose conversation is gone
fails a whole backfill; a crash between the commit of a partition drop and the cleanup of the store leaves bodies that
backfill brings back; a delayed metadata call creates a deleted conversation again.

## What is not modelled

Cryptography and encodings (JWE, PKCE, password hashes) are taken as opaque values. User provisioning at login and
discovery are single inserts or reads. The evaluation of a feature flag for a user is three reads with nothing to
coordinate. Search clauses that clients write (`field__op=value`) are left out of Access, whose filters are the ones
policies reduce to. The sandbox and MCP proxies forward bytes; the LLM routers translate requests and streams; both are
modelled only as callers that record usage. Metrics of a conversation are in EventLog without a property: a delayed or
retried webhook overwrites newer values, and the code has no means against it. Kubernetes template ConfigMaps are read
only. Settings, logging, seed scripts, development routes and the repository's automation keep no state of the service. In
JobService and OAuthSession filters admit every row (the runner's is ALL). The Quint specifications in `src/specs` are
the repository's own and were used as documentation only.

## Plan

Done: the components of the table above, each with a run; JobService, JobRunner, FederatedSession and OAuthSession with
their refinements, UsageMetering, EventLog, Resources, CorsCache and Sandboxes with proofs of every safety property that
the runs check.

1. Access: the pruning task, which looks into no tree, in a module of its own below the request, so that `PruneDropsOrphans`
   can be proved; `FiltersAgree` and `GrantsAreExact` stay with TLC.
2. Hazards without a property: the transaction that goes on after a lock timeout, the minutes that a late aggregation
   skips, the usage row that rolls its session back, and webhook calls that arrive twice or late. The code
   has no means against them, so that a model would only restate them.
