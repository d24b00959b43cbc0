----------------------------- MODULE JobService -----------------------------
(***************************************************************************)
(* The durable job table and the transactions its service runs on it       *)
(* (job/job_service.py), with the callers that commit them: client         *)
(* requests (job/job_router.py) and job runners.                           *)
(*                                                                         *)
(* PostgreSQL runs the sessions at READ COMMITTED.  A SELECT sees the rows *)
(* committed so far and the session's own writes; an UPDATE or DELETE      *)
(* locks one row after the other, waits while another session holds the    *)
(* row, and evaluates its WHERE again on the row it finds once it has the  *)
(* lock.  JobService never commits (except in ensure_partitions): a        *)
(* session ends with the caller's commit, or is closed and rolled back.    *)
(* The runner of this repository closes all its sessions without a commit  *)
(* (module JobRunner) and still runs what it claimed (CloseClaim); the     *)
(* Commit of a runner's session is what the docstrings of job_service.py   *)
(* and job_runner_service.py say of their caller.                          *)
(***************************************************************************)
EXTENDS Integers, FiniteSets

CONSTANTS
    Jobs,           \* job ids, ordered as "order_by(Job.id)" orders them
    Runners,        \* runner ids; a restarted process draws a new one
    Sessions,       \* database sessions that may be open at the same time
    Client,         \* the actor of a session that serves a client request
    None,           \* no runner, no actor, no uncommitted write
    NotCreated,     \* the id is not used yet
    Deleted,        \* the row was deleted; its id (a UUID) is not used again
    Keep,           \* the PATCH leaves this column alone
    MaxConcurrentJobs,  \* config job_runner.max_concurrent_jobs
    MaxSecondsChoices,  \* values of max_seconds_for_run that clients send
    RunNowChoices,      \* values of run_now that create_runner_owned gets
    MaxTime             \* bound on the clock

ASSUME JobsAssumption == Jobs \subseteq Nat
ASSUME ActorsAssumption ==
    Client \notin Runners /\ None \notin Runners /\ Client # None
ASSUME BoundsAssumption ==
    /\ MaxConcurrentJobs \in Nat /\ MaxTime \in Nat
    /\ MaxSecondsChoices \subseteq Nat /\ Keep \notin MaxSecondsChoices
    /\ RunNowChoices \subseteq BOOLEAN

VARIABLES
    rows,        \* rows[j]: the committed version of job j
    uncommitted, \* uncommitted[j]: the version a session wrote and its lock
    tx,          \* tx[s]: the statement session s is in
    runs,        \* job bodies in progress, with the claim each belongs to
    dead,        \* runners whose process crashed
    now

vars == <<rows, uncommitted, tx, runs, dead, now>>

-----------------------------------------------------------------------------
ClientStatuses   == {"PENDING", "SUSPENDED"}
TerminalStatuses == {"COMPLETED", "ERROR"}
Statuses         == ClientStatuses \union TerminalStatuses \union {"RUNNING"}

Time == 0..MaxTime
Never == -1      \* started_at is NULL

Row == [status : Statuses, runner : Runners \union {None},
        started : Time \union {Never}, max : MaxSecondsChoices]

Actors == Runners \union {Client, None}
Ops    == {"none", "create", "create_running", "patch", "delete", "claim",
           "complete", "recover"}

NoTx == [op |-> "none", actor |-> None, at |-> 0, todo |-> {},
         status |-> Keep, max |-> Keep]

Tx == [op : Ops, actor : Actors, at : Time, todo : SUBSET Jobs,
       status : Statuses \union {Keep}, max : MaxSecondsChoices \union {Keep}]

Run == [job : Jobs, runner : Runners, started : Time]

\* The types of the table (job_models.Job), of the open transactions and of the
\* job bodies in progress.
TypeOK ==
    /\ rows \in [Jobs -> Row \union {NotCreated, Deleted}]
    /\ uncommitted \in [Jobs -> [by : Sessions, row : Row \union {Deleted}]
                                  \union {None}]
    /\ tx \in [Sessions -> Tx]
    /\ runs \subseteq Run
    /\ dead \subseteq Runners
    /\ now \in Time

ASSUME NullsAssumption ==
    /\ NotCreated # Deleted /\ {NotCreated, Deleted} \intersect Row = {}
    /\ None \notin [by : Sessions, row : Row \union {Deleted}]

-----------------------------------------------------------------------------
HasRow(j)    == rows[j] \notin {NotCreated, Deleted}
WrittenBy(s) == {j \in Jobs : uncommitted[j] # None /\ uncommitted[j].by = s}

\* What a SELECT of session s sees of job j.
Visible(s, j) == IF j \in WrittenBy(s) THEN uncommitted[j].row ELSE rows[j]

VisibleIn(s, statuses) ==
    {j \in Jobs : /\ Visible(s, j) \notin {NotCreated, Deleted}
                  /\ Visible(s, j).status \in statuses}

\* ... ORDER BY id LIMIT n
FirstById(S, n) == {j \in S : Cardinality({k \in S : k < j}) < n}

\* Mutant of Overdue: <= for <, so that a job is given up a tick early.
OverdueEarly(row, at) ==
    row.status = "RUNNING" /\ row.started # Never /\ row.started <= at - row.max

Overdue(row, at) ==
    /\ row.status = "RUNNING"
    /\ row.started # Never
    /\ row.started < at - row.max

\* A session may begin a statement when it is unused, or when it belongs to a
\* client request whose statements so far are finished: POST /jobs/batch
\* applies its operations one after the other and commits once.
Ready(s, actor) ==
    \/ tx[s] = NoTx
    \/ actor = Client /\ tx[s].actor = Client /\ tx[s].todo = {}

\* The statements that take datetime.now() when they start keep it in "at".
Begin(s, op, actor, todo, status, max) ==
    tx' = [tx EXCEPT ![s] =
             [op |-> op, actor |-> actor,
              at |-> IF op \in {"claim", "create_running", "recover"} THEN now ELSE 0,
              todo |-> todo, status |-> status, max |-> max]]

\* Mutant of CountRunning: what the runner runs already is not counted.
CountNothing(s, r) == 0

CountRunning(s, r) ==
    Cardinality({j \in VisibleIn(s, {"RUNNING"}) : Visible(s, j).runner = r})

-----------------------------------------------------------------------------
Init ==
    /\ rows = [j \in Jobs |-> NotCreated]
    /\ uncommitted = [j \in Jobs |-> None]
    /\ tx = [s \in Sessions |-> NoTx]
    /\ runs = {}
    /\ dead = {}
    /\ now = 0

Insert(s, j, row) ==
    /\ rows[j] = NotCreated /\ uncommitted[j] = None
    /\ uncommitted' = [uncommitted EXCEPT ![j] = [by |-> s, row |-> row]]

\* JobService.create: the INSERT of a client's job.
Create(s, j, status, max) ==
    /\ Ready(s, Client)
    /\ Insert(s, j, [status |-> status, runner |-> None, started |-> Never,
                     max |-> max])
    /\ Begin(s, "create", Client, {}, Keep, Keep)
    /\ UNCHANGED <<rows, runs, dead, now>>

\* JobService.create_runner_owned: claim on insert when run_now.
CreateRunnerOwned(s, r, j, runNow, max) ==
    /\ r \notin dead /\ tx[s] = NoTx
    /\ Insert(s, j, [status  |-> IF runNow THEN "RUNNING" ELSE "PENDING",
                     runner  |-> r,
                     started |-> IF runNow THEN now ELSE Never,
                     max     |-> max])
    /\ Begin(s, IF runNow THEN "create_running" ELSE "create", r, {}, Keep, Keep)
    /\ UNCHANGED <<rows, runs, dead, now>>

\* JobService.update up to its flush: the row is read without a lock, and only
\* the columns whose value differs from the one read are written back.
Update(s, j, status, max) ==
    /\ Ready(s, Client)
    /\ Visible(s, j) \notin {NotCreated, Deleted}
    /\ LET row  == Visible(s, j)
           col1 == IF status = row.status THEN Keep ELSE status
           col2 == IF max = row.max THEN Keep ELSE max
       IN  Begin(s, "patch", Client,
                 IF col1 = Keep /\ col2 = Keep THEN {} ELSE {j}, col1, col2)
    /\ UNCHANGED <<rows, uncommitted, runs, dead, now>>

\* JobService.delete up to its flush.
Delete(s, j) ==
    /\ Ready(s, Client)
    /\ Visible(s, j) \notin {NotCreated, Deleted}
    /\ Begin(s, "delete", Client, {j}, Keep, Keep)
    /\ UNCHANGED <<rows, uncommitted, runs, dead, now>>

\* count_running_for_runner and the first statement of claim_pending: the
\* capacity left and the ids of the first PENDING rows.  A runner's sweeps are
\* sequential, so it has one claiming session at a time.
ClaimPending(s, r) ==
    /\ r \notin dead /\ tx[s] = NoTx
    /\ \A t \in Sessions : ~(tx[t].actor = r /\ tx[t].op = "claim")
    /\ LET capacity == MaxConcurrentJobs - CountRunning(s, r)
           ids      == FirstById(VisibleIn(s, {"PENDING"}), capacity)
       IN  /\ capacity > 0 /\ ids # {}
           /\ Begin(s, "claim", r, ids, Keep, Keep)
    /\ UNCHANGED <<rows, uncommitted, runs, dead, now>>

\* JobService.complete, called when the body of a run is over; JobRun and the
\* exception path decide between COMPLETED and ERROR.
Complete(s, run, status) ==
    /\ run \in runs /\ run.runner \notin dead /\ tx[s] = NoTx
    /\ runs' = runs \ {run}
    /\ Begin(s, "complete", run.runner, {run.job}, status, Keep)
    /\ UNCHANGED <<rows, uncommitted, dead, now>>

\* JobService.recover_dead_runners: the rows the UPDATE finds at its start.
RecoverDeadRunners(s, r) ==
    /\ r \notin dead /\ tx[s] = NoTx
    /\ LET ids == {j \in VisibleIn(s, Statuses) : Overdue(Visible(s, j), now)}
       IN  ids # {} /\ Begin(s, "recover", r, ids, Keep, Keep)
    /\ UNCHANGED <<rows, uncommitted, runs, dead, now>>

-----------------------------------------------------------------------------
\* Mutants of CompleteMatches: one of its two conditions is dropped.
CompleteAnyStatus(t, row) == row.runner = t.actor
CompleteAnyRunner(t, row) == row.status = "RUNNING"

\* The WHERE clause of each statement, evaluated on the row once it is locked.
ClaimMatches(row)       == row.status = "PENDING"
CompleteMatches(t, row) == row.runner = t.actor /\ row.status = "RUNNING"
RecoverMatches(t, row)  == Overdue(row, t.at)

\* The values each statement writes.
ClaimWrites(t, row) == [row EXCEPT !.runner = t.actor, !.status = "RUNNING",
                                   !.started = t.at]
\* Mutant of PatchWrites: columns the PATCH does not name are written too.
PatchWritesAll(t, row) == [row EXCEPT !.status = t.status, !.max = t.max]

PatchWrites(t, row) ==
    [row EXCEPT !.status = IF t.status = Keep THEN @ ELSE t.status,
                !.max    = IF t.max = Keep THEN @ ELSE t.max]

\* One row of the UPDATE or DELETE of session s: it waits while another
\* session holds the row, and passes over a row its WHERE no longer matches.
Visit(s, j, op, matches, version) ==
    /\ tx[s].op = op /\ j \in tx[s].todo
    /\ uncommitted[j] = None \/ j \in WrittenBy(s)
    /\ uncommitted' = IF Visible(s, j) # Deleted /\ matches
                      THEN [uncommitted EXCEPT ![j] = [by |-> s, row |-> version]]
                      ELSE uncommitted
    /\ tx' = [tx EXCEPT ![s].todo = @ \ {j}]
    /\ UNCHANGED <<rows, runs, dead, now>>

\* Mutant of ClaimRow: the UPDATE takes its ids without "status = PENDING".
ClaimRowUnchecked(s, j) ==
    Visit(s, j, "claim", TRUE, ClaimWrites(tx[s], Visible(s, j)))

ClaimRow(s, j) ==
    LET row == Visible(s, j)
    IN  Visit(s, j, "claim", ClaimMatches(row), ClaimWrites(tx[s], row))

CompleteRow(s, j) ==
    LET row == Visible(s, j)
    IN  Visit(s, j, "complete", CompleteMatches(tx[s], row),
              [row EXCEPT !.status = tx[s].status])

RecoverRow(s, j) ==
    LET row == Visible(s, j)
    IN  Visit(s, j, "recover", RecoverMatches(tx[s], row),
              [row EXCEPT !.status = "ERROR"])

\* The UPDATE of a PATCH whose row is gone raises StaleDataError: only the
\* rollback is left for it.
PatchRow(s, j) ==
    LET row == Visible(s, j)
    IN  row # Deleted /\ Visit(s, j, "patch", TRUE, PatchWrites(tx[s], row))

DeleteRow(s, j) == Visit(s, j, "delete", TRUE, Deleted)

\* The bodies a runner has started for the jobs session s claimed.
StartBodies(s) ==
    runs' = runs \union {[job |-> j, runner |-> tx[s].actor, started |-> tx[s].at] :
                            j \in WrittenBy(s)}

\* The locks session s holds are released and it may be used again.
Release(s) ==
    /\ uncommitted' = [j \in Jobs |-> IF j \in WrittenBy(s) THEN None
                                      ELSE uncommitted[j]]
    /\ tx' = [tx EXCEPT ![s] = NoTx]

\* The caller commits; a runner then starts the jobs it claimed.
Commit(s) ==
    /\ tx[s] # NoTx /\ tx[s].todo = {}
    /\ rows' = [j \in Jobs |-> Visible(s, j)]
    /\ Release(s)
    /\ IF tx[s].op \in {"claim", "create_running"} THEN StartBodies(s)
                                                    ELSE UNCHANGED runs
    /\ UNCHANGED <<dead, now>>

\* _claim_and_run: the block "async with factory() as session" ends after
\* claim_pending returned.  The claim is not committed, the rows keep their
\* status, and the bodies are started all the same.
CloseClaim(s) ==
    /\ tx[s].op = "claim" /\ tx[s].todo = {}
    /\ Release(s)
    /\ StartBodies(s)
    /\ UNCHANGED <<rows, dead, now>>

\* The session is closed without a commit: the end of a runner's recovery or
\* completion session, a refused or failing operation of a batch, a PATCH whose
\* row is gone (StaleDataError), a deadlock PostgreSQL breaks, a lost connection.
Rollback(s) ==
    /\ tx[s] # NoTx
    /\ Release(s)
    /\ UNCHANGED <<rows, runs, dead, now>>

\* A runner's process dies: its bodies stop, its sessions are rolled back.
Crash(r) ==
    LET its == {s \in Sessions : tx[s].actor = r}
    IN  /\ r \notin dead
        /\ dead' = dead \union {r}
        /\ runs' = {run \in runs : run.runner # r}
        /\ uncommitted' = [j \in Jobs |-> IF \E s \in its : j \in WrittenBy(s)
                                          THEN None ELSE uncommitted[j]]
        /\ tx' = [s \in Sessions |-> IF s \in its THEN NoTx ELSE tx[s]]
        /\ UNCHANGED <<rows, now>>

Tick ==
    /\ now < MaxTime
    /\ now' = now + 1
    /\ UNCHANGED <<rows, uncommitted, tx, runs, dead>>

ClientRequest(s) ==
    \E j \in Jobs :
        \/ \E status \in ClientStatuses, max \in MaxSecondsChoices :
               Create(s, j, status, max)
        \/ \E status \in ClientStatuses \union {Keep},
              max \in MaxSecondsChoices \union {Keep} : Update(s, j, status, max)
        \/ Delete(s, j)

RunnerCall(s) ==
    \/ \E r \in Runners : ClaimPending(s, r) \/ RecoverDeadRunners(s, r)
    \/ \E r \in Runners, j \in Jobs, runNow \in RunNowChoices,
          max \in MaxSecondsChoices : CreateRunnerOwned(s, r, j, runNow, max)
    \/ \E run \in runs, status \in TerminalStatuses : Complete(s, run, status)

Next ==
    \/ \E s \in Sessions :
           \/ ClientRequest(s) \/ RunnerCall(s)
           \/ \E j \in Jobs : \/ ClaimRow(s, j) \/ CompleteRow(s, j)
                             \/ RecoverRow(s, j) \/ PatchRow(s, j)
                             \/ DeleteRow(s, j)
           \/ Commit(s) \/ CloseClaim(s) \/ Rollback(s)
    \/ \E r \in Runners : Crash(r)
    \/ Tick

Spec == Init /\ [][Next]_vars

-----------------------------------------------------------------------------
(***************************************************************************)
(* Properties.  A row changes only when a session commits; the statement   *)
(* that wrote the version is still in tx before that step.                 *)
(***************************************************************************)
ChangedBy(j, op) ==
    /\ HasRow(j) /\ rows'[j] # rows[j]
    /\ uncommitted[j] # None /\ tx[uncommitted[j].by].op = op

\* Statement t may have written version over the committed row.
VersionMatches(row, version, t) ==
    /\ t.op # "none"
    /\ t.op = "claim" => /\ row \in Row /\ ClaimMatches(row)
                        /\ version = ClaimWrites(t, row)
    /\ t.op = "create_running" => /\ row = NotCreated
                                 /\ version.status = "RUNNING"
                                 /\ version.runner = t.actor
                                 /\ version.started = t.at
    /\ t.op = "complete" => row \in Row /\ CompleteMatches(t, row)
    /\ t.op = "recover"  => row \in Row /\ RecoverMatches(t, row)
    /\ t.op = "create"   => t.actor = Client \/ row = NotCreated

\* What an uncommitted version says of the committed row under its lock: the
\* claim found it PENDING, the completion found its own RUNNING claim, the
\* recovery found it overdue, and nobody has changed the row since.  This is
\* what makes the re-check of each WHERE still true when the session commits.
LockInv ==
    \A j \in Jobs : uncommitted[j] # None =>
        VersionMatches(rows[j], uncommitted[j].row, tx[uncommitted[j].by])

\* Which actor may be in which statement.
StatementOK(t) ==
    /\ t.op = "none" <=> t = NoTx
    /\ t.op \in {"patch", "delete"} => t.actor = Client
    /\ t.op \in {"claim", "create_running", "complete", "recover"}
          => t.actor \in Runners
    /\ t.op \in {"create", "create_running"} => t.todo = {}
    /\ t.op = "complete" => t.status \in TerminalStatuses

\* Clients patch and delete, runners claim, complete and recover; the rows a
\* statement has yet to visit existed when it began, and a runner's statement
\* does not visit a row twice.
StatementInv ==
    \A s \in Sessions :
        /\ StatementOK(tx[s])
        /\ tx[s].at <= now
        /\ \A j \in tx[s].todo : Visible(s, j) # NotCreated
        /\ tx[s].op \in {"claim", "complete", "recover"}
              => tx[s].todo \intersect WrittenBy(s) = {}

\* A body in progress belongs to a job that exists or existed.
RunInv == \A run \in runs : rows[run.job] # NotCreated

\* A claim only takes a row that is PENDING when the claim reaches the table:
\* two claims that selected the same id, a claim that races a PATCH to SUSPENDED
\* or a DELETE, and a claim beside a runner-owned insert take it at most once
\* (claim_pending's status = PENDING re-check after the lock wait).
ClaimsTakePendingRows ==
    [][\A j \in Jobs : ChangedBy(j, "claim") =>
          /\ rows[j].status = "PENDING"
          /\ rows'[j].runner = tx[uncommitted[j].by].actor]_vars

\* A COMPLETED or ERROR row is never overwritten by a runner: not by a late
\* completion after the recovery, not by the recovery after a completion, not
\* by a claim; only a client's PATCH or DELETE replaces it.
TerminalStatusKept ==
    [][\A j \in Jobs :
          HasRow(j) /\ rows[j].status \in TerminalStatuses /\ rows'[j] # rows[j]
          => uncommitted[j] # None /\ tx[uncommitted[j].by].actor = Client]_vars

\* A completion is written only on the claim of the runner that completes it:
\* after the row was recovered, queued again and claimed by another runner the
\* first runner's completion is abandoned.
CompletedByOwner ==
    [][\A j \in Jobs : ChangedBy(j, "complete") =>
          /\ rows[j].status = "RUNNING"
          /\ rows[j].runner = tx[uncommitted[j].by].actor]_vars

\* The recovery turns a row into ERROR only when its committed claim is older
\* than the max_seconds_for_run the row has at that moment, whatever PATCH,
\* completion or new claim raced the sweep.
RecoveryOnlyWhenOverdue ==
    [][\A j \in Jobs : ChangedBy(j, "recover") =>
          rows[j].status = "RUNNING" /\ rows[j].started + rows[j].max < now]_vars

\* count_running_for_runner and claim_pending keep a runner that claims through
\* sweeps within max_concurrent_jobs, although the count is not locked.
RunnerWithinCapacity ==
    \A r \in Runners :
        Cardinality({j \in Jobs : /\ HasRow(j) /\ rows[j].status = "RUNNING"
                                 /\ rows[j].runner = r}) <= MaxConcurrentJobs
=============================================================================
