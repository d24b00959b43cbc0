------------------------------ MODULE JobRunner ------------------------------
(***************************************************************************)
(* The background job runner of one process (job/job_runner_service.py)    *)
(* and the lifespan loop that drives it (app.py).  JobService describes    *)
(* the statements the runner sends; this module describes what the runner  *)
(* does around them on the event loop: its sweeps, the asyncio tasks that  *)
(* run job bodies, the _live table, and the drain at shutdown.             *)
(*                                                                         *)
(* Every phase opens a session with "async with factory() as session".     *)
(* Neither the phases nor the JobService methods they call commit, so the  *)
(* session is rolled back when the block ends (SessionEnds).               *)
(***************************************************************************)
EXTENDS Integers, FiniteSets

CONSTANTS
    Jobs,               \* job ids, in the order of order_by(Job.id)
    Tasks,              \* bound: asyncio tasks that can exist at one time
    MaxConcurrentJobs,  \* config job_runner.max_concurrent_jobs
    None

ASSUME JobsAssumption == Jobs \subseteq Nat /\ None \notin Tasks
ASSUME LimitAssumption == MaxConcurrentJobs \in Nat \ {0}

VARIABLES
    rows,     \* rows[j]: the committed row of job j
    task,     \* task[t]: an asyncio.Task running _run_job
    live,     \* live[j]: the task _live holds for job j
    sweep,    \* where the sweep loop is
    chosen,   \* the ids the claim phase selected
    process,  \* "running", "stopping" in lifespan, "draining" in aclose, "closed"
    awaited   \* the tasks aclose found in _live, which it cancels and awaits

vars == <<rows, task, live, sweep, chosen, process, awaited>>

Statuses == {"ABSENT", "PENDING", "SUSPENDED", "RUNNING", "COMPLETED", "ERROR"}

\* A task is "new" when it is created and has not run yet, in its "body" inside
\* details(), "completing" inside the session that calls JobService.complete, and
\* "done" until the event loop runs its done callback.
NoTask == [state |-> "none", job |-> None, late |-> FALSE, cancelled |-> FALSE]

-----------------------------------------------------------------------------
Unfinished == {t \in Tasks : task[t].state \notin {"none", "done"}}
Listed     == {t \in Tasks : \E j \in Jobs : live[j] = t}
WithStatus(status) == {j \in Jobs : rows[j].status = status}
FirstById(S, n)    == {j \in S : Cardinality({k \in S : k < j}) < n}
FreeTasks == {t \in Tasks : task[t].state = "none"}   \* what the bound Tasks leaves

\* task.cancel() of each task of S; on a task that is done it does nothing.
Cancelled(S) ==
    [t \in Tasks |-> IF t \in S \intersect Unfinished
                     THEN [task[t] EXCEPT !.cancelled = TRUE] ELSE task[t]]

\* The block "async with factory() as session" ends: the session was not
\* committed, and closing it discards what it wrote.
SessionEnds(written) == rows' = rows

RunningHere == Cardinality({j \in WithStatus("RUNNING") : rows[j].mine})

Init ==
    /\ rows = [j \in Jobs |-> [status |-> "ABSENT", mine |-> FALSE]]
    /\ task = [t \in Tasks |-> NoTask]
    /\ live = [j \in Jobs |-> None]
    /\ sweep = "sleeping"
    /\ chosen = {}
    /\ process = "running"
    /\ awaited = {}

\* A client request, committed by job_router: create, PATCH of the status to a
\* client status, or delete.
ClientWrites(j, status) ==
    /\ rows[j].status # status
    /\ rows' = [rows EXCEPT ![j].status = status]
    /\ UNCHANGED <<task, live, sweep, chosen, process, awaited>>

\* Mutant of RecoverAndCancel: overdue live tasks are not cancelled.
RecoverOnly ==
    /\ sweep = "sleeping" /\ sweep' = "claiming"
    /\ UNCHANGED <<rows, task, live, chosen, process, awaited>>

\* sweep_once: the recovery phase; when its session is closed the overdue live
\* tasks are cancelled without another await.  A recovery that fails
\* (SweepFails) skips the cancellation.
RecoverAndCancel ==
    /\ sweep = "sleeping"
    /\ SessionEnds([j \in Jobs |-> IF rows[j].status = "RUNNING"
                                   THEN [rows[j] EXCEPT !.status = "ERROR"] ELSE rows[j]])
    /\ task' = Cancelled({t \in Listed : task[t].late})
    /\ sweep' = "claiming"
    /\ UNCHANGED <<live, chosen, process, awaited>>

\* _claim_and_run up to the SELECT of claim_pending.  FreeTasks only keeps the
\* model within its bound.
SelectPending ==
    /\ sweep = "claiming"
    /\ LET capacity == MaxConcurrentJobs - RunningHere
           free     == Cardinality(FreeTasks)
           ids      == FirstById(WithStatus("PENDING"),
                                 IF capacity < free THEN capacity ELSE free)
       IN  /\ chosen' = ids
           /\ sweep' = IF ids = {} THEN "sleeping" ELSE "updating"
    /\ UNCHANGED <<rows, task, live, process, awaited>>

\* The tasks _start_run creates for the claimed jobs, one each; a job that
\* already has an entry in _live gets a new one.
StartRuns(claimed) ==
    \E assign \in [claimed -> FreeTasks] :
        /\ \A j, k \in claimed : assign[j] = assign[k] => j = k
        /\ task' = [t \in Tasks |->
                      IF \E j \in claimed : assign[j] = t
                      THEN [state |-> "new", job |-> CHOOSE j \in claimed : assign[j] = t,
                            late |-> FALSE, cancelled |-> FALSE]
                      ELSE task[t]]
        /\ live' = [j \in Jobs |-> IF j \in claimed THEN assign[j] ELSE live[j]]

\* The UPDATE of claim_pending with its status = PENDING re-check, the end of
\* the claim session, and _start_run for what was claimed.
ClaimAndRun ==
    /\ sweep = "updating"
    /\ LET claimed == chosen \intersect WithStatus("PENDING")
       IN  /\ SessionEnds([j \in Jobs |-> IF j \in claimed
                                          THEN [status |-> "RUNNING", mine |-> TRUE]
                                          ELSE rows[j]])
           /\ StartRuns(claimed)
    /\ sweep' = "sleeping" /\ chosen' = {}
    /\ UNCHANGED <<process, awaited>>

\* A phase raises: _background_sweep logs it and sleeps until the next sweep.
SweepFails ==
    /\ sweep \in {"sleeping", "claiming", "updating"}
    /\ sweep' = "sleeping" /\ chosen' = {}
    /\ UNCHANGED <<rows, task, live, process, awaited>>

-----------------------------------------------------------------------------
\* The coroutine of a task ends; its done callback is scheduled (call_soon).
Finish(t) == task' = [task EXCEPT ![t].state = "done", ![t].cancelled = FALSE]

\* The task's first step; a task cancelled before it never calls the body.
BodyStarts(t) ==
    /\ task[t].state = "new"
    /\ IF task[t].cancelled THEN Finish(t)
                            ELSE task' = [task EXCEPT ![t].state = "body"]
    /\ UNCHANGED <<rows, live, sweep, chosen, process, awaited>>

\* The body returns or raises, or is cancelled: "except BaseException" swallows
\* the CancelledError, and the task goes on to the completion.
BodyEnds(t) ==
    /\ task[t].state = "body"
    /\ task' = [task EXCEPT ![t].state = "completing", ![t].cancelled = FALSE]
    /\ UNCHANGED <<rows, live, sweep, chosen, process, awaited>>

\* The completion session ends, with the conditional UPDATE or with an
\* exception (a database error, a second cancellation).
CompletionEnds(t) ==
    /\ task[t].state = "completing"
    /\ \E status \in {"COMPLETED", "ERROR"} :
          LET j == task[t].job
          IN  SessionEnds(IF rows[j].status = "RUNNING" /\ rows[j].mine
                          THEN [rows EXCEPT ![j].status = status] ELSE rows)
    /\ Finish(t)
    /\ UNCHANGED <<live, sweep, chosen, process, awaited>>

\* Mutant of OnDone: the callback leaves _live alone.
OnDoneListed(t) ==
    /\ task[t].state = "done"
    /\ task' = [task EXCEPT ![t] = NoTask]
    /\ UNCHANGED <<rows, live, sweep, chosen, process, awaited>>

\* _on_done, in a later step of the event loop: pops whatever entry _live has
\* for the job of the task, that of another task included.
OnDone(t) ==
    /\ task[t].state = "done"
    /\ task' = [task EXCEPT ![t] = NoTask]
    /\ live' = [live EXCEPT ![task[t].job] = None]
    /\ UNCHANGED <<rows, sweep, chosen, process, awaited>>

\* The run time of a task passes the max_seconds_for_run of its job.
BecomesLate(t) ==
    /\ t \in Unfinished /\ ~task[t].late
    /\ task' = [task EXCEPT ![t].late = TRUE]
    /\ UNCHANGED <<rows, live, sweep, chosen, process, awaited>>

\* lifespan: the sweep task is cancelled at its current await, and awaited.
StopSweep ==
    /\ process = "running"
    /\ process' = "stopping" /\ sweep' = "stopped" /\ chosen' = {}
    /\ UNCHANGED <<rows, task, live, awaited>>

\* Mutant of Aclose: aclose awaits the live tasks without cancelling them.
AcloseWithoutCancel ==
    /\ process = "stopping" /\ process' = "draining" /\ awaited' = Listed
    /\ UNCHANGED <<rows, task, live, sweep, chosen>>

\* aclose cancels the tasks it finds in _live, without an await, ...
Aclose ==
    /\ process = "stopping"
    /\ process' = "draining"
    /\ task' = Cancelled(Listed)
    /\ awaited' = Listed
    /\ UNCHANGED <<rows, live, sweep, chosen>>

\* ... awaits these one after the other, and clears _live.
Drained ==
    /\ process = "draining" /\ awaited \intersect Unfinished = {}
    /\ process' = "closed" /\ live' = [j \in Jobs |-> None]
    /\ UNCHANGED <<rows, task, sweep, chosen, awaited>>

Sweep == RecoverAndCancel \/ SelectPending \/ ClaimAndRun

Next ==
    \/ \E j \in Jobs, status \in {"ABSENT", "PENDING", "SUSPENDED"} :
           ClientWrites(j, status)
    \/ Sweep \/ SweepFails
    \/ \E t \in Tasks : \/ BodyStarts(t) \/ BodyEnds(t) \/ CompletionEnds(t)
                        \/ OnDone(t) \/ BecomesLate(t)
    \/ StopSweep \/ Aclose \/ Drained

\* The event loop runs what is ready; a body reacts to its cancellation; sweeps
\* do not fail forever.  A body that is not cancelled may run for ever.
Fairness ==
    /\ SF_vars(RecoverAndCancel) /\ SF_vars(SelectPending) /\ SF_vars(ClaimAndRun)
    /\ \A t \in Tasks : /\ WF_vars(BodyStarts(t)) /\ WF_vars(CompletionEnds(t))
                        /\ WF_vars(OnDone(t))
                        /\ WF_vars(task[t].cancelled /\ BodyEnds(t))
    /\ WF_vars(Aclose) /\ WF_vars(Drained)

Spec == Init /\ [][Next]_vars /\ Fairness

-----------------------------------------------------------------------------
\* An entry of _live never outlives the done callback of its task, and is that of
\* its own job, whatever order runs of the same job start and finish in: what a
\* sweep or aclose finds there is a task that is running or has just ended.
LiveEntriesAreCurrent ==
    \A j \in Jobs : live[j] # None =>
        task[live[j]].state # "none" /\ task[live[j]].job = j

\* aclose waits for no body that nobody has cancelled: a task it found in _live
\* and that has not reached its completion was cancelled, although tasks start,
\* end and have their entries taken by other runs until the moment it looks.
DrainWaitsForCancelled ==
    process = "draining" =>
        \A t \in awaited : task[t].state \in {"new", "body"} => task[t].cancelled

\* A task that stays in _live after its time is up is cancelled in the end,
\* unless the process shuts down (which cancels it too).
ListedLateTasksEnd ==
    \A t \in Tasks : (task[t].late /\ t \in Listed) ~> ~(task[t].late /\ t \in Listed)

\* The drain of aclose ends, although each task it waits for first goes through
\* its completion session.
DrainCompletes == (process = "draining") ~> (process = "closed")

\* aclose's docstring: "Cancel all live in-memory tasks on shutdown".  After it no
\* job body is left that nobody asked to stop.
ShutdownCancelsAll ==
    [][process' = "draining" /\ process # "draining"
          => \A t \in Unfinished : task'[t].cancelled]_vars

\* sweep_once's docstring: each phase uses its own session, "opened and
\* committed independently".  What the claim phase wrote is then in the table.
ClaimsAreCommitted ==
    [][\A t \in Tasks : task[t].state = "none" /\ task'[t].state # "none"
          => rows'[task'[t].job].status = "RUNNING"]_vars
=============================================================================
