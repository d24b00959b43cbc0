--------------------------- MODULE JobRunner_proofs --------------------------
(***************************************************************************)
(* Proofs about JobRunner, for any jobs, tasks and capacity: no entry of   *)
(* _live outlives the done callback of its task, and the drain of aclose   *)
(* waits for no body that has not been cancelled.                          *)
(***************************************************************************)
EXTENDS JobRunner, TLAPS

TaskRows == [state: {"none", "new", "body", "completing", "done"}, job: Jobs \union {None},
             late: BOOLEAN, cancelled: BOOLEAN]

TypeOK == /\ task \in [Tasks -> TaskRows]
          /\ live \in [Jobs -> Tasks \union {None}]
          /\ awaited \subseteq Tasks

\* Once the process stops there are no sweeps, and so no new tasks; aclose has
\* taken nothing before, and cancelled what it took.
StopInv ==
    /\ process # "running" => sweep = "stopped"
    /\ process \in {"running", "stopping"} => awaited = {}
    /\ \A t \in awaited : task[t].state \in {"new", "body"} => task[t].cancelled

\* A task has one entry at most, that of its own job.
IInv == TypeOK /\ LiveEntriesAreCurrent /\ StopInv

USE JobsAssumption

LEMMA InitInv == Init => IInv
  <1> SUFFICES ASSUME Init PROVE IInv  OBVIOUS
  <1>1. NoTask \in TaskRows  BY DEF NoTask, TaskRows
  <1> QED  BY <1>1 DEF Init, IInv, TypeOK, LiveEntriesAreCurrent, StopInv

\* What leaves the entries and the jobs alone, frees no task, and starts or
\* reprieves none keeps the invariant.
LEMMA TasksKept ==
  ASSUME IInv, task' \in [Tasks -> TaskRows], UNCHANGED <<live, sweep, process, awaited>>,
         \A t \in Tasks : /\ task'[t].job = task[t].job
                          /\ task[t].state # "none" => task'[t].state # "none"
                          /\ task'[t].state \in {"new", "body"}
                               => /\ task[t].state \in {"new", "body"}
                                  /\ task[t].cancelled => task'[t].cancelled
  PROVE  IInv'
  BY DEF IInv, TypeOK, LiveEntriesAreCurrent, StopInv

\* The cancellation of the tasks in a set changes the jobs and states of none.
LEMMA CancelledKeeps ==
  ASSUME TypeOK, NEW S, task' = Cancelled(S)
  PROVE  /\ task' \in [Tasks -> TaskRows]
         /\ \A t \in Tasks : task'[t].job = task[t].job /\ task'[t].state = task[t].state
  <1>1. ASSUME NEW f \in TaskRows
        PROVE  /\ [f EXCEPT !.cancelled = TRUE] \in TaskRows
               /\ [f EXCEPT !.cancelled = TRUE].job = f.job
               /\ [f EXCEPT !.cancelled = TRUE].state = f.state
    BY DEF TaskRows
  <1>2. \A t \in Tasks : task[t] \in TaskRows  BY DEF TypeOK
  <1> QED  BY <1>1, <1>2 DEF Cancelled

\* ... and cancels those that have not reached their completion.
LEMMA CancelledCancels ==
  ASSUME TypeOK, NEW S, task' = Cancelled(S), NEW t \in Tasks, t \in S,
         task[t].state \in {"new", "body"}
  PROVE  task'[t].cancelled
  <1>1. [task[t] EXCEPT !.cancelled = TRUE].cancelled  BY DEF TypeOK, TaskRows
  <1>2. t \in S \intersect Unfinished  BY DEF Unfinished
  <1>3. task'[t] = [task[t] EXCEPT !.cancelled = TRUE]  BY <1>2 DEF Cancelled
  <1> QED  BY <1>1, <1>3, Zenon

\* The done callback takes the entry of the task's job: if that is another
\* task's, it is gone all the same, and if there is none, nothing changes.
LEMMA OnDoneInv == ASSUME IInv, NEW t \in Tasks, OnDone(t)  PROVE IInv'
  <1>1. NoTask \in TaskRows /\ NoTask.state = "none"  BY DEF NoTask, TaskRows
  <1> DEFINE j == task[t].job
  <1>2. /\ task' \in [Tasks -> TaskRows] /\ \A u \in Tasks : u # t => task'[u] = task[u]
        /\ task'[t] = NoTask
    BY <1>1 DEF OnDone, IInv, TypeOK
  <1>3. /\ live' \in [Jobs -> Tasks \union {None}]
        /\ \A k \in Jobs : live'[k] # None => k # j /\ live'[k] = live[k]
    BY DEF OnDone, IInv, TypeOK
  <1>4. ASSUME NEW k \in Jobs, live'[k] # None
        PROVE  task'[live'[k]].state # "none" /\ task'[live'[k]].job = k
    <2>1. live[k] \in Tasks /\ live'[k] = live[k] /\ k # j  BY <1>3, <1>4 DEF IInv, TypeOK
    <2>2. task[live[k]].state # "none" /\ task[live[k]].job = k
      BY <2>1 DEF IInv, LiveEntriesAreCurrent
    <2>3. live[k] # t  BY <2>1, <2>2
    <2> QED  BY <1>2, <2>1, <2>2, <2>3
  <1>5. UNCHANGED <<sweep, process, awaited>>  BY DEF OnDone
  <1>6. StopInv'  BY <1>1, <1>2, <1>5 DEF IInv, TypeOK, StopInv
  <1> QED  BY <1>2, <1>3, <1>4, <1>5, <1>6 DEF IInv, TypeOK, LiveEntriesAreCurrent

\* New runs take free tasks, one each; a job that had an entry gets a new one.
LEMMA StartInv == ASSUME IInv, NEW claimed \in SUBSET Jobs, StartRuns(claimed),
                        sweep = "updating", UNCHANGED <<process, awaited>>, sweep' = "sleeping"
  PROVE IInv'
  <1>1. PICK assign \in [claimed -> FreeTasks] :
          /\ \A j, k \in claimed : assign[j] = assign[k] => j = k
          /\ task' = [t \in Tasks |->
                        IF \E j \in claimed : assign[j] = t
                        THEN [state |-> "new", job |-> CHOOSE j \in claimed : assign[j] = t,
                              late |-> FALSE, cancelled |-> FALSE]
                        ELSE task[t]]
          /\ live' = [j \in Jobs |-> IF j \in claimed THEN assign[j] ELSE live[j]]
    BY Zenon DEF StartRuns
  <1> DEFINE JobOf(t) == CHOOSE j \in claimed : assign[j] = t
  <1>2. \A j \in claimed : assign[j] \in Tasks /\ task[assign[j]].state = "none"  BY <1>1 DEF FreeTasks
  <1>3. \A j \in claimed : JobOf(assign[j]) = j  BY <1>1
  <1>4. \A t \in Tasks : (\E j \in claimed : assign[j] = t) => JobOf(t) \in claimed  OBVIOUS
  <1>5. task' = [t \in Tasks |->
                    IF \E j \in claimed : assign[j] = t
                    THEN [state |-> "new", job |-> JobOf(t), late |-> FALSE, cancelled |-> FALSE]
                    ELSE task[t]]
    BY <1>1, Zenon
  <1> HIDE DEF JobOf
  <1>6. /\ task' \in [Tasks -> TaskRows]
        /\ \A j \in claimed : task'[assign[j]].state = "new" /\ task'[assign[j]].job = j
        /\ \A t \in Tasks : (\A j \in claimed : assign[j] # t) => task'[t] = task[t]
    <2>1. \A t \in Tasks : task[t] \in TaskRows  BY DEF IInv, TypeOK
    <2>2. \A j \in Jobs : [state |-> "new", job |-> j, late |-> FALSE, cancelled |-> FALSE] \in TaskRows
      BY DEF TaskRows
    <2>3. task' \in [Tasks -> TaskRows]  BY <1>4, <1>5, <2>1 DEF TaskRows
    <2>4. \A j \in claimed : task'[assign[j]].state = "new" /\ task'[assign[j]].job = j
      BY <1>2, <1>3, <1>5
    <2>5. \A t \in Tasks : (\A j \in claimed : assign[j] # t) => task'[t] = task[t]  BY <1>5
    <2> QED  BY <2>3, <2>4, <2>5
  <1>7. /\ live' \in [Jobs -> Tasks \union {None}]
        /\ \A j \in Jobs : live'[j] = IF j \in claimed THEN assign[j] ELSE live[j]
    BY <1>1, <1>2 DEF IInv, TypeOK
  <1>8. ASSUME NEW j \in Jobs, live'[j] # None
        PROVE  task'[live'[j]].state # "none" /\ task'[live'[j]].job = j
    <2>1. CASE j \in claimed  BY <1>6, <1>7, <2>1
    <2>2. CASE j \notin claimed
      <3>1. live'[j] = live[j] /\ live[j] \in Tasks  BY <1>7, <1>8, <2>2 DEF IInv, TypeOK
      <3>2. task[live[j]].state # "none" /\ task[live[j]].job = j
        BY <1>8, <3>1 DEF IInv, LiveEntriesAreCurrent
      <3>3. \A k \in claimed : assign[k] # live[j]  BY <1>2, <3>2
      <3> QED  BY <1>6, <3>1, <3>2, <3>3
    <2> QED  BY <2>1, <2>2
  <1>9. process = "running" /\ awaited = {}  BY DEF IInv, StopInv
  <1> QED  BY <1>6, <1>7, <1>8, <1>9 DEF IInv, TypeOK, LiveEntriesAreCurrent, StopInv

LEMMA TaskSteps ==
  ASSUME IInv, NEW t \in Tasks,
         BodyStarts(t) \/ BodyEnds(t) \/ CompletionEnds(t) \/ OnDone(t) \/ BecomesLate(t)
  PROVE  IInv'
  <1>1. task[t] \in TaskRows  BY DEF IInv, TypeOK
  <1>2. ASSUME NEW new \in TaskRows, task' = [task EXCEPT ![t] = new],
               UNCHANGED <<live, sweep, process, awaited>>,
               new.job = task[t].job, new.state # "none",
               new.state \in {"new", "body"} => /\ task[t].state \in {"new", "body"}
                                                /\ task[t].cancelled => new.cancelled
        PROVE  IInv'
    BY <1>2, TasksKept DEF IInv, TypeOK
  <1>3. ASSUME Finish(t), UNCHANGED <<live, sweep, process, awaited>>  PROVE IInv'
    <2> DEFINE new == [task[t] EXCEPT !.state = "done", !.cancelled = FALSE]
    <2>1. task' = [task EXCEPT ![t] = new]  BY <1>3 DEF Finish, IInv, TypeOK
    <2>2. new \in TaskRows /\ new.job = task[t].job /\ new.state = "done"  BY <1>1 DEF TaskRows
    <2> HIDE DEF new
    <2> QED  BY <1>2, <1>3, <2>1, <2>2
  <1>4. CASE BodyStarts(t)
    <2>1. UNCHANGED <<live, sweep, process, awaited>> /\ task[t].state = "new"
      BY <1>4 DEF BodyStarts
    <2>2. CASE task[t].cancelled  BY <1>3, <1>4, <2>1, <2>2 DEF BodyStarts
    <2>3. CASE ~task[t].cancelled
      <3> DEFINE new == [task[t] EXCEPT !.state = "body"]
      <3>1. task' = [task EXCEPT ![t] = new]  BY <1>4, <2>3 DEF BodyStarts
      <3>2. /\ new \in TaskRows /\ new.job = task[t].job /\ new.state = "body"
            /\ new.cancelled = task[t].cancelled
        BY <1>1 DEF TaskRows
      <3> HIDE DEF new
      <3> QED  BY <1>2, <2>1, <3>1, <3>2
    <2> QED  BY <2>2, <2>3
  <1>5. CASE BodyEnds(t)
    <2> DEFINE new == [task[t] EXCEPT !.state = "completing", !.cancelled = FALSE]
    <2>1. task' = [task EXCEPT ![t] = new] /\ UNCHANGED <<live, sweep, process, awaited>>
      BY <1>5 DEF BodyEnds, IInv, TypeOK
    <2>2. new \in TaskRows /\ new.job = task[t].job /\ new.state = "completing"
      BY <1>1 DEF TaskRows
    <2> HIDE DEF new
    <2> QED  BY <1>2, <2>1, <2>2
  <1>6. CASE CompletionEnds(t)
    BY <1>3, <1>6 DEF CompletionEnds
  <1>7. CASE BecomesLate(t)
    <2> DEFINE new == [task[t] EXCEPT !.late = TRUE]
    <2>1. /\ task' = [task EXCEPT ![t] = new] /\ UNCHANGED <<live, sweep, process, awaited>>
          /\ task[t].state # "none"
      BY <1>7 DEF BecomesLate, Unfinished
    <2>2. /\ new \in TaskRows /\ new.job = task[t].job /\ new.state = task[t].state
          /\ new.cancelled = task[t].cancelled
      BY <1>1 DEF TaskRows
    <2> HIDE DEF new
    <2> QED  BY <1>2, <2>1, <2>2
  <1> QED  BY <1>4, <1>5, <1>6, <1>7, OnDoneInv

LEMMA StepInv == IInv /\ [Next]_vars => IInv'
  <1> SUFFICES ASSUME IInv, [Next]_vars PROVE IInv'  OBVIOUS
  <1>1. CASE UNCHANGED <<task, live, process, awaited>> /\ (process = "running" \/ UNCHANGED sweep)
    BY <1>1 DEF IInv, TypeOK, LiveEntriesAreCurrent, StopInv
  <1>2. CASE RecoverAndCancel
    <2>1. PICK S : task' = Cancelled(S)  BY <1>2 DEF RecoverAndCancel
    <2>2. task' \in [Tasks -> TaskRows]
          /\ \A t \in Tasks : task'[t].job = task[t].job /\ task'[t].state = task[t].state
      BY <2>1, CancelledKeeps DEF IInv
    <2>3. UNCHANGED <<live, process, awaited>> /\ sweep = "sleeping"
      BY <1>2 DEF RecoverAndCancel
    <2>4. process = "running" /\ awaited = {}  BY <2>3 DEF IInv, StopInv
    <2>5. TypeOK' /\ LiveEntriesAreCurrent'
      BY <2>2, <2>3 DEF IInv, TypeOK, LiveEntriesAreCurrent
    <2>6. StopInv'  BY <2>3, <2>4 DEF StopInv
    <2> QED  BY <2>5, <2>6 DEF IInv
  <1>3. CASE ClaimAndRun
    <2> DEFINE claimed == chosen \intersect WithStatus("PENDING")
    <2>1. StartRuns(claimed)  BY <1>3 DEF ClaimAndRun
    <2>2. claimed \in SUBSET Jobs  BY DEF WithStatus
    <2>3. sweep = "updating" /\ sweep' = "sleeping" /\ UNCHANGED <<process, awaited>>
      BY <1>3 DEF ClaimAndRun
    <2> HIDE DEF claimed
    <2> QED  BY <2>1, <2>2, <2>3, StartInv
  <1>4. CASE \E t \in Tasks : \/ BodyStarts(t) \/ BodyEnds(t) \/ CompletionEnds(t)
                               \/ OnDone(t) \/ BecomesLate(t)
    BY <1>4, TaskSteps
  <1>5. CASE StopSweep
    BY <1>5 DEF StopSweep, IInv, TypeOK, LiveEntriesAreCurrent, StopInv
  <1>6. CASE Aclose
    <2>1. PICK S : task' = Cancelled(S) /\ S = Listed  BY <1>6 DEF Aclose
    <2>2. task' \in [Tasks -> TaskRows]
          /\ \A t \in Tasks : task'[t].job = task[t].job /\ task'[t].state = task[t].state
      BY <2>1, CancelledKeeps DEF IInv
    <2>3. ASSUME NEW t \in Tasks, t \in S, task[t].state \in {"new", "body"}
          PROVE  task'[t].cancelled
      BY <2>1, <2>3, CancelledCancels DEF IInv
    <2>4. /\ awaited' = S /\ S \subseteq Tasks /\ UNCHANGED <<live, sweep>>
          /\ process = "stopping" /\ process' = "draining"
      BY <1>6, <2>1 DEF Aclose, Listed
    <2>5. TypeOK' /\ LiveEntriesAreCurrent'
      BY <2>2, <2>4 DEF IInv, TypeOK, LiveEntriesAreCurrent
    <2>6. \A t \in awaited' : task'[t].state \in {"new", "body"} => task'[t].cancelled
      BY <2>2, <2>3, <2>4
    <2>7. sweep' = "stopped" /\ process' \notin {"running", "stopping"}
      BY <2>4 DEF IInv, StopInv
    <2> QED  BY <2>5, <2>6, <2>7 DEF IInv, StopInv
  <1>7. CASE Drained
    BY <1>7 DEF Drained, IInv, TypeOK, LiveEntriesAreCurrent, StopInv
  <1>8. SelectPending \/ SweepFails => process = "running"
    BY DEF SelectPending, SweepFails, IInv, StopInv
  <1> QED
    BY <1>1, <1>2, <1>3, <1>4, <1>5, <1>6, <1>7, <1>8
    DEF Next, Sweep, ClientWrites, SelectPending, SweepFails, vars

\* _live holds entries of running or just ended tasks of the right jobs only, in
\* whatever order the runs of one job start, are cancelled, and end.
THEOREM LiveCorrect == Spec => []LiveEntriesAreCurrent
  <1>1. IInv => LiveEntriesAreCurrent  BY DEF IInv
  <1> QED  BY InitInv, StepInv, <1>1, PTL DEF Spec

\* aclose waits for a cancelled task or for a completion, and for no other body.
THEOREM DrainCorrect == Spec => []DrainWaitsForCancelled
  <1>1. IInv => DrainWaitsForCancelled  BY DEF IInv, StopInv, DrainWaitsForCancelled
  <1> QED  BY InitInv, StepInv, <1>1, PTL DEF Spec
=============================================================================
