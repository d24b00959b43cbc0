---------------------------- MODULE UsageMetering ----------------------------
(***************************************************************************)
(* A daily-partitioned table (llm_usage, mcp_usage, sandbox_usage or jobs; *)
(* a behaviour is about one of them), the requests and polls that append   *)
(* its rows, the sweep that creates and drops its partitions and, for      *)
(* llm_usage and mcp_usage, the sweep that rolls one minute of rows into   *)
(* the aggregated projection.  Sweeps run in several processes, at         *)
(* whatever times their intervals give.                                    *)
(*                                                                         *)
(* A sum over rows is represented by the set of the rows.                  *)
(***************************************************************************)
EXTENDS Integers, FiniteSets

CONSTANTS
    Calls,         \* bound: the rows that may be written
    Owner,         \* the creator of each of them
    Procs,         \* the processes that aggregate
    PerDay,        \* minutes in a day
    Preallocate,   \* preallocate_days
    Retention,     \* retention_days
    Lag,           \* lag_minutes
    MaxTime,       \* bound: the clock
    Default,       \* the DEFAULT partition, created by the migration
    None

ASSUME MeteringAssumption ==
    /\ PerDay \in Nat \ {0} /\ Preallocate \in Nat \ {0} /\ Retention \in Nat \ {0}
    /\ Lag \in Nat /\ MaxTime \in Nat

ASSUME NoneAssumption == None \notin Int /\ Default \notin Int

VARIABLES
    table,        \* the table of this behaviour
    now,          \* the clock, in minutes
    partitions,   \* the dated partitions, by day
    call,         \* call[c]: a request, and the row it writes
    projection,   \* projection[m]: the rows summed for minute m, over all creators
    agg,          \* agg[p]: an aggregation that is under way
    swept,        \* the day of the last sweep that succeeded (history)
    settled       \* minutes aggregated after their last row was committed (history)

vars == <<table, now, partitions, call, projection, agg, swept, settled>>

Tables == {"llm", "mcp", "sandbox", "jobs"}
Times  == 0 .. MaxTime
Day(m) == m \div PerDay
Days   == {Day(m) : m \in Times}

\* A call is "served" when it has its upstream answer, "inserted" uncommitted, then
\* "recorded", and "lost" when it was served and never recorded; its row ends "expired".
NoCall  == [step |-> "idle", kind |-> None, minute |-> None, part |-> None]
NoSweep == [target |-> None, rows |-> {}, quiet |-> FALSE]

-----------------------------------------------------------------------------
\* PostgreSQL routes a row by its created_at.
Target(day) == IF day \in partitions THEN day ELSE Default
InDefault   == {Day(call[c].minute) : c \in {d \in Calls : /\ call[d].part = Default
                                                         /\ call[d].step = "recorded"}}
InFlight == {c \in Calls : call[c].step = "inserted"}

\* Mutant of Window: one day short.
ShortWindow(today) == today .. today + Preallocate - 2
\* The days for which ensure_partitions creates a partition, and those it drops.
Window(today)  == today .. today + Preallocate - 1
Missing(today) == Window(today) \ partitions
\* Mutant of Expired: the cutoff day itself is dropped.
ExpiredEarly(today) == {d \in partitions : d <= today - Retention}
Expired(today) == {d \in partitions : d < today - Retention}

\* A partition cannot be created while DEFAULT holds rows of its day.
Blocked(today) == Missing(today) \intersect InDefault # {}

Init ==
    /\ table \in Tables /\ now = 0 /\ partitions = {}
    /\ call = [c \in Calls |-> NoCall]
    /\ projection = [m \in Times |-> {}]
    /\ agg = [p \in Procs |-> NoSweep]
    /\ swept = None /\ settled = {}

-----------------------------------------------------------------------------
Serve(c, kind) ==
    /\ call[c].step = "idle"
    /\ call' = [call EXCEPT ![c] = [@ EXCEPT !.step = "served", !.kind = kind]]
    /\ UNCHANGED <<table, now, partitions, projection, agg, swept, settled>>

\* The upstream answered: POST /completion/{llm_id}, the raw forwarder, their
\* streaming forms, and the MCP proxy with a JSON or an SSE answer.
Completion(c)       == table = "llm" /\ Serve(c, "plain")
Forward(c)          == table = "llm" /\ Serve(c, "plain")
StreamCompletion(c) == table = "llm" /\ Serve(c, "stream")
ForwardStream(c)    == table = "llm" /\ Serve(c, "stream")
McpCall(c)          == table = "mcp" /\ Serve(c, "plain")
McpStream(c)        == table = "mcp" /\ Serve(c, "sse")
\* _sweep_sandbox_usage listed the sandboxes; a job is about to be created.
SandboxPoll(c)      == table = "sandbox" /\ Serve(c, "plain")
CreateJob(c)        == table = "jobs" /\ Serve(c, "plain")

Insert(c) ==
    /\ call[c].step = "served"
    /\ call' = [call EXCEPT ![c] = [@ EXCEPT !.step = "inserted", !.minute = now,
                                            !.part = Target(Day(now))]]
    /\ UNCHANGED <<table, now, partitions, projection, agg, swept, settled>>

Lose(c) ==
    /\ call' = [call EXCEPT ![c] = [NoCall EXCEPT !.step = "lost"]]
    /\ UNCHANGED <<table, now, partitions, projection, agg, swept, settled>>

\* record_usage flushes the row; created_at is the clock at the insert.
RecordLlm(c)     == table = "llm" /\ Insert(c)
RecordMcp(c)     == table = "mcp" /\ Insert(c)
RecordSandbox(c) == table = "sandbox" /\ Insert(c)
InsertJob(c)     == table = "jobs" /\ Insert(c)

\* A row that is not written, for instance as its creator or connection is gone by
\* now: the session is rolled back, and the call succeeds all the same.
RecordFails(c) == table # "jobs" /\ call[c].step = "served" /\ Lose(c)

\* The client of a stream goes away before its usage was recorded: the task is
\* cancelled, the generator closed.  (The SSE proxy records in a finally.)
Disconnect(c) == call[c].step \in {"served", "inserted"} /\ call[c].kind = "stream" /\ Lose(c)
\* No frame of the SSE stream was a tools/call.
NoToolCallSeen(c) == call[c].step = "served" /\ call[c].kind = "sse" /\ Lose(c)

\* The commit after record_usage, in each caller.
Commit(c) ==
    /\ call[c].step = "inserted"
    /\ call' = [call EXCEPT ![c] = [@ EXCEPT !.step = "recorded", !.kind = None]]
    /\ UNCHANGED <<table, now, partitions, projection, agg, swept, settled>>

Crash(c) == call[c].step \in {"served", "inserted"} /\ Lose(c)

-----------------------------------------------------------------------------
\* ensure_partitions is one transaction, and its first DDL statement waits for the
\* open inserts and keeps new ones waiting.  It took the date before that, so that
\* midnight may have passed.
EnsurePartitions(today) ==
    /\ today \in {Day(now), Day(now) - 1} /\ today >= 0
    /\ Missing(today) # {} \/ Expired(today) # {} => InFlight = {}
    /\ ~Blocked(today)
    /\ partitions' = (partitions \union Window(today)) \ Expired(today)
    /\ call' = [c \in Calls |-> IF call[c].step = "recorded" /\ call[c].part \in Expired(today)
                                THEN [call[c] EXCEPT !.step = "expired"] ELSE call[c]]
    /\ swept' = IF swept = None \/ swept < today THEN today ELSE swept
    /\ UNCHANGED <<table, now, projection, agg, settled>>

LlmPartitions     == table = "llm" /\ \E today \in Days : EnsurePartitions(today)
McpPartitions     == table = "mcp" /\ \E today \in Days : EnsurePartitions(today)
SandboxPartitions == table = "sandbox" /\ \E today \in Days : EnsurePartitions(today)
JobPartitions     == table = "jobs" /\ \E today \in Days : EnsurePartitions(today)

-----------------------------------------------------------------------------
\* The rows a statement sees.
Rows(m) == {c \in Calls : call[c].step = "recorded" /\ call[c].minute = m}
\* Minute m is over, no row of it is uncommitted or dropped, and no other process
\* is about to write an earlier sum of it.
Quiet(p, m) ==
    /\ m < now /\ \A c \in Calls : call[c].minute = m => call[c].step = "recorded"
    /\ \A q \in Procs \ {p} :
          agg[q].target = m => agg[q].quiet

\* aggregate_behind_now: the target is a minute, whatever was aggregated before.  The
\* INSERT ... SELECT takes its snapshot in that minute, or just after it;
AggregateReads(p, m) ==
    /\ table \in {"llm", "mcp"} /\ agg[p].target = None
    /\ m \in {now - Lag, now - Lag - 1} /\ m >= 0
    /\ agg' = [agg EXCEPT ![p] = [target |-> m, rows |-> Rows(m), quiet |-> Quiet(p, m)]]
    /\ UNCHANGED <<table, now, partitions, call, projection, swept, settled>>

\* Mutant of Upsert: the row of a creator is inserted once and then kept.
InsertOnly(summed, rows) ==
    summed \union {c \in rows : \A d \in summed : Owner[d] # Owner[c]}

\* The rows of a minute after one row was written for each creator with usage.
Upsert(summed, rows) ==
    {c \in summed : \A d \in rows : Owner[d] # Owner[c]} \union rows

\* it writes one row for each creator, over the one it finds.
AggregateMinute(p) ==
    /\ agg[p].target # None
    /\ LET m == agg[p].target
       IN  /\ projection' = [projection EXCEPT ![m] = Upsert(@, agg[p].rows)]
           /\ settled' = IF agg[p].quiet THEN settled \union {m} ELSE settled
    /\ agg' = [agg EXCEPT ![p] = NoSweep]
    /\ UNCHANGED <<table, now, partitions, call, swept>>
LlmAggregate(p) == table = "llm" /\ AggregateMinute(p)
McpAggregate(p) == table = "mcp" /\ AggregateMinute(p)

\* A sweep fails: the loop goes on with the next one.
AggregateFails(p) ==
    /\ agg[p].target # None
    /\ agg' = [agg EXCEPT ![p] = NoSweep]
    /\ UNCHANGED <<table, now, partitions, call, projection, swept, settled>>

Tick == /\ now < MaxTime /\ now' = now + 1
        /\ UNCHANGED <<table, partitions, call, projection, agg, swept, settled>>

Serving(c) == Completion(c) \/ Forward(c) \/ StreamCompletion(c) \/ ForwardStream(c)
              \/ McpCall(c) \/ McpStream(c) \/ SandboxPoll(c) \/ CreateJob(c)
Recording(c) == RecordLlm(c) \/ RecordMcp(c) \/ RecordSandbox(c) \/ InsertJob(c) \/ RecordFails(c)
                \/ Disconnect(c) \/ NoToolCallSeen(c) \/ Commit(c) \/ Crash(c)
Aggregate(p) == (\E m \in Times : AggregateReads(p, m)) \/ LlmAggregate(p) \/ McpAggregate(p)
                \/ AggregateFails(p)

Next == \/ \E c \in Calls : Serving(c) \/ Recording(c)
        \/ LlmPartitions \/ McpPartitions \/ SandboxPartitions \/ JobPartitions
        \/ \E p \in Procs : Aggregate(p)
        \/ Tick

Spec == Init /\ [][Next]_vars

-----------------------------------------------------------------------------
\* Retention: a committed row is dropped only when its whole day is older than
\* retention_days, also by a sweep that took its date before midnight.
NothingYoungIsDropped ==
    [][\A c \in Calls : call[c].step = "recorded" /\ call'[c].step = "expired"
          => Day(call[c].minute) < Day(now) - Retention]_vars

\* A sweep that succeeded shields the table for preallocate_days: no row is routed
\* to DEFAULT before the days it allocated are over.
PreallocationShields ==
    [][\A c \in Calls : call[c].step = "served" /\ call'[c].step = "inserted"
                        /\ call'[c].part = Default
          => swept = None \/ Day(now) >= swept + Preallocate]_vars

\* A minute that was aggregated after its last row was committed is exact, for each
\* creator, and stays so when other processes aggregate it again and when its raw
\* rows are dropped.
SettledMinutesAreExact ==
    \A m \in settled : projection[m] = {c \in Calls : /\ call[c].minute = m
                                                     /\ call[c].step \in {"recorded", "expired"}}

-----------------------------------------------------------------------------
\* Refuted by TLC, and checked by no configuration.
\* ensure_partitions' docstring: "rows landing there [in DEFAULT] are picked up on the
\* next sweep's allocations".  No sweep is kept from allocating by rows in DEFAULT.
DefaultRowsAreAllocated == ~Blocked(Day(now))
=============================================================================
