---------------------------- MODULE MCJobService ----------------------------
(* Small instances of JobService for TLC. *)
EXTENDS JobService, TLC

CONSTANTS r1, r2, s1, s2

Interchangeable == Permutations({r1, r2}) \union Permutations({s1, s2})

\* The jobs and the runners that a behaviour has used so far.
UsedJobs    == {j \in Jobs : rows[j] # NotCreated \/ uncommitted[j] # None}
UsedRunners == dead \union {run.runner : run \in runs}
               \union {r \in Runners : \E s \in Sessions : tx[s].actor = r}
               \union {r \in Runners : \E j \in Jobs : HasRow(j) /\ rows[j].runner = r}

\* Bound: two runners with a clock meet on the first job; with two jobs there is
\* one runner, which lives on and claims through sweeps (RunnerWithinCapacity),
\* and a client request writes one of them.
OneJobOrOneRunner ==
    \/ UsedJobs \subseteq {1}
    \/ /\ now = 0 /\ dead = {} /\ Cardinality(UsedRunners) <= 1
       /\ \A s \in Sessions : /\ tx[s].op # "create_running"
                              /\ tx[s].actor = Client => Cardinality(WrittenBy(s)) <= 1
=============================================================================
