---------------------------- MODULE MCSandboxes ----------------------------
(* Two request threads of one process beside the refresh loops of two      *)
(* processes.  Loops take no claim lock, so it is all one where they run.  *)
EXTENDS Sandboxes, TLC
OneProcess == [t \in Threads |-> "p1"]
LoopsElsewhere == [t \in Threads |-> IF t \in Loops THEN t ELSE "p1"]
Sym == Permutations(Requests) \cup Permutations(Loops) \cup Permutations(Configs)
AtWork == {t \in Threads : act[t] # Idle}
RequestsDo(ops) == \A t \in Requests : act[t].op \in {"none"} \cup ops
(* Bound: snapshots and the warm pool are explored apart from each other.  *)
PoolOrSnapshots ==
    \/ made <= 1 /\ WarmBoxes = {} /\ \A t \in Loops : act[t] = Idle
    \/ /\ rows = {} /\ \A n \in Snapshots : tar[n] = "none"
       /\ \A t \in Threads : act[t].snap = NoSnapshot
(* Bound: two threads are at work at the same time, or both loops and one  *)
(* request that creates or claims.                                         *)
TwoAtWork ==
    \/ Cardinality(AtWork) <= 2
    \/ /\ Cardinality(AtWork) = 3 /\ Loops \subseteq AtWork
       /\ Claimed = {} /\ RequestsDo({"create"})
(* Bound: a third sandbox only beside a loop.                              *)
ThirdBesideLoop ==
    \/ made <= 2
    \/ /\ AtWork \cap Loops # {} /\ Cardinality(Claimed) <= 1
       /\ RequestsDo({"create"})
=============================================================================
