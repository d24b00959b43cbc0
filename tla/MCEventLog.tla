----------------------------- MODULE MCEventLog ------------------------------
(* A small instance of EventLog for TLC. *)
EXTENDS EventLog, TLC

CONSTANTS e1, e2, r1, r2

Two      == {e1, e2}
One      == {e1}
Requests == {r1, r2}
Sym      == Permutations(Requests)
=============================================================================
