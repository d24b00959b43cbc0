-------------------------- MODULE JobService_proofs --------------------------
(***************************************************************************)
(* Proofs about JobService for any number of jobs, runners and sessions.   *)
(***************************************************************************)
EXTENDS JobService, FiniteSetTheorems, TLAPS

Inv == TypeOK /\ LockInv /\ StatementInv /\ RunInv

\* A session that has begun nothing holds no row.
LEMMA UnusedSessionHoldsNothing ==
    ASSUME Inv, NEW s \in Sessions, tx[s] = NoTx
    PROVE  WrittenBy(s) = {}
<1>1. tx[s].op = "none"
  BY DEF NoTx
<1>2. QED
  BY <1>1 DEF Inv, LockInv, VersionMatches, WrittenBy

\* What a session sees of a job is a row or one of the two null versions.
LEMMA VisibleType ==
    ASSUME TypeOK, NEW s \in Sessions, NEW j \in Jobs
    PROVE  Visible(s, j) \in Row \union {NotCreated, Deleted}
BY NullsAssumption DEF TypeOK, Visible, WrittenBy

\* The statement Begin starts is well typed.
LEMMA BeginType ==
    ASSUME TypeOK, NEW s \in Sessions, NEW op \in Ops, NEW actor \in Actors,
           NEW todo \in SUBSET Jobs, NEW status \in Statuses \union {Keep},
           NEW max \in MaxSecondsChoices \union {Keep},
           Begin(s, op, actor, todo, status, max)
    PROVE  tx' \in [Sessions -> Tx]
<1>1. 0 \in Time /\ now \in Time
  BY BoundsAssumption DEF TypeOK, Time
<1>2. QED
  BY <1>1 DEF TypeOK, Begin, Tx

\* The empty table, with no session open, satisfies the invariant.
LEMMA InitInv == Init => Inv
<1> SUFFICES ASSUME Init PROVE Inv
  OBVIOUS
<1>1. NoTx \in Tx
  BY BoundsAssumption DEF NoTx, Tx, Ops, Actors, Time
<1>2. TypeOK
  BY <1>1, BoundsAssumption DEF Init, TypeOK, Time
<1>3. LockInv
  BY DEF Init, LockInv
<1>4. StatementInv
  BY <1>2 DEF Init, StatementInv, StatementOK, NoTx, Time
<1>5. RunInv
  BY DEF Init, RunInv
<1>6. QED
  BY <1>2, <1>3, <1>4, <1>5 DEF Inv

\* A statement that only begins: no row changes and no lock is taken.
LEMMA BeginStep ==
    ASSUME Inv, NEW s \in Sessions, NEW op \in {"patch", "delete", "claim", "complete", "recover"},
           NEW actor \in Runners \union {Client}, NEW todo \in SUBSET Jobs,
           NEW status \in Statuses \union {Keep},
           NEW max \in MaxSecondsChoices \union {Keep},
           Begin(s, op, actor, todo, status, max),
           UNCHANGED <<rows, uncommitted, now>>,
           op \in {"patch", "delete"} <=> actor = Client,
           Ready(s, actor),
           op = "complete" => status \in TerminalStatuses,
           \A j \in todo : Visible(s, j) # NotCreated
    PROVE  tx' \in [Sessions -> Tx] /\ LockInv' /\ StatementInv'
<1>1. tx' \in [Sessions -> Tx]
  <2>1. op \in Ops /\ actor \in Actors
    BY DEF Ops, Actors
  <2>2. QED
    BY <2>1, BeginType DEF Inv
<1>2. tx'[s].op = op /\ tx'[s].actor = actor /\ tx'[s].todo = todo
      /\ tx'[s].status = status /\ tx'[s].at \in {0, now}
  BY DEF Begin, Inv, TypeOK
<1>3. \A u \in Sessions \ {s} : tx'[u] = tx[u]
  BY DEF Begin, Inv, TypeOK
<1>4. 0 <= now /\ now <= now /\ now' = now
  BY BoundsAssumption DEF Inv, TypeOK, Time
<1>5. ASSUME actor \in Runners PROVE WrittenBy(s) = {}
  BY <1>5, UnusedSessionHoldsNothing, ActorsAssumption DEF Ready
<1>6. \A u \in Sessions : /\ WrittenBy(u)' = WrittenBy(u)
                          /\ \A j \in Jobs : Visible(u, j)' = Visible(u, j)
  BY DEF Visible, WrittenBy
<1>7. LockInv'
  <2> SUFFICES ASSUME NEW j \in Jobs, uncommitted[j] # None
               PROVE  VersionMatches(rows[j], uncommitted[j].row,
                                     tx'[uncommitted[j].by])
    BY DEF LockInv
  <2>1. uncommitted[j].by \in Sessions
    BY DEF Inv, TypeOK
  <2>2. CASE uncommitted[j].by = s
    <3>1. actor = Client
      BY <2>2, <1>5 DEF WrittenBy
    <3>2. QED
      BY <3>1, <2>2, <1>2, ActorsAssumption DEF VersionMatches
  <2>3. CASE uncommitted[j].by # s
    BY <2>1, <2>3, <1>3 DEF Inv, LockInv
  <2>4. QED
    BY <2>2, <2>3
<1>8. StatementInv'
  <2> SUFFICES ASSUME NEW u \in Sessions
               PROVE  /\ StatementOK(tx'[u]) /\ tx'[u].at <= now
                      /\ \A j \in tx'[u].todo : Visible(u, j) # NotCreated
                      /\ tx'[u].op \in {"claim", "complete", "recover"}
                            => tx'[u].todo \intersect WrittenBy(u) = {}
    <3>1. \A u \in Sessions : tx'[u].todo \subseteq Jobs
      BY <1>1 DEF Tx
    <3>2. QED
      BY <3>1, <1>4, <1>6 DEF StatementInv
  <2>1. CASE u = s
    BY <2>1, <1>2, <1>4, <1>5, ActorsAssumption DEF StatementOK, NoTx
  <2>2. CASE u # s
    BY <2>2, <1>3 DEF Inv, StatementInv
  <2>3. QED
    BY <2>1, <2>2
<1>9. QED
  BY <1>1, <1>7, <1>8

\* An INSERT: the new row is locked and nobody else sees it.
LEMMA InsertStep ==
    ASSUME Inv, NEW s \in Sessions, NEW op \in {"create", "create_running"},
           NEW actor \in Runners \union {Client}, NEW j \in Jobs, NEW row \in Row,
           Insert(s, j, row), Begin(s, op, actor, {}, Keep, Keep),
           UNCHANGED <<rows, now>>,
           Ready(s, actor),
           op = "create_running" => /\ actor \in Runners /\ row.status = "RUNNING"
                                    /\ row.runner = actor /\ row.started = now
    PROVE  /\ uncommitted' \in [Jobs -> [by : Sessions, row : Row \union {Deleted}]
                                         \union {None}]
           /\ tx' \in [Sessions -> Tx] /\ LockInv' /\ StatementInv'
<1>1. tx' \in [Sessions -> Tx]
  <2>1. op \in Ops /\ actor \in Actors
    BY DEF Ops, Actors
  <2>2. QED
    BY <2>1, BeginType DEF Inv
<1>2. /\ tx'[s].op = op /\ tx'[s].actor = actor /\ tx'[s].todo = {}
      /\ tx'[s].at \in {0, now}
      /\ op = "create_running" => tx'[s].at = now
  BY DEF Begin, Inv, TypeOK
<1>3. \A u \in Sessions \ {s} : tx'[u] = tx[u]
  BY DEF Begin, Inv, TypeOK
<1>4. 0 <= now /\ now <= now /\ now' = now
  BY BoundsAssumption DEF Inv, TypeOK, Time
<1>5. ASSUME actor \in Runners PROVE WrittenBy(s) = {}
  BY <1>5, UnusedSessionHoldsNothing, ActorsAssumption DEF Ready
<1>6. /\ uncommitted'[j] = [by |-> s, row |-> row] /\ uncommitted[j] = None
      /\ \A k \in Jobs \ {j} : uncommitted'[k] = uncommitted[k]
  BY DEF Insert, Inv, TypeOK
<1>7. uncommitted' \in [Jobs -> [by : Sessions, row : Row \union {Deleted}]
                               \union {None}]
  BY DEF Insert, Inv, TypeOK
<1>8. \A u \in Sessions \ {s} : WrittenBy(u)' = WrittenBy(u)
  BY <1>6 DEF WrittenBy
<1>9. \A u \in Sessions \ {s}, k \in Jobs : Visible(u, k)' = Visible(u, k)
  BY <1>6, <1>8 DEF Visible, WrittenBy
<1>10. LockInv'
  <2> SUFFICES ASSUME NEW k \in Jobs, uncommitted'[k] # None
               PROVE  VersionMatches(rows[k], uncommitted'[k].row,
                                     tx'[uncommitted'[k].by])
    BY DEF LockInv
  <2>1. uncommitted'[k].by \in Sessions
    BY <1>7
  <2>2. CASE k = j
    <3>1. rows[j] = NotCreated
      BY DEF Insert
    <3>2. uncommitted'[k].row = row /\ uncommitted'[k].by = s
      BY <2>2, <1>6
    <3>3. QED
      BY <3>1, <3>2, <2>2, <1>2 DEF VersionMatches
  <2>3. CASE k # j /\ uncommitted'[k].by = s
    <3>1. actor = Client
      BY <2>3, <1>5, <1>6 DEF WrittenBy
    <3>2. op = "create"
      BY <3>1, ActorsAssumption
    <3>3. QED
      BY <3>1, <3>2, <2>3, <1>2, ActorsAssumption DEF VersionMatches
  <2>4. CASE k # j /\ uncommitted'[k].by # s
    BY <2>1, <2>4, <1>3, <1>6 DEF Inv, LockInv
  <2>5. QED
    BY <2>2, <2>3, <2>4
<1>11. StatementInv'
  <2> SUFFICES ASSUME NEW u \in Sessions
               PROVE  /\ StatementOK(tx'[u]) /\ tx'[u].at <= now
                      /\ \A k \in tx'[u].todo : Visible(u, k)' # NotCreated
                      /\ tx'[u].op \in {"claim", "complete", "recover"}
                            => tx'[u].todo \intersect WrittenBy(u)' = {}
    BY <1>1, <1>4, Zenon DEF StatementInv, Tx
  <2>1. CASE u = s
    <3>1. tx'[u].op \in {"create", "create_running"}
      BY <2>1, <1>2
    <3>2. StatementOK(tx'[u])
      BY <3>1, <2>1, <1>2 DEF StatementOK, NoTx
    <3>3. QED
      BY <3>1, <3>2, <2>1, <1>2, <1>4
  <2>2. CASE u # s
    <3>1. tx[u].todo \subseteq Jobs
      BY DEF Inv, TypeOK, Tx
    <3>2. QED
      BY <3>1, <2>2, <1>3, <1>8, <1>9 DEF Inv, StatementInv
  <2>3. QED
    BY <2>1, <2>2
<1>12. QED
  BY <1>1, <1>7, <1>10, <1>11

\* The rows a statement has still to visit play no part in what it wrote.
LEMMA TodoIsIrrelevant ==
    ASSUME NEW t \in Tx, NEW todo \in SUBSET Jobs
    PROVE  LET u == [t EXCEPT !.todo = todo]
           IN  /\ u \in Tx /\ u.op = t.op /\ u.at = t.at /\ u.todo = todo
               /\ \A row, version : VersionMatches(row, version, t)
                                     => VersionMatches(row, version, u)
               /\ StatementOK(t) /\ t.op # "none" /\ todo \subseteq t.todo
                     => StatementOK(u)
<1> DEFINE u == [t EXCEPT !.todo = todo]
<1>1. /\ u \in Tx /\ u.op = t.op /\ u.at = t.at /\ u.todo = todo
      /\ u.actor = t.actor /\ u.status = t.status
  BY DEF Tx
<1>2. \A row : ClaimWrites(u, row) = ClaimWrites(t, row)
  BY <1>1 DEF ClaimWrites
<1>3. ASSUME NEW row, NEW version, VersionMatches(row, version, t)
      PROVE  VersionMatches(row, version, u)
  BY <1>1, <1>2, <1>3 DEF VersionMatches, CompleteMatches, RecoverMatches
<1>4. ASSUME StatementOK(t), t.op # "none", todo \subseteq t.todo
      PROVE  StatementOK(u)
  BY <1>1, <1>4 DEF StatementOK, NoTx
<1>5. QED
  BY <1>1, <1>3, <1>4

\* One row of an UPDATE or DELETE: the version written matches the row locked.
LEMMA VisitStep ==
    ASSUME Inv, NEW s \in Sessions, NEW j \in Jobs, NEW matches, NEW version,
           NEW op \in {"claim", "complete", "recover", "patch", "delete"},
           Visit(s, j, op, matches, version),
           Visible(s, j) \in Row /\ matches =>
               /\ version \in Row \union {Deleted}
               /\ VersionMatches(Visible(s, j), version, tx[s])
                  \/ op \in {"patch", "delete"}
    PROVE  /\ uncommitted' \in [Jobs -> [by : Sessions, row : Row \union {Deleted}]
                                         \union {None}]
           /\ tx' \in [Sessions -> Tx] /\ LockInv' /\ StatementInv'
<1> DEFINE todo == tx[s].todo \ {j}
<1>1. /\ tx[s] \in Tx /\ tx[s].op = op /\ j \in tx[s].todo
      /\ todo \in SUBSET Jobs /\ tx[s].todo \subseteq Jobs
      /\ now' = now /\ rows' = rows
  BY DEF Visit, Inv, TypeOK, Tx
<1>2. tx'[s] = [tx[s] EXCEPT !.todo = todo] /\ \A u \in Sessions \ {s} : tx'[u] = tx[u]
  BY DEF Visit, Inv, TypeOK
<1>3. /\ tx'[s] \in Tx /\ tx'[s].op = op /\ tx'[s].at = tx[s].at
      /\ tx'[s].todo = todo
      /\ \A row, v : VersionMatches(row, v, tx[s]) => VersionMatches(row, v, tx'[s])
      /\ StatementOK(tx'[s])
  <2>1. StatementOK(tx[s]) /\ tx[s].op # "none"
    BY <1>1 DEF Inv, StatementInv
  <2>2. todo \subseteq tx[s].todo
    OBVIOUS
  <2> HIDE DEF todo
  <2> DEFINE u == [tx[s] EXCEPT !.todo = todo]
  <2>3. /\ u \in Tx /\ u.op = tx[s].op /\ u.at = tx[s].at /\ u.todo = todo
        /\ \A row, v : VersionMatches(row, v, tx[s]) => VersionMatches(row, v, u)
        /\ StatementOK(u)
    BY <1>1, <2>1, <2>2, TodoIsIrrelevant, SMT
  <2>4. tx'[s] = u
    BY <1>2
  <2>5. QED
    BY <1>1, <2>3, <2>4, Zenon
<1>4. tx' \in [Sessions -> Tx]
  BY <1>3 DEF Visit, Inv, TypeOK
<1>5. Visible(s, j) \in Row \union {Deleted}
  BY <1>1, VisibleType DEF Inv, StatementInv
<1>6. CASE uncommitted' = uncommitted
  <2>1. \A u \in Sessions : /\ WrittenBy(u)' = WrittenBy(u)
                            /\ \A k \in Jobs : Visible(u, k)' = Visible(u, k)
    BY <1>1, <1>6 DEF WrittenBy, Visible
  <2>2. LockInv'
    <3> SUFFICES ASSUME NEW k \in Jobs, uncommitted[k] # None
                 PROVE  VersionMatches(rows[k], uncommitted[k].row,
                                       tx'[uncommitted[k].by])
      BY <1>1, <1>6 DEF LockInv
    <3>1. uncommitted[k].by \in Sessions
      BY DEF Inv, TypeOK
    <3>2. VersionMatches(rows[k], uncommitted[k].row, tx[uncommitted[k].by])
      BY DEF Inv, LockInv
    <3>3. QED
      BY <3>1, <3>2, <1>2, <1>3
  <2>3. StatementInv'
    <3> SUFFICES ASSUME NEW u \in Sessions
                 PROVE  /\ StatementOK(tx'[u]) /\ tx'[u].at <= now
                        /\ \A k \in tx'[u].todo : Visible(u, k) # NotCreated
                        /\ tx'[u].op \in {"claim", "complete", "recover"}
                              => tx'[u].todo \intersect WrittenBy(u) = {}
      <4>1. \A u \in Sessions : tx'[u].todo \subseteq Jobs
        BY <1>4 DEF Tx
      <4>2. QED
        BY <4>1, <1>1, <2>1 DEF StatementInv
    <3>1. CASE u = s
      BY <3>1, <1>1, <1>3 DEF Inv, StatementInv
    <3>2. CASE u # s
      BY <3>2, <1>2 DEF Inv, StatementInv
    <3>3. QED
      BY <3>1, <3>2
  <2>4. QED
    BY <1>4, <1>6, <2>2, <2>3 DEF Inv, TypeOK
<1>7. CASE uncommitted' # uncommitted
  <2>1. /\ Visible(s, j) \in Row /\ matches
        /\ uncommitted' = [uncommitted EXCEPT ![j] = [by |-> s, row |-> version]]
    BY <1>5, <1>7 DEF Visit
  <2>2. /\ uncommitted'[j].by = s /\ uncommitted'[j].row = version
        /\ uncommitted'[j] # None
        /\ version \in Row \union {Deleted}
        /\ \A k \in Jobs \ {j} : uncommitted'[k] = uncommitted[k]
    BY <2>1, NullsAssumption DEF Inv, TypeOK
  <2>3. uncommitted' \in [Jobs -> [by : Sessions, row : Row \union {Deleted}]
                                 \union {None}]
    BY <2>1, <2>2 DEF Inv, TypeOK
  <2>4. \A u \in Sessions \ {s} : /\ WrittenBy(u)' = WrittenBy(u)
                                   /\ j \notin WrittenBy(u)
                                   /\ \A k \in Jobs : Visible(u, k)' = Visible(u, k)
    BY <1>1, <2>2 DEF WrittenBy, Visible, Visit
  <2>5. /\ WrittenBy(s)' = WrittenBy(s) \union {j}
        /\ Visible(s, j)' = version
        /\ \A k \in Jobs \ {j} : Visible(s, k)' = Visible(s, k)
    BY <1>1, <2>2 DEF WrittenBy, Visible
  <2>6. LockInv'
    <3> SUFFICES ASSUME NEW k \in Jobs, uncommitted'[k] # None
                 PROVE  VersionMatches(rows[k], uncommitted'[k].row,
                                       tx'[uncommitted'[k].by])
      BY <1>1 DEF LockInv
    <3>1. uncommitted'[k].by \in Sessions
      BY <2>3
    <3>2. CASE k = j /\ op \in {"patch", "delete"}
      BY <3>2, <2>2, <1>3 DEF VersionMatches
    <3>3. CASE k = j /\ op \notin {"patch", "delete"}
      <4>1. Visible(s, j) = rows[j]
        BY <3>3, <1>1 DEF Inv, StatementInv, Visible
      <4>2. VersionMatches(rows[j], version, tx[s])
        BY <4>1, <3>3, <2>1
      <4>3. QED
        BY <4>2, <3>3, <2>2, <1>3
    <3>4. CASE k # j
      <4>1. VersionMatches(rows[k], uncommitted[k].row, tx[uncommitted[k].by])
        BY <3>4, <2>2 DEF Inv, LockInv
      <4>2. uncommitted'[k] = uncommitted[k]
        BY <3>4, <2>2
      <4>3. CASE uncommitted[k].by = s
        <5>1. VersionMatches(rows[k], uncommitted[k].row, tx'[s])
          BY <4>1, <4>3, <1>3
        <5>2. QED
          BY <5>1, <4>2, <4>3
      <4>4. CASE uncommitted[k].by # s
        <5>1. tx'[uncommitted[k].by] = tx[uncommitted[k].by]
          BY <4>2, <4>4, <3>1, <1>2
        <5>2. QED
          BY <4>1, <4>2, <5>1
      <4>5. QED
        BY <4>3, <4>4
    <3>5. QED
      BY <3>2, <3>3, <3>4
  <2>7. StatementInv'
    <3> SUFFICES ASSUME NEW u \in Sessions
                 PROVE  /\ StatementOK(tx'[u]) /\ tx'[u].at <= now
                        /\ \A k \in tx'[u].todo : Visible(u, k)' # NotCreated
                        /\ tx'[u].op \in {"claim", "complete", "recover"}
                              => tx'[u].todo \intersect WrittenBy(u)' = {}
      BY <1>1 DEF StatementInv
    <3>0. tx[u].todo \subseteq Jobs
      BY DEF Inv, TypeOK, Tx
    <3>1. CASE u = s
      BY <3>0, <3>1, <1>1, <1>3, <2>5 DEF Inv, StatementInv
    <3>2. CASE u # s
      BY <3>0, <3>2, <1>2, <2>4 DEF Inv, StatementInv
    <3>3. QED
      BY <3>1, <3>2
  <2>8. QED
    BY <1>4, <2>3, <2>6, <2>7
<1>8. QED
  BY <1>6, <1>7

\* Sessions end, by a commit, a rollback or a crash: their locks are released,
\* and only rows they held can have changed.
LEMMA EndStep ==
    ASSUME Inv, NEW ended \in SUBSET Sessions,
           tx' = [s \in Sessions |-> IF s \in ended THEN NoTx ELSE tx[s]],
           uncommitted' = [j \in Jobs |-> IF \E s \in ended : j \in WrittenBy(s)
                                          THEN None ELSE uncommitted[j]],
           rows' \in [Jobs -> Row \union {NotCreated, Deleted}],
           \A j \in Jobs : \/ rows'[j] = rows[j]
                           \/ /\ rows'[j] # NotCreated
                              /\ \E s \in ended : j \in WrittenBy(s),
           now' = now
    PROVE  /\ uncommitted' \in [Jobs -> [by : Sessions, row : Row \union {Deleted}]
                                         \union {None}]
           /\ tx' \in [Sessions -> Tx] /\ LockInv' /\ StatementInv'
<1>1. NoTx \in Tx /\ now >= 0
  BY BoundsAssumption DEF NoTx, Tx, Ops, Actors, Time, Inv, TypeOK
<1>2. tx' \in [Sessions -> Tx]
  BY <1>1 DEF Inv, TypeOK
<1>3. uncommitted' \in [Jobs -> [by : Sessions, row : Row \union {Deleted}]
                               \union {None}]
  BY DEF Inv, TypeOK
<1>4. LockInv'
  <2> SUFFICES ASSUME NEW j \in Jobs, uncommitted'[j] # None
               PROVE  VersionMatches(rows'[j], uncommitted'[j].row,
                                     tx'[uncommitted'[j].by])
    BY DEF LockInv
  <2>1. uncommitted'[j] = uncommitted[j] /\ \A s \in ended : j \notin WrittenBy(s)
    OBVIOUS
  <2>2. uncommitted[j].by \in Sessions \ ended
    BY <2>1 DEF Inv, TypeOK, WrittenBy
  <2>3. rows'[j] = rows[j] /\ tx'[uncommitted[j].by] = tx[uncommitted[j].by]
    BY <2>1, <2>2
  <2>4. QED
    BY <2>1, <2>3 DEF Inv, LockInv
<1>5. StatementInv'
  <2> SUFFICES ASSUME NEW u \in Sessions
               PROVE  /\ StatementOK(tx'[u]) /\ tx'[u].at <= now
                      /\ \A k \in tx'[u].todo : Visible(u, k)' # NotCreated
                      /\ tx'[u].op \in {"claim", "complete", "recover"}
                            => tx'[u].todo \intersect WrittenBy(u)' = {}
    BY DEF StatementInv
  <2>1. CASE u \in ended
    BY <2>1, <1>1 DEF StatementOK, NoTx
  <2>2. CASE u \notin ended
    <3>1. tx'[u] = tx[u] /\ tx[u].todo \subseteq Jobs
      BY <2>2 DEF Inv, TypeOK, Tx
    <3>2. \A s \in ended : WrittenBy(s) \intersect WrittenBy(u) = {}
      BY <2>2 DEF WrittenBy
    <3>3. WrittenBy(u)' = WrittenBy(u)
      BY <3>2 DEF WrittenBy
    <3>4. ASSUME NEW k \in tx[u].todo PROVE Visible(u, k)' # NotCreated
      <4>1. k \in Jobs /\ Visible(u, k) # NotCreated
        BY <3>1 DEF Inv, StatementInv
      <4>2. CASE k \in WrittenBy(u)
        BY <4>1, <4>2, <3>2, <3>3 DEF Visible
      <4>3. CASE k \notin WrittenBy(u)
        BY <4>1, <4>3, <3>3 DEF Visible
      <4>4. QED
        BY <4>2, <4>3
    <3>5. QED
      BY <3>1, <3>3, <3>4 DEF Inv, StatementInv
  <2>3. QED
    BY <2>1, <2>2
<1>6. QED
  BY <1>2, <1>3, <1>4, <1>5

\* One UPDATE or DELETE row of each statement.
LEMMA RowStepInv ==
    ASSUME Inv, NEW s \in Sessions, NEW j \in Jobs,
           \/ ClaimRow(s, j) \/ CompleteRow(s, j) \/ RecoverRow(s, j)
           \/ PatchRow(s, j) \/ DeleteRow(s, j)
    PROVE  Inv'
<1> DEFINE row == Visible(s, j)
<1>1. tx[s] \in Tx /\ StatementOK(tx[s])
  BY DEF Inv, TypeOK, StatementInv
<1>2. CASE ClaimRow(s, j)
  <2>1. Visit(s, j, "claim", ClaimMatches(row), ClaimWrites(tx[s], row))
    BY <1>2 DEF ClaimRow
  <2>2. tx[s].op = "claim" /\ tx[s].actor \in Runners
    BY <1>1, <2>1 DEF Visit, StatementOK
  <2>3. row \in Row => ClaimWrites(tx[s], row) \in Row
    BY <1>1, <2>2 DEF ClaimWrites, Row, Tx, Statuses
  <2>4. row \in Row /\ ClaimMatches(row)
          => VersionMatches(row, ClaimWrites(tx[s], row), tx[s])
    BY <2>2 DEF VersionMatches
  <2>5. QED
    BY <2>1, <2>3, <2>4, VisitStep DEF Inv, TypeOK, RunInv, Visit
<1>3. CASE CompleteRow(s, j)
  <2> DEFINE version == [row EXCEPT !.status = tx[s].status]
  <2>1. Visit(s, j, "complete", CompleteMatches(tx[s], row), version)
    BY <1>3 DEF CompleteRow
  <2>2. tx[s].op = "complete" /\ tx[s].status \in TerminalStatuses
    BY <1>1, <2>1 DEF Visit, StatementOK
  <2>3. row \in Row => version \in Row
    BY <1>1, <2>2 DEF Row, Tx, Statuses
  <2>4. row \in Row /\ CompleteMatches(tx[s], row) => VersionMatches(row, version, tx[s])
    BY <2>2 DEF VersionMatches
  <2>5. QED
    BY <2>1, <2>3, <2>4, VisitStep DEF Inv, TypeOK, RunInv, Visit
<1>4. CASE RecoverRow(s, j)
  <2> DEFINE version == [row EXCEPT !.status = "ERROR"]
  <2>1. Visit(s, j, "recover", RecoverMatches(tx[s], row), version)
    BY <1>4 DEF RecoverRow
  <2>2. tx[s].op = "recover"
    BY <2>1 DEF Visit
  <2>3. row \in Row => version \in Row
    BY DEF Row, Statuses, TerminalStatuses
  <2>4. row \in Row /\ RecoverMatches(tx[s], row) => VersionMatches(row, version, tx[s])
    BY <2>2 DEF VersionMatches
  <2>5. QED
    BY <2>1, <2>3, <2>4, VisitStep DEF Inv, TypeOK, RunInv, Visit
<1>5. CASE PatchRow(s, j)
  <2>1. Visit(s, j, "patch", TRUE, PatchWrites(tx[s], row))
    BY <1>5 DEF PatchRow
  <2>2. row \in Row => PatchWrites(tx[s], row) \in Row
    BY <1>1 DEF PatchWrites, Row, Tx
  <2>3. QED
    BY <2>1, <2>2, VisitStep DEF Inv, TypeOK, RunInv, Visit
<1>6. CASE DeleteRow(s, j)
  BY <1>6, VisitStep DEF DeleteRow, Inv, TypeOK, RunInv, Visit
<1>7. QED
  BY <1>2, <1>3, <1>4, <1>5, <1>6

\* Every statement, commit, rollback and crash keeps the invariant.
LEMMA NextInv == Inv /\ [Next]_vars => Inv'
<1> SUFFICES ASSUME Inv, [Next]_vars PROVE Inv'
  OBVIOUS
<1>0. 0 \in Time /\ -1 \notin Jobs /\ Never = -1 /\ now \in Time
  BY BoundsAssumption, JobsAssumption DEF Inv, TypeOK, Time, Never
<1>1. ASSUME NEW s \in Sessions, NEW j \in Jobs, NEW status \in ClientStatuses,
             NEW max \in MaxSecondsChoices, Create(s, j, status, max)
      PROVE  Inv'
  <2> DEFINE row == [status |-> status, runner |-> None, started |-> Never, max |-> max]
  <2>1. row \in Row
    BY DEF Row, Statuses
  <2>2. QED
    BY <1>1, <2>1, InsertStep DEF Create, Inv, TypeOK, RunInv
<1>2. ASSUME NEW s \in Sessions, NEW r \in Runners, NEW j \in Jobs,
             NEW runNow \in RunNowChoices, NEW max \in MaxSecondsChoices,
             CreateRunnerOwned(s, r, j, runNow, max)
      PROVE  Inv'
  <2> DEFINE row == [status  |-> IF runNow THEN "RUNNING" ELSE "PENDING",
                     runner  |-> r,
                     started |-> IF runNow THEN now ELSE Never,
                     max     |-> max]
             op  == IF runNow THEN "create_running" ELSE "create"
  <2>1. row \in Row
    BY <1>0 DEF Row, Statuses, ClientStatuses
  <2>2. /\ Insert(s, j, row) /\ Begin(s, op, r, {}, Keep, Keep)
        /\ UNCHANGED <<rows, runs, dead, now>> /\ Ready(s, r)
    BY <1>2 DEF CreateRunnerOwned, Ready
  <2>3. op \in {"create", "create_running"}
    OBVIOUS
  <2>4. op = "create_running" => row.status = "RUNNING" /\ row.runner = r /\ row.started = now
    OBVIOUS
  <2> HIDE DEF row, op
  <2>5. QED
    BY <2>1, <2>2, <2>3, <2>4, InsertStep DEF Inv, TypeOK, RunInv
<1>3. ASSUME NEW s \in Sessions, NEW j \in Jobs,
             NEW status \in ClientStatuses \union {Keep},
             NEW max \in MaxSecondsChoices \union {Keep}, Update(s, j, status, max)
      PROVE  Inv'
  <2> DEFINE col1 == IF status = Visible(s, j).status THEN Keep ELSE status
             col2 == IF max = Visible(s, j).max THEN Keep ELSE max
             todo == IF col1 = Keep /\ col2 = Keep THEN {} ELSE {j}
  <2>1. Begin(s, "patch", Client, todo, col1, col2)
    BY <1>3 DEF Update
  <2>2. /\ col1 \in Statuses \union {Keep} /\ col2 \in MaxSecondsChoices \union {Keep}
        /\ todo \subseteq {j}
    BY DEF Statuses
  <2> HIDE DEF col1, col2, todo
  <2>3. \A k \in todo : Visible(s, k) # NotCreated
    BY <1>3, <2>2 DEF Update
  <2>4. QED
    BY <1>3, <2>1, <2>2, <2>3, BeginStep DEF Update, Inv, TypeOK, RunInv
<1>4. ASSUME NEW s \in Sessions, NEW j \in Jobs, Delete(s, j)
      PROVE  Inv'
  <2>1. /\ Begin(s, "delete", Client, {j}, Keep, Keep) /\ Ready(s, Client)
        /\ UNCHANGED <<rows, uncommitted, runs, dead, now>>
    BY <1>4 DEF Delete
  <2>2. {j} \in SUBSET Jobs /\ \A k \in {j} : Visible(s, k) # NotCreated
    BY <1>4 DEF Delete
  <2>3. QED
    BY <2>1, <2>2, BeginStep DEF Inv, TypeOK, RunInv
<1>5. ASSUME NEW s \in Sessions, NEW r \in Runners, ClaimPending(s, r)
      PROVE  Inv'
  <2>1. PICK ids \in SUBSET Jobs : /\ Begin(s, "claim", r, ids, Keep, Keep)
                                  /\ \A j \in ids : Visible(s, j) # NotCreated
    BY <1>5 DEF ClaimPending, FirstById, VisibleIn
  <2>2. Ready(s, r)
    BY <1>5 DEF ClaimPending, Ready
  <2>3. UNCHANGED <<rows, uncommitted, runs, dead, now>>
    BY <1>5 DEF ClaimPending
  <2>4. r # Client
    BY ActorsAssumption
  <2>5. tx' \in [Sessions -> Tx] /\ LockInv' /\ StatementInv'
    BY <2>1, <2>2, <2>3, <2>4, BeginStep
  <2>6. QED
    BY <2>3, <2>5 DEF Inv, TypeOK, RunInv
<1>6. ASSUME NEW s \in Sessions, NEW run \in runs, NEW status \in TerminalStatuses,
             Complete(s, run, status)
      PROVE  Inv'
  <2>1. run.job \in Jobs /\ run.runner \in Runners /\ runs' \subseteq Run
    BY <1>6 DEF Complete, Inv, TypeOK, Run
  <2>2. Ready(s, run.runner) /\ status \in Statuses
    BY <1>6 DEF Complete, Ready, Statuses
  <2>3. /\ Begin(s, "complete", run.runner, {run.job}, status, Keep)
        /\ UNCHANGED <<rows, uncommitted, dead, now>>
    BY <1>6 DEF Complete
  <2>4. \A j \in {run.job} : Visible(s, j) # NotCreated
    <3>1. rows[run.job] # NotCreated
      BY DEF Inv, RunInv
    <3>2. QED
      BY <2>1, <3>1, NullsAssumption DEF Visible, WrittenBy, Inv, TypeOK
  <2>5. RunInv'
    BY <1>6, <2>3 DEF Complete, Inv, RunInv
  <2>6. /\ run.runner # Client /\ run.runner \in Runners \union {Client}
        /\ {run.job} \in SUBSET Jobs
        /\ status \in Statuses \union {Keep} /\ Keep \in MaxSecondsChoices \union {Keep}
    BY <2>1, <2>2, ActorsAssumption
  <2>7. tx' \in [Sessions -> Tx] /\ LockInv' /\ StatementInv'
    BY <2>2, <2>3, <2>4, <2>6, BeginStep
  <2>8. QED
    BY <2>1, <2>3, <2>5, <2>7 DEF Inv, TypeOK
<1>7. ASSUME NEW s \in Sessions, NEW r \in Runners, RecoverDeadRunners(s, r)
      PROVE  Inv'
  <2>1. PICK ids \in SUBSET Jobs : /\ Begin(s, "recover", r, ids, Keep, Keep)
                                  /\ \A j \in ids : Visible(s, j) # NotCreated
    BY <1>7 DEF RecoverDeadRunners, VisibleIn
  <2>2. Ready(s, r)
    BY <1>7 DEF RecoverDeadRunners, Ready
  <2>3. UNCHANGED <<rows, uncommitted, runs, dead, now>>
    BY <1>7 DEF RecoverDeadRunners
  <2>4. r # Client
    BY ActorsAssumption
  <2>5. tx' \in [Sessions -> Tx] /\ LockInv' /\ StatementInv'
    BY <2>1, <2>2, <2>3, <2>4, BeginStep
  <2>6. QED
    BY <2>3, <2>5 DEF Inv, TypeOK, RunInv
<1>8. ASSUME NEW s \in Sessions, Commit(s)
      PROVE  Inv'
  <2>1. \A j \in Jobs : j \in WrittenBy(s) => uncommitted[j].row \in Row \union {Deleted}
    BY DEF Inv, TypeOK, WrittenBy
  <2>2. /\ rows' \in [Jobs -> Row \union {NotCreated, Deleted}]
        /\ \A j \in Jobs : j \notin WrittenBy(s) => rows'[j] = rows[j]
        /\ \A j \in WrittenBy(s) : rows'[j] # NotCreated
    BY <1>8, <2>1, VisibleType, NullsAssumption DEF Commit, Inv, Visible, WrittenBy
  <2>3. tx' = [u \in Sessions |-> IF u \in {s} THEN NoTx ELSE tx[u]]
    BY <1>8 DEF Commit, Release, Inv, TypeOK
  <2>4. uncommitted' = [j \in Jobs |-> IF \E u \in {s} : j \in WrittenBy(u)
                                       THEN None ELSE uncommitted[j]]
    BY <1>8 DEF Commit, Release
  <2>5. runs' \subseteq Run
    <3>1. tx[s].op \in {"claim", "create_running"} => tx[s].actor \in Runners
      BY DEF Inv, StatementInv, StatementOK
    <3>2. WrittenBy(s) \subseteq Jobs /\ tx[s].at \in Time
      BY DEF WrittenBy, Inv, TypeOK, Tx
    <3>3. QED
      BY <1>8, <3>1, <3>2 DEF Commit, StartBodies, Inv, TypeOK, Run
  <2>6. RunInv'
    <3> SUFFICES ASSUME NEW run \in runs' PROVE rows'[run.job] # NotCreated
      BY DEF RunInv
    <3>1. CASE run \in runs
      <4>1. run.job \in Jobs /\ rows[run.job] # NotCreated
        BY <3>1 DEF Inv, TypeOK, RunInv, Run
      <4>2. QED
        BY <4>1, <2>2
    <3>2. CASE run \notin runs
      <4>1. run.job \in WrittenBy(s)
        BY <1>8, <3>2 DEF Commit, StartBodies
      <4>2. QED
        BY <4>1, <2>2
    <3>3. QED
      BY <3>1, <3>2
  <2>7. QED
    BY <1>8, <2>2, <2>3, <2>4, <2>5, <2>6, EndStep DEF Commit, Inv, TypeOK
<1>9. ASSUME NEW s \in Sessions, Rollback(s)
      PROVE  Inv'
  <2>1. tx' = [u \in Sessions |-> IF u \in {s} THEN NoTx ELSE tx[u]]
    BY <1>9 DEF Rollback, Release, Inv, TypeOK
  <2>2. uncommitted' = [j \in Jobs |-> IF \E u \in {s} : j \in WrittenBy(u)
                                       THEN None ELSE uncommitted[j]]
    BY <1>9 DEF Rollback, Release
  <2>3. UNCHANGED <<rows, runs, dead, now>> /\ {s} \in SUBSET Sessions
    BY <1>9 DEF Rollback, Release
  <2>4. /\ uncommitted' \in [Jobs -> [by : Sessions, row : Row \union {Deleted}]
                                     \union {None}]
        /\ tx' \in [Sessions -> Tx] /\ LockInv' /\ StatementInv'
    BY <2>1, <2>2, <2>3, EndStep DEF Inv, TypeOK
  <2>5. QED
    BY <2>3, <2>4 DEF Inv, TypeOK, RunInv
<1>9a. ASSUME NEW s \in Sessions, CloseClaim(s)
       PROVE  Inv'
  <2>1. tx' = [u \in Sessions |-> IF u \in {s} THEN NoTx ELSE tx[u]]
    BY <1>9a DEF CloseClaim, Release, Inv, TypeOK
  <2>2. uncommitted' = [j \in Jobs |-> IF \E u \in {s} : j \in WrittenBy(u)
                                       THEN None ELSE uncommitted[j]]
    BY <1>9a DEF CloseClaim, Release
  <2>3. UNCHANGED <<rows, dead, now>> /\ {s} \in SUBSET Sessions
    BY <1>9a DEF CloseClaim
  <2>4. /\ uncommitted' \in [Jobs -> [by : Sessions, row : Row \union {Deleted}]
                                     \union {None}]
        /\ tx' \in [Sessions -> Tx] /\ LockInv' /\ StatementInv'
    BY <2>1, <2>2, <2>3, EndStep DEF Inv, TypeOK
  <2>5. tx[s].actor \in Runners /\ tx[s].at \in Time /\ WrittenBy(s) \subseteq Jobs
    BY <1>9a DEF CloseClaim, WrittenBy, Inv, TypeOK, Tx, StatementInv, StatementOK
  <2>6. runs' \subseteq Run
    BY <1>9a, <2>5 DEF CloseClaim, StartBodies, Inv, TypeOK, Run
  <2>7. ASSUME NEW j \in WrittenBy(s) PROVE rows[j] # NotCreated
    <3>1. j \in Jobs /\ uncommitted[j] # None /\ uncommitted[j].by = s
      BY DEF WrittenBy
    <3>2. rows[j] \in Row
      BY <1>9a, <3>1 DEF CloseClaim, Inv, LockInv, VersionMatches
    <3>3. QED
      BY <3>2, NullsAssumption
  <2>8. RunInv'
    <3> SUFFICES ASSUME NEW run \in runs' PROVE rows[run.job] # NotCreated
      BY <2>3 DEF RunInv
    <3>1. CASE run \in runs
      BY <3>1 DEF Inv, RunInv
    <3>2. CASE run \notin runs
      <4>1. run.job \in WrittenBy(s)
        BY <1>9a, <3>2 DEF CloseClaim, StartBodies
      <4>2. QED
        BY <2>7, <4>1
    <3>3. QED
      BY <3>1, <3>2
  <2>9. QED
    BY <2>3, <2>4, <2>6, <2>8 DEF Inv, TypeOK
<1>10. ASSUME NEW r \in Runners, Crash(r)
       PROVE  Inv'
  <2> DEFINE its == {s \in Sessions : tx[s].actor = r}
  <2>1. /\ its \in SUBSET Sessions
        /\ tx' = [u \in Sessions |-> IF u \in its THEN NoTx ELSE tx[u]]
        /\ uncommitted' = [j \in Jobs |-> IF \E u \in its : j \in WrittenBy(u)
                                          THEN None ELSE uncommitted[j]]
        /\ UNCHANGED <<rows, now>>
    BY <1>10 DEF Crash
  <2>2. runs' \subseteq Run /\ dead' \subseteq Runners
    BY <1>10 DEF Crash, Inv, TypeOK
  <2>3. RunInv'
    BY <1>10 DEF Crash, Inv, RunInv
  <2> HIDE DEF its
  <2>4. QED
    BY <2>1, <2>2, <2>3, EndStep DEF Inv, TypeOK
<1>11. ASSUME Tick PROVE Inv'
  <2>1. now' \in Time /\ now <= now' /\ now \in Int
    BY <1>0, <1>11, BoundsAssumption DEF Tick, Time
  <2>2. /\ UNCHANGED <<rows, uncommitted, tx, runs, dead>>
        /\ \A s \in Sessions : /\ WrittenBy(s)' = WrittenBy(s)
                               /\ \A j \in Jobs : Visible(s, j)' = Visible(s, j)
    BY <1>11 DEF Tick, WrittenBy, Visible
  <2>3. TypeOK' /\ LockInv'
    BY <2>1, <2>2 DEF Inv, TypeOK, LockInv
  <2>4. ASSUME NEW s \in Sessions PROVE tx[s].at <= now' /\ tx[s].todo \subseteq Jobs
    <3>1. tx[s].at \in Int /\ tx[s].at <= now /\ tx[s].todo \subseteq Jobs
      BY DEF Inv, TypeOK, StatementInv, Tx, Time
    <3>2. QED
      BY <3>1, <2>1, BoundsAssumption DEF Time
  <2>5. StatementInv'
    BY <2>2, <2>4 DEF Inv, StatementInv
  <2>6. QED
    BY <2>2, <2>3, <2>5 DEF Inv, RunInv
<1>12. CASE UNCHANGED vars
  BY <1>12 DEF vars, Inv, TypeOK, LockInv, StatementInv, RunInv, Visible, WrittenBy
<1>13. QED
  BY <1>1, <1>2, <1>3, <1>4, <1>5, <1>6, <1>7, <1>8, <1>9, <1>10, <1>11, <1>12,
     <1>9a, RowStepInv
     DEF Next, ClientRequest, RunnerCall

-----------------------------------------------------------------------------
\* Every reachable state is well typed (rows, locks, statements, bodies and the
\* clock of job_service.py's transactions).
THEOREM TypeCorrect == Spec => []TypeOK
<1>1. Inv => TypeOK
  BY DEF Inv
<1>2. QED
  BY InitInv, NextInv, <1>1, PTL DEF Spec

\* An uncommitted version still matches the committed row under its lock.
THEOREM LocksMatchRows == Spec => []LockInv
<1>1. Inv => LockInv
  BY DEF Inv
<1>2. QED
  BY InitInv, NextInv, <1>1, PTL DEF Spec

\* A row changes only at a commit, into the version that was locked.
LEMMA ChangedRow ==
    ASSUME Inv, [Next]_vars, NEW j \in Jobs, rows'[j] # rows[j]
    PROVE  \E s \in Sessions : Commit(s) /\ j \in WrittenBy(s)
<1>1. \E s \in Sessions : Commit(s)
  <2>1. ASSUME NEW s \in Sessions, ClientRequest(s) PROVE rows' = rows
    BY <2>1 DEF ClientRequest, Create, Update, Delete
  <2>2. ASSUME NEW s \in Sessions, RunnerCall(s) PROVE rows' = rows
    BY <2>2 DEF RunnerCall, ClaimPending, RecoverDeadRunners, CreateRunnerOwned, Complete
  <2>3. ASSUME NEW s \in Sessions, NEW k \in Jobs,
               \/ ClaimRow(s, k) \/ CompleteRow(s, k) \/ RecoverRow(s, k)
               \/ PatchRow(s, k) \/ DeleteRow(s, k)
        PROVE  rows' = rows
    BY <2>3 DEF ClaimRow, CompleteRow, RecoverRow, PatchRow, DeleteRow, Visit
  <2>4. ASSUME NEW s \in Sessions, CloseClaim(s) \/ Rollback(s) PROVE rows' = rows
    BY <2>4 DEF CloseClaim, Rollback
  <2>5. ASSUME NEW r \in Runners, Crash(r) PROVE rows' = rows
    BY <2>5 DEF Crash
  <2>6. Tick \/ UNCHANGED vars => rows' = rows
    BY DEF Tick, vars
  <2>7. QED
    BY <2>1, <2>2, <2>3, <2>4, <2>5, <2>6 DEF Next
<1>2. ASSUME NEW s \in Sessions, Commit(s), j \notin WrittenBy(s) PROVE FALSE
  BY <1>2 DEF Commit, Visible, Inv, TypeOK
<1>3. QED
  BY <1>1, <1>2

\* Nothing but a client's statement replaces a COMPLETED or ERROR row.
THEOREM TerminalRowsAreKept == Spec => TerminalStatusKept
<1> DEFINE Kept(j) == HasRow(j) /\ rows[j].status \in TerminalStatuses /\ rows'[j] # rows[j]
                       => uncommitted[j] # None /\ tx[uncommitted[j].by].actor = Client
<1>1. ASSUME Inv, [Next]_vars, NEW j \in Jobs,
             HasRow(j), rows[j].status \in TerminalStatuses, rows'[j] # rows[j]
      PROVE  uncommitted[j] # None /\ tx[uncommitted[j].by].actor = Client
  <2>1. PICK s \in Sessions : Commit(s) /\ j \in WrittenBy(s)
    BY <1>1, ChangedRow
  <2>2. uncommitted[j] # None /\ uncommitted[j].by = s
    BY <2>1 DEF WrittenBy
  <2>3. VersionMatches(rows[j], uncommitted[j].row, tx[s]) /\ StatementOK(tx[s])
        /\ tx[s].op \in Ops
    BY <1>1, <2>2 DEF Inv, LockInv, StatementInv, TypeOK, Tx
  <2>4. tx[s].op \notin {"none", "claim", "complete", "recover", "create_running"}
    BY <1>1, <2>3 DEF VersionMatches, ClaimMatches, CompleteMatches, RecoverMatches,
                      Overdue, TerminalStatuses, HasRow
  <2>5. tx[s].op \in {"create", "patch", "delete"}
    BY <2>3, <2>4 DEF Ops
  <2>6. tx[s].actor = Client
    BY <1>1, <2>3, <2>5 DEF VersionMatches, StatementOK, HasRow
  <2>7. QED
    BY <2>2, <2>6
<1>2. Inv /\ [Next]_vars => [\A j \in Jobs : Kept(j)]_vars
  BY <1>1
<1>3. QED
  BY InitInv, NextInv, <1>2, PTL DEF Spec, TerminalStatusKept

\* What a commit changes in a row that exists was locked by the committing
\* session, and still matches that lock.
LEMMA ChangedByFacts ==
    ASSUME Inv, [Next]_vars, NEW j \in Jobs, NEW op, ChangedBy(j, op)
    PROVE  /\ VersionMatches(rows[j], uncommitted[j].row, tx[uncommitted[j].by])
           /\ uncommitted[j].by \in Sessions
           /\ tx[uncommitted[j].by] \in Tx
           /\ tx[uncommitted[j].by].at <= now
           /\ tx[uncommitted[j].by].op = op
BY DEF ChangedBy, Inv, LockInv, StatementInv, TypeOK

\* A completion is only ever committed over the completing runner's own claim.
THEOREM OwnersComplete == Spec => CompletedByOwner
<1>1. ASSUME Inv, [Next]_vars, NEW j \in Jobs, ChangedBy(j, "complete")
      PROVE  /\ rows[j].status = "RUNNING"
             /\ rows[j].runner = tx[uncommitted[j].by].actor
  BY <1>1, ChangedByFacts DEF VersionMatches, CompleteMatches
<1>2. Inv /\ [Next]_vars => [\A j \in Jobs : ChangedBy(j, "complete") =>
          /\ rows[j].status = "RUNNING"
          /\ rows[j].runner = tx[uncommitted[j].by].actor]_vars
  BY <1>1
<1>3. QED
  BY InitInv, NextInv, <1>2, PTL DEF Spec, CompletedByOwner

\* The recovery only ever commits ERROR over a claim that is overdue then.
THEOREM OnlyOverdueRowsAreRecovered == Spec => RecoveryOnlyWhenOverdue
<1>1. ASSUME Inv, [Next]_vars, NEW j \in Jobs, ChangedBy(j, "recover")
      PROVE  rows[j].status = "RUNNING" /\ rows[j].started + rows[j].max < now
  <2> DEFINE t == tx[uncommitted[j].by]
  <2>1. rows[j] \in Row /\ Overdue(rows[j], t.at) /\ t \in Tx /\ t.at <= now
    BY <1>1, ChangedByFacts DEF VersionMatches, RecoverMatches
  <2>2. /\ t.at \in Int /\ now \in Int /\ rows[j].started \in Int /\ rows[j].max \in Int
    <3>1. Time \subseteq Int /\ Time \union {Never} \subseteq Int
      BY BoundsAssumption DEF Time, Never
    <3>2. MaxSecondsChoices \subseteq Int
      BY BoundsAssumption
    <3>3. now \in Time /\ t.at \in Time
      BY <1>1, <2>1 DEF Tx, Inv, TypeOK
    <3>4. rows[j].started \in Time \union {Never} /\ rows[j].max \in MaxSecondsChoices
      BY <2>1 DEF Row
    <3>5. QED
      BY <3>1, <3>2, <3>3, <3>4
  <2>3. QED
    BY <2>1, <2>2 DEF Overdue
<1>2. Inv /\ [Next]_vars => [\A j \in Jobs : ChangedBy(j, "recover") =>
          rows[j].status = "RUNNING" /\ rows[j].started + rows[j].max < now]_vars
  BY <1>1
<1>3. QED
  BY InitInv, NextInv, <1>2, PTL DEF Spec, RecoveryOnlyWhenOverdue

\* A claim is only ever committed over a row that is still PENDING, and gives the
\* row to the runner whose claim it is.
THEOREM ClaimsTakePending == Spec => ClaimsTakePendingRows
<1>1. ASSUME Inv, [Next]_vars, NEW j \in Jobs, ChangedBy(j, "claim")
      PROVE  /\ rows[j].status = "PENDING"
             /\ rows'[j].runner = tx[uncommitted[j].by].actor
  <2>1. /\ rows[j] \in Row /\ rows[j].status = "PENDING"
        /\ uncommitted[j].row = ClaimWrites(tx[uncommitted[j].by], rows[j])
    BY <1>1, ChangedByFacts DEF VersionMatches, ClaimMatches
  <2>2. PICK s \in Sessions : Commit(s) /\ j \in WrittenBy(s)
    BY <1>1, ChangedRow DEF ChangedBy
  <2>3. rows'[j] = uncommitted[j].row
    BY <2>2 DEF Commit, Visible
  <2>4. QED
    BY <2>1, <2>3 DEF ClaimWrites, Row
<1>2. Inv /\ [Next]_vars => [\A j \in Jobs : ChangedBy(j, "claim") =>
          /\ rows[j].status = "PENDING"
          /\ rows'[j].runner = tx[uncommitted[j].by].actor]_vars
  BY <1>1
<1>3. QED
  BY InitInv, NextInv, <1>2, PTL DEF Spec, ClaimsTakePendingRows

-----------------------------------------------------------------------------
(***************************************************************************)
(* Capacity.  Between the count of a sweep and the commit of its claim     *)
(* nothing else makes a row RUNNING for that runner, if no job is claimed  *)
(* on insert.                                                              *)
(***************************************************************************)
Running(r)    == {j \in Jobs : /\ HasRow(j) /\ rows[j].status = "RUNNING"
                               /\ rows[j].runner = r}
Claims(s, r)  == tx[s].op = "claim" /\ tx[s].actor = r
Committing(s) == WrittenBy(s) \union tx[s].todo

\* A version that is RUNNING was so before, unless a claim wrote it.
VersionOK(j) ==
    /\ uncommitted[j] # None /\ uncommitted[j].row # Deleted
    /\ uncommitted[j].row.status = "RUNNING" /\ tx[uncommitted[j].by].op # "claim"
    => j \in Running(uncommitted[j].row.runner)

\* What a runner has and is about to claim fits.
Fits(r) ==
    /\ \A s, t \in Sessions : Claims(s, r) /\ Claims(t, r) => s = t
    /\ Cardinality(Running(r)) <= MaxConcurrentJobs
    /\ \A s \in Sessions :
          Claims(s, r) => Cardinality(Running(r) \union Committing(s)) <= MaxConcurrentJobs

PatchOK(s) == tx[s].op = "patch" => tx[s].status \in ClientStatuses \union {Keep}

CapInv == /\ \A s \in Sessions : PatchOK(s)
          /\ \A j \in Jobs : VersionOK(j)
          /\ \A r \in Runners : Fits(r)

\* ORDER BY id LIMIT n returns at most n ids.
LEMMA FirstByIdBound ==
    ASSUME NEW S \in SUBSET Jobs, IsFiniteSet(S), NEW n \in Nat
    PROVE  /\ FirstById(S, n) \subseteq S /\ IsFiniteSet(FirstById(S, n))
           /\ Cardinality(FirstById(S, n)) <= n
<1> DEFINE F        == FirstById(S, n)
           below(j) == {k \in S : k < j}
           place    == [j \in F |-> Cardinality(below(j))]
<1>1. F \subseteq S /\ S \subseteq Jobs /\ \A j \in F : Cardinality(below(j)) < n
  BY DEF FirstById
<1> HIDE DEF F
<1>2. \A j \in Jobs : IsFiniteSet(below(j)) /\ Cardinality(below(j)) \in Nat
  BY FS_Subset, FS_CardinalityType
<1>3. ASSUME NEW i \in F, NEW j \in F, i < j
      PROVE  Cardinality(below(i)) < Cardinality(below(j))
  <2>1. i \in Int /\ j \in Int /\ i \in S /\ i \in Jobs /\ j \in Jobs
    BY <1>1, JobsAssumption
  <2>2. i \notin below(i) /\ below(i) \union {i} \subseteq below(j)
    <3>1. ASSUME NEW k \in S, k < i PROVE k < j
      BY <1>1, <1>3, <2>1, <3>1, JobsAssumption
    <3>2. ~(i < i)
      BY <2>1
    <3>3. QED
      BY <1>3, <2>1, <3>1, <3>2
  <2>3. Cardinality(below(i) \union {i}) = Cardinality(below(i)) + 1
    BY <1>2, <2>1, <2>2, FS_AddElement
  <2>4. Cardinality(below(i) \union {i}) <= Cardinality(below(j))
    BY <1>2, <2>1, <2>2, FS_Subset
  <2>5. QED
    BY <1>2, <2>1, <2>3, <2>4
<1> HIDE DEF below
<1>4. place \in Injection(F, 0 .. n - 1)
  <2>1. \A j \in F : Cardinality(below(j)) \in 0 .. n - 1
    BY <1>1, <1>2
  <2>2. place \in [F -> 0 .. n - 1] /\ \A j \in F : place[j] = Cardinality(below(j))
    BY <2>1
  <2> HIDE DEF place
  <2>3. ASSUME NEW i \in F, NEW j \in F, place[i] = place[j]
        PROVE  i = j
    <3>1. /\ Cardinality(below(i)) = Cardinality(below(j))
          /\ Cardinality(below(i)) \in Nat
      BY <1>1, <1>2, <2>2, <2>3
    <3>2. ~(i < j) /\ ~(j < i)
      BY <1>3, <3>1
    <3>3. QED
      BY <1>1, <3>2, JobsAssumption
  <2>4. QED
    BY <2>2, <2>3 DEF Injection, IsInjective
<1>5. IsFiniteSet(0 .. n - 1) /\ Cardinality(0 .. n - 1) = n
  BY FS_Interval
<1> HIDE DEF place
<1>6. IsFiniteSet(F) /\ Cardinality(F) <= n
  BY <1>4, <1>5, FS_Injection
<1>7. QED
  BY <1>1, <1>6 DEF F

\* A version that stays, with the row beneath it, stays as it should be.
LEMMA VersionKept ==
    ASSUME NEW j \in Jobs, VersionOK(j),
           uncommitted'[j] # None =>
               /\ uncommitted'[j] = uncommitted[j] /\ rows'[j] = rows[j]
               /\ tx[uncommitted[j].by].op = "claim" => tx'[uncommitted[j].by].op = "claim"
    PROVE  VersionOK(j)'
BY DEF VersionOK, Running, HasRow

\* A step in which a runner gains nothing.
LEMMA FitsKept ==
    ASSUME IsFiniteSet(Jobs), TypeOK, NEW r \in Runners, Fits(r),
           Running(r)' \subseteq Running(r),
           \A s \in Sessions : Claims(s, r)' => Claims(s, r) /\ Committing(s)' \subseteq Committing(s)
    PROVE  Fits(r)'
<1>1. ASSUME NEW S \in SUBSET Jobs, NEW T \in SUBSET S, Cardinality(S) <= MaxConcurrentJobs
      PROVE  Cardinality(T) <= MaxConcurrentJobs
  <2>1. IsFiniteSet(S) /\ IsFiniteSet(T) /\ Cardinality(T) <= Cardinality(S)
    BY FS_Subset
  <2>2. Cardinality(S) \in Nat /\ Cardinality(T) \in Nat
    BY <2>1, FS_CardinalityType
  <2>3. QED
    BY <1>1, <2>1, <2>2, BoundsAssumption
<1>2. \A s \in Sessions : Running(r) \union Committing(s) \subseteq Jobs
  BY DEF TypeOK, Tx, Running, Committing, WrittenBy
<1>3. Running(r) \subseteq Jobs
  BY DEF Running
<1>4. (Cardinality(Running(r)) <= MaxConcurrentJobs)'
  BY <1>1, <1>3 DEF Fits
<1>5. ASSUME NEW s \in Sessions, Claims(s, r)'
      PROVE  (Cardinality(Running(r) \union Committing(s)) <= MaxConcurrentJobs)'
  <2>1. Running(r)' \union Committing(s)' \subseteq Running(r) \union Committing(s)
    BY <1>5
  <2>2. Cardinality(Running(r) \union Committing(s)) <= MaxConcurrentJobs
    BY <1>5 DEF Fits
  <2>3. QED
    BY <1>1, <1>2, <2>1, <2>2
<1>6. QED
  BY <1>4, <1>5 DEF Fits

\* A statement other than a claim begins, with or without an INSERT.
LEMMA BeginCap ==
    ASSUME IsFiniteSet(Jobs), Inv, CapInv, NEW s \in Sessions, NEW op, NEW actor, NEW todo,
           NEW status, NEW max, Begin(s, op, actor, todo, status, max), op # "claim",
           op = "patch" => status \in ClientStatuses \union {Keep},
           Ready(s, actor), rows' = rows,
           \/ uncommitted' = uncommitted
           \/ \E j \in Jobs : \E row : row.status # "RUNNING" /\ Insert(s, j, row)
    PROVE  CapInv'
<1>1. /\ tx'[s].op = op /\ tx'[s].status = status
      /\ \A u \in Sessions : u # s => tx'[u] = tx[u]
  BY DEF Begin, Inv, TypeOK
<1>2. tx[s].op # "claim"
  BY ActorsAssumption DEF Ready, NoTx, Inv, StatementInv, StatementOK
<1>3. \A u \in Sessions : PatchOK(u)'
  BY <1>1 DEF CapInv, PatchOK
<1>4. \A j \in Jobs : \/ uncommitted'[j] = uncommitted[j]
                      \/ /\ uncommitted[j] = None /\ uncommitted'[j].by = s
                         /\ uncommitted'[j].row.status # "RUNNING"
  BY DEF Insert, Inv, TypeOK
<1>5. ASSUME NEW j \in Jobs PROVE VersionOK(j)'
  <2>1. CASE uncommitted'[j] = uncommitted[j]
    <3>1. uncommitted[j] # None => uncommitted[j].by \in Sessions
      BY DEF Inv, TypeOK
    <3>2. VersionOK(j) /\ rows'[j] = rows[j]
      BY DEF CapInv
    <3>3. QED
      BY <1>1, <1>2, <2>1, <3>1, <3>2, VersionKept
  <2>2. CASE uncommitted'[j].row.status # "RUNNING"
    BY <2>2 DEF VersionOK
  <2>3. QED
    BY <1>4, <2>1, <2>2
<1>6. ASSUME NEW r \in Runners PROVE Fits(r)'
  <2>1. Running(r)' = Running(r)
    BY DEF Running, HasRow
  <2>2. ASSUME NEW u \in Sessions, Claims(u, r)'
        PROVE  Claims(u, r) /\ Committing(u)' \subseteq Committing(u)
    <3>1. u # s /\ tx'[u] = tx[u]
      BY <1>1, <2>2 DEF Claims
    <3>2. WrittenBy(u)' \subseteq WrittenBy(u)
      BY <1>4, <3>1 DEF WrittenBy
    <3>3. QED
      BY <2>2, <3>1, <3>2 DEF Claims, Committing
  <2>3. QED
    BY <2>1, <2>2, FitsKept DEF Inv, CapInv
<1>7. QED
  BY <1>3, <1>5, <1>6 DEF CapInv

\* The sweep counts what the runner has and selects no more ids than are free.
LEMMA ClaimCap ==
    ASSUME IsFiniteSet(Jobs), Inv, CapInv, NEW s \in Sessions, NEW r \in Runners, ClaimPending(s, r)
    PROVE  CapInv'
<1> DEFINE pending  == VisibleIn(s, {"PENDING"})
           capacity == MaxConcurrentJobs - CountRunning(s, r)
           ids      == FirstById(pending, capacity)
<1>1. /\ tx[s] = NoTx /\ capacity > 0 /\ Begin(s, "claim", r, ids, Keep, Keep)
      /\ \A t \in Sessions : ~Claims(t, r)
      /\ UNCHANGED <<rows, uncommitted>>
  BY DEF ClaimPending, Claims
<1>2. WrittenBy(s) = {}
  BY <1>1, UnusedSessionHoldsNothing
<1>3. CountRunning(s, r) = Cardinality(Running(r))
  <2>1. {j \in VisibleIn(s, {"RUNNING"}) : Visible(s, j).runner = r} = Running(r)
    BY <1>2 DEF VisibleIn, Visible, Running, HasRow
  <2>2. QED
    BY <2>1 DEF CountRunning
<1>4. /\ Running(r) \subseteq Jobs /\ IsFiniteSet(Running(r))
      /\ Cardinality(Running(r)) \in Nat
  <2>1. Running(r) \subseteq Jobs
    BY DEF Running
  <2>2. QED
    BY <2>1, FS_Subset, FS_CardinalityType
<1>5. capacity \in Nat /\ capacity = MaxConcurrentJobs - Cardinality(Running(r))
  BY <1>1, <1>3, <1>4, BoundsAssumption
<1>6. pending \in SUBSET Jobs /\ IsFiniteSet(pending)
  <2>1. pending \in SUBSET Jobs
    BY DEF VisibleIn
  <2>2. QED
    BY <2>1, FS_Subset
<1> HIDE DEF pending, capacity
<1>7. ids \subseteq Jobs /\ IsFiniteSet(ids) /\ Cardinality(ids) <= capacity
  BY <1>5, <1>6, FirstByIdBound
<1> HIDE DEF ids
<1>8. Cardinality(Running(r) \union ids) <= MaxConcurrentJobs
  <2>1. Cardinality(Running(r) \union ids)
           = Cardinality(Running(r)) + Cardinality(ids) - Cardinality(Running(r) \intersect ids)
    BY <1>4, <1>7, FS_Union
  <2>2. IsFiniteSet(Running(r) \intersect ids)
    BY <1>4, FS_Subset
  <2>3. Cardinality(Running(r) \intersect ids) \in Nat /\ Cardinality(ids) \in Nat
    BY <1>7, <2>2, FS_CardinalityType
  <2>4. QED
    BY <1>4, <1>5, <1>7, <2>1, <2>3, BoundsAssumption
<1>9. /\ tx'[s].op = "claim" /\ tx'[s].actor = r /\ tx'[s].todo = ids
      /\ \A u \in Sessions : u # s => tx'[u] = tx[u]
  BY <1>1 DEF Begin, Inv, TypeOK
<1>10. /\ \A u \in Sessions : WrittenBy(u)' = WrittenBy(u)
       /\ \A q \in Runners : Running(q)' = Running(q)
  BY <1>1 DEF WrittenBy, Running, HasRow
<1>11. \A u \in Sessions : PatchOK(u)'
  BY <1>9 DEF CapInv, PatchOK
<1>12. ASSUME NEW j \in Jobs PROVE VersionOK(j)'
  <2>1. uncommitted[j] # None => uncommitted[j].by \in Sessions /\ uncommitted[j].by # s
    BY <1>2 DEF Inv, TypeOK, WrittenBy
  <2>2. VersionOK(j)
    BY DEF CapInv
  <2>3. QED
    BY <1>1, <1>9, <2>1, <2>2, VersionKept
<1>13. ASSUME NEW q \in Runners PROVE Fits(q)'
  <2>1. CASE q = r
    <3>1. \A u \in Sessions : Claims(u, r)' => u = s
      BY <1>1, <1>9 DEF Claims
    <3>2. Committing(s)' = ids
      BY <1>2, <1>9, <1>10 DEF Committing
    <3>3. Cardinality(Running(r)) <= MaxConcurrentJobs
      BY DEF CapInv, Fits
    <3>4. QED
      BY <1>8, <1>10, <2>1, <3>1, <3>2, <3>3 DEF Fits
  <2>2. CASE q # r
    <3>1. \A u \in Sessions : Claims(u, q)' => Claims(u, q) /\ Committing(u)' = Committing(u)
      BY <1>9, <1>10, <2>2 DEF Claims, Committing
    <3>2. QED
      BY <1>10, <3>1, FitsKept DEF Inv, CapInv
  <2>3. QED
    BY <2>1, <2>2
<1>9a. QED
  BY <1>11, <1>12, <1>13 DEF CapInv

\* One row of an UPDATE or DELETE.
LEMMA VisitCap ==
    ASSUME IsFiniteSet(Jobs), Inv, CapInv, NEW s \in Sessions, NEW j \in Jobs,
           NEW op, NEW matches, NEW version, Visit(s, j, op, matches, version),
           \/ op = "claim" \/ version = Deleted \/ version.status # "RUNNING"
           \/ matches /\ Visible(s, j) # Deleted
                => /\ Visible(s, j).status = version.status
                   /\ Visible(s, j).runner = version.runner
    PROVE  CapInv'
<1>1. /\ tx[s].op = op /\ j \in tx[s].todo /\ rows' = rows
      /\ uncommitted[j] = None \/ uncommitted[j].by = s
      /\ tx'[s] = [tx[s] EXCEPT !.todo = @ \ {j}]
      /\ \A u \in Sessions : u # s => tx'[u] = tx[u]
  BY DEF Visit, WrittenBy, Inv, TypeOK
<1>2. /\ \A k \in Jobs : k # j => uncommitted'[k] = uncommitted[k]
      /\ \/ uncommitted'[j] = uncommitted[j]
         \/ uncommitted'[j] = [by |-> s, row |-> version] /\ matches /\ Visible(s, j) # Deleted
  BY DEF Visit, Inv, TypeOK
<1>3. tx[s] \in Tx
  BY DEF Inv, TypeOK
<1>4. tx'[s].op = tx[s].op /\ tx'[s].actor = tx[s].actor /\ tx'[s].status = tx[s].status
      /\ tx'[s].todo = tx[s].todo \ {j}
  BY <1>1, <1>3 DEF Tx
<1>5. \A u \in Sessions : PatchOK(u)'
  BY <1>1, <1>4 DEF CapInv, PatchOK
<1>6. ASSUME NEW k \in Jobs, uncommitted'[k] = uncommitted[k] PROVE VersionOK(k)'
  <2>1. uncommitted[k] # None => uncommitted[k].by \in Sessions
    BY DEF Inv, TypeOK
  <2>2. VersionOK(k)
    BY DEF CapInv
  <2>3. QED
    BY <1>1, <1>4, <1>6, <2>1, <2>2, VersionKept
<1>7. ASSUME uncommitted'[j] = [by |-> s, row |-> version], matches, Visible(s, j) # Deleted,
             version # Deleted, version.status = "RUNNING", op # "claim"
      PROVE  j \in Running(version.runner)
  <2>1. Visible(s, j).status = "RUNNING" /\ Visible(s, j).runner = version.runner
    BY <1>7
  <2>2. CASE j \in WrittenBy(s)
    <3>1. Visible(s, j) = uncommitted[j].row /\ uncommitted[j] # None /\ uncommitted[j].by = s
      BY <2>2 DEF Visible, WrittenBy
    <3>2. VersionOK(j)
      BY DEF CapInv
    <3>3. QED
      BY <1>1, <1>7, <2>1, <3>1, <3>2 DEF VersionOK
  <2>3. CASE j \notin WrittenBy(s)
    <3>1. Visible(s, j) = rows[j] /\ rows[j] # NotCreated
      BY <1>1, <2>3 DEF Visible, Inv, StatementInv
    <3>2. QED
      BY <1>7, <2>1, <3>1 DEF Running, HasRow
  <2>4. QED
    BY <2>2, <2>3
<1>8. VersionOK(j)'
  <2>1. CASE uncommitted'[j] = uncommitted[j]
    BY <1>6, <2>1
  <2>2. CASE uncommitted'[j] = [by |-> s, row |-> version] /\ matches /\ Visible(s, j) # Deleted
    <3>1. uncommitted'[j].by = s /\ uncommitted'[j].row = version
      BY <2>2
    <3>2. \A r : Running(r)' = Running(r)
      BY <1>1 DEF Running, HasRow
    <3>3. QED
      BY <1>1, <1>4, <1>7, <2>2, <3>1, <3>2 DEF VersionOK
  <2>3. QED
    BY <1>2, <2>1, <2>2
<1>9. ASSUME NEW r \in Runners PROVE Fits(r)'
  <2>1. Running(r)' = Running(r)
    BY <1>1 DEF Running, HasRow
  <2>2. ASSUME NEW u \in Sessions, Claims(u, r)'
        PROVE  Claims(u, r) /\ Committing(u)' \subseteq Committing(u)
    <3>1. CASE u = s
      <4>1. WrittenBy(s)' \subseteq WrittenBy(s) \union {j}
        BY <1>2 DEF WrittenBy
      <4>2. QED
        BY <1>1, <1>4, <2>2, <3>1, <4>1 DEF Claims, Committing
    <3>2. CASE u # s
      <4>1. WrittenBy(u)' \subseteq WrittenBy(u)
        BY <1>2, <3>2 DEF WrittenBy
      <4>2. QED
        BY <1>1, <2>2, <3>2, <4>1 DEF Claims, Committing
    <3>3. QED
      BY <3>1, <3>2
  <2>3. QED
    BY <2>1, <2>2, FitsKept DEF Inv, CapInv
<1>10. QED
  BY <1>2, <1>5, <1>6, <1>8, <1>9 DEF CapInv

\* Sessions end; a commit is the only one that changes rows.
LEMMA EndCap ==
    ASSUME Inv, CapInv, NEW ended \in SUBSET Sessions,
           tx' = [s \in Sessions |-> IF s \in ended THEN NoTx ELSE tx[s]],
           uncommitted' = [j \in Jobs |-> IF \E s \in ended : j \in WrittenBy(s)
                                          THEN None ELSE uncommitted[j]],
           \A j \in Jobs : rows'[j] = rows[j] \/ \E s \in ended : j \in WrittenBy(s)
    PROVE  /\ \A s \in Sessions : PatchOK(s)'
           /\ \A j \in Jobs : VersionOK(j)'
           /\ \A r \in Runners, s \in Sessions :
                 Claims(s, r)' => /\ s \notin ended /\ Claims(s, r)
                                  /\ Committing(s)' \subseteq Committing(s)
<1>1. \A s \in Sessions : PatchOK(s)'
  BY DEF CapInv, PatchOK, NoTx
<1>2. ASSUME NEW j \in Jobs PROVE VersionOK(j)'
  <2>1. ASSUME uncommitted'[j] # None
        PROVE  /\ uncommitted'[j] = uncommitted[j] /\ rows'[j] = rows[j]
               /\ tx'[uncommitted[j].by] = tx[uncommitted[j].by]
    BY <2>1 DEF WrittenBy, Inv, TypeOK
  <2>2. VersionOK(j)
    BY DEF CapInv
  <2>3. QED
    BY <2>1, <2>2, VersionKept
<1>3. ASSUME NEW r \in Runners, NEW s \in Sessions, Claims(s, r)'
      PROVE  /\ s \notin ended /\ Claims(s, r) /\ Committing(s)' \subseteq Committing(s)
  <2>1. s \notin ended /\ tx'[s] = tx[s]
    BY <1>3 DEF Claims, NoTx
  <2>2. WrittenBy(s)' \subseteq WrittenBy(s)
    BY DEF WrittenBy
  <2>3. QED
    BY <1>3, <2>1, <2>2 DEF Claims, Committing
<1>4. QED
  BY <1>1, <1>2, <1>3

\* A claim that commits gives its runner no more than it had room for.
LEMMA CommitCap ==
    ASSUME IsFiniteSet(Jobs), Inv, CapInv, NEW s \in Sessions, Commit(s)
    PROVE  CapInv'
<1>1. /\ rows' = [j \in Jobs |-> Visible(s, j)]
      /\ tx' = [u \in Sessions |-> IF u \in {s} THEN NoTx ELSE tx[u]]
      /\ uncommitted' = [j \in Jobs |-> IF \E u \in {s} : j \in WrittenBy(u)
                                        THEN None ELSE uncommitted[j]]
  BY DEF Commit, Release, Inv, TypeOK
<1>2. \A j \in Jobs : /\ j \notin WrittenBy(s) => rows'[j] = rows[j]
                      /\ j \in WrittenBy(s) => rows'[j] = uncommitted[j].row
  BY <1>1 DEF Visible
<1>3. /\ \A u \in Sessions : PatchOK(u)'
      /\ \A j \in Jobs : VersionOK(j)'
      /\ \A r \in Runners, u \in Sessions :
            Claims(u, r)' => u # s /\ Claims(u, r) /\ Committing(u)' \subseteq Committing(u)
  BY <1>1, <1>2, EndCap
<1>4. ASSUME NEW r \in Runners, NEW j \in Running(r)', j \in WrittenBy(s), ~Claims(s, r)
      PROVE  j \in Running(r)
  <2>1. /\ j \in Jobs /\ uncommitted[j] # None /\ uncommitted[j].by = s
        /\ rows'[j] = uncommitted[j].row
    BY <1>2, <1>4 DEF WrittenBy
  <2>2. /\ uncommitted[j].row # Deleted /\ uncommitted[j].row.status = "RUNNING"
        /\ uncommitted[j].row.runner = r
    BY <1>4, <2>1 DEF Running, HasRow
  <2>3. tx[s].op # "claim"
    <3>1. ASSUME tx[s].op = "claim" PROVE FALSE
      <4>1. rows[j] \in Row /\ uncommitted[j].row = ClaimWrites(tx[s], rows[j])
        BY <2>1, <3>1 DEF Inv, LockInv, VersionMatches
      <4>2. uncommitted[j].row.runner = tx[s].actor
        BY <4>1 DEF ClaimWrites, Row
      <4>3. QED
        BY <1>4, <2>2, <3>1, <4>2 DEF Claims
    <3>2. QED
      BY <3>1
  <2>4. VersionOK(j)
    BY <2>1 DEF CapInv
  <2>5. QED
    BY <2>1, <2>2, <2>3, <2>4 DEF VersionOK
<1>5. \A r \in Runners : Running(r)' \subseteq Running(r) \union WrittenBy(s)
  BY <1>2 DEF Running, HasRow
<1>6. ASSUME NEW r \in Runners PROVE Fits(r)'
  <2>1. CASE Claims(s, r)
    <3>1. \A u \in Sessions : ~Claims(u, r)'
      BY <1>3, <2>1 DEF CapInv, Fits
    <3>2. /\ Running(r)' \subseteq Running(r) \union Committing(s)
          /\ Running(r) \union Committing(s) \subseteq Jobs
      BY <1>5 DEF Committing, Running, WrittenBy, Inv, TypeOK, Tx
    <3>3. Cardinality(Running(r) \union Committing(s)) <= MaxConcurrentJobs
      BY <2>1 DEF CapInv, Fits
    <3>4. IsFiniteSet(Running(r) \union Committing(s))
      BY <3>2, FS_Subset
    <3>5. /\ IsFiniteSet(Running(r)')
          /\ Cardinality(Running(r)') <= Cardinality(Running(r) \union Committing(s))
      BY <3>2, <3>4, FS_Subset
    <3>6. Cardinality(Running(r)') \in Nat /\ Cardinality(Running(r) \union Committing(s)) \in Nat
      BY <3>4, <3>5, FS_CardinalityType
    <3>7. (Cardinality(Running(r)) <= MaxConcurrentJobs)'
      BY <3>3, <3>5, <3>6, BoundsAssumption
    <3>8. QED
      BY <3>1, <3>7 DEF Fits
  <2>2. CASE ~Claims(s, r)
    <3>1. Running(r)' \subseteq Running(r)
      BY <1>4, <1>5, <2>2
    <3>2. QED
      BY <1>3, <3>1, FitsKept DEF Inv, CapInv
  <2>3. QED
    BY <2>1, <2>2
<1>7. QED
  BY <1>3, <1>6 DEF CapInv

\* A statement that rewrites one row: only a claim makes it RUNNING.
LEMMA RowStepCap ==
    ASSUME IsFiniteSet(Jobs), Inv, CapInv, NEW s \in Sessions, NEW j \in Jobs,
           \/ ClaimRow(s, j) \/ CompleteRow(s, j) \/ RecoverRow(s, j)
           \/ PatchRow(s, j) \/ DeleteRow(s, j)
    PROVE  CapInv'
<1> DEFINE row == Visible(s, j)
<1>1. row \in Row \union {NotCreated, Deleted} /\ StatementOK(tx[s]) /\ tx[s] \in Tx
  BY VisibleType DEF Inv, TypeOK, StatementInv
<1>2. ASSUME j \in tx[s].todo, row # Deleted PROVE row \in Row
  BY <1>1, <1>2 DEF Inv, StatementInv
<1>3. CASE ClaimRow(s, j)
  BY <1>3, VisitCap DEF ClaimRow
<1>4. CASE CompleteRow(s, j)
  <2>1. Visit(s, j, "complete", CompleteMatches(tx[s], row), [row EXCEPT !.status = tx[s].status])
    BY <1>4 DEF CompleteRow
  <2>2. tx[s].status \in TerminalStatuses /\ j \in tx[s].todo
    BY <1>1, <2>1 DEF Visit, StatementOK
  <2>3. CASE row = Deleted
    BY <2>1, <2>3, VisitCap
  <2>4. CASE row # Deleted
    <3>1. [row EXCEPT !.status = tx[s].status].status # "RUNNING"
      BY <1>2, <2>2, <2>4 DEF Row, TerminalStatuses
    <3>2. QED
      BY <2>1, <3>1, VisitCap
  <2>5. QED
    BY <2>3, <2>4
<1>5. CASE RecoverRow(s, j)
  <2>1. Visit(s, j, "recover", RecoverMatches(tx[s], row), [row EXCEPT !.status = "ERROR"])
    BY <1>5 DEF RecoverRow
  <2>2. j \in tx[s].todo
    BY <2>1 DEF Visit
  <2>3. CASE row = Deleted
    BY <2>1, <2>3, VisitCap
  <2>4. CASE row # Deleted
    <3>1. [row EXCEPT !.status = "ERROR"].status # "RUNNING"
      BY <1>2, <2>2, <2>4 DEF Row
    <3>2. QED
      BY <2>1, <3>1, VisitCap
  <2>5. QED
    BY <2>3, <2>4
<1>6. CASE PatchRow(s, j)
  <2>1. Visit(s, j, "patch", TRUE, PatchWrites(tx[s], row)) /\ row # Deleted
    BY <1>6 DEF PatchRow
  <2>2. row \in Row /\ tx[s].status \in ClientStatuses \union {Keep}
    BY <1>2, <2>1 DEF Visit, CapInv, PatchOK
  <2>3. /\ PatchWrites(tx[s], row).runner = row.runner
        /\ \/ PatchWrites(tx[s], row).status = row.status
           \/ PatchWrites(tx[s], row).status \in ClientStatuses
    BY <2>2 DEF PatchWrites, Row
  <2>4. PatchWrites(tx[s], row).status = row.status \/ PatchWrites(tx[s], row).status # "RUNNING"
    BY <2>3 DEF ClientStatuses
  <2>5. QED
    BY <2>1, <2>3, <2>4, VisitCap
<1>7. CASE DeleteRow(s, j)
  BY <1>7, VisitCap DEF DeleteRow
<1>8. QED
  BY <1>3, <1>4, <1>5, <1>6, <1>7

\* The statements with which a request or a runner begins.
LEMMA CallCap ==
    ASSUME IsFiniteSet(Jobs), TRUE \notin RunNowChoices, Inv, CapInv, NEW s \in Sessions,
           ClientRequest(s) \/ RunnerCall(s)
    PROVE  CapInv'
<1>1. ASSUME NEW j \in Jobs, NEW status \in ClientStatuses, NEW max \in MaxSecondsChoices,
             Create(s, j, status, max)
      PROVE  CapInv'
  <2> DEFINE row == [status |-> status, runner |-> None, started |-> Never, max |-> max]
  <2>1. row.status # "RUNNING"
    BY DEF ClientStatuses
  <2>2. /\ Insert(s, j, row) /\ Begin(s, "create", Client, {}, Keep, Keep)
        /\ Ready(s, Client) /\ rows' = rows
    BY <1>1 DEF Create
  <2> HIDE DEF row
  <2>3. QED
    BY <2>1, <2>2, BeginCap
<1>2. ASSUME NEW r \in Runners, NEW j \in Jobs, NEW runNow \in RunNowChoices,
             NEW max \in MaxSecondsChoices, CreateRunnerOwned(s, r, j, runNow, max)
      PROVE  CapInv'
  <2>1. runNow = FALSE
    BY BoundsAssumption
  <2> DEFINE row == [status |-> "PENDING", runner |-> r, started |-> Never, max |-> max]
  <2>2. /\ Insert(s, j, row) /\ Begin(s, "create", r, {}, Keep, Keep)
        /\ Ready(s, r) /\ rows' = rows
    BY <1>2, <2>1 DEF CreateRunnerOwned, Ready
  <2>3. row.status # "RUNNING"
    OBVIOUS
  <2> HIDE DEF row
  <2>4. QED
    BY <2>2, <2>3, BeginCap
<1>3. ASSUME NEW j \in Jobs, NEW status \in ClientStatuses \union {Keep},
             NEW max \in MaxSecondsChoices \union {Keep}, Update(s, j, status, max)
      PROVE  CapInv'
  <2> DEFINE col1 == IF status = Visible(s, j).status THEN Keep ELSE status
             col2 == IF max = Visible(s, j).max THEN Keep ELSE max
             todo == IF col1 = Keep /\ col2 = Keep THEN {} ELSE {j}
  <2>1. /\ Begin(s, "patch", Client, todo, col1, col2)
        /\ Ready(s, Client) /\ rows' = rows /\ uncommitted' = uncommitted
    BY <1>3 DEF Update
  <2>2. col1 \in ClientStatuses \union {Keep}
    OBVIOUS
  <2> HIDE DEF col1, col2, todo
  <2>3. QED
    BY <2>1, <2>2, BeginCap
<1>4. ASSUME NEW j \in Jobs, Delete(s, j) PROVE CapInv'
  BY <1>4, BeginCap DEF Delete
<1>5. ASSUME NEW r \in Runners, RecoverDeadRunners(s, r) PROVE CapInv'
  <2>1. PICK ids : Begin(s, "recover", r, ids, Keep, Keep)
    BY <1>5 DEF RecoverDeadRunners
  <2>2. Ready(s, r) /\ rows' = rows /\ uncommitted' = uncommitted
    BY <1>5 DEF RecoverDeadRunners, Ready
  <2>3. QED
    BY <2>1, <2>2, BeginCap
<1>6. ASSUME NEW run \in runs, NEW status \in TerminalStatuses, Complete(s, run, status)
      PROVE  CapInv'
  <2>1. /\ Begin(s, "complete", run.runner, {run.job}, status, Keep) /\ Ready(s, run.runner)
        /\ rows' = rows /\ uncommitted' = uncommitted
    BY <1>6 DEF Complete, Ready
  <2>2. QED
    BY <2>1, BeginCap
<1>7. QED
  BY <1>1, <1>2, <1>3, <1>4, <1>5, <1>6, ClaimCap DEF ClientRequest, RunnerCall

LEMMA NextCap ==
    ASSUME IsFiniteSet(Jobs), TRUE \notin RunNowChoices
    PROVE  Inv /\ CapInv /\ [Next]_vars => CapInv'
<1> SUFFICES ASSUME Inv, CapInv, [Next]_vars PROVE CapInv'
  OBVIOUS
<1>1. ASSUME NEW s \in Sessions, CloseClaim(s) \/ Rollback(s) PROVE CapInv'
  <2>1. /\ tx' = [u \in Sessions |-> IF u \in {s} THEN NoTx ELSE tx[u]]
        /\ uncommitted' = [j \in Jobs |-> IF \E u \in {s} : j \in WrittenBy(u)
                                          THEN None ELSE uncommitted[j]]
        /\ rows' = rows /\ {s} \in SUBSET Sessions
    BY <1>1 DEF CloseClaim, Rollback, Release, Inv, TypeOK
  <2>2. /\ \A u \in Sessions : PatchOK(u)'
        /\ \A j \in Jobs : VersionOK(j)'
        /\ \A r \in Runners, u \in Sessions :
              Claims(u, r)' => Claims(u, r) /\ Committing(u)' \subseteq Committing(u)
    BY <2>1, EndCap
  <2>3. \A r \in Runners : Running(r)' = Running(r)
    BY <2>1 DEF Running, HasRow
  <2>4. \A r \in Runners : Fits(r)'
    BY <2>2, <2>3, FitsKept DEF Inv, CapInv
  <2>5. QED
    BY <2>2, <2>4 DEF CapInv
<1>2. ASSUME NEW q \in Runners, Crash(q) PROVE CapInv'
  <2> DEFINE its == {s \in Sessions : tx[s].actor = q}
  <2>1. /\ its \in SUBSET Sessions
        /\ tx' = [u \in Sessions |-> IF u \in its THEN NoTx ELSE tx[u]]
        /\ uncommitted' = [j \in Jobs |-> IF \E u \in its : j \in WrittenBy(u)
                                          THEN None ELSE uncommitted[j]]
        /\ rows' = rows
    BY <1>2 DEF Crash
  <2> HIDE DEF its
  <2>2. /\ \A u \in Sessions : PatchOK(u)'
        /\ \A j \in Jobs : VersionOK(j)'
        /\ \A r \in Runners, u \in Sessions :
              Claims(u, r)' => Claims(u, r) /\ Committing(u)' \subseteq Committing(u)
    BY <2>1, EndCap
  <2>3. \A r \in Runners : Running(r)' = Running(r)
    BY <2>1 DEF Running, HasRow
  <2>4. \A r \in Runners : Fits(r)'
    BY <2>2, <2>3, FitsKept DEF Inv, CapInv
  <2>5. QED
    BY <2>2, <2>4 DEF CapInv
<1>3. ASSUME Tick \/ UNCHANGED vars PROVE CapInv'
  <2>1. UNCHANGED <<rows, uncommitted, tx>>
    BY <1>3 DEF Tick, vars
  <2>2. QED
    BY <2>1 DEF CapInv, PatchOK, VersionOK, Fits, Running, HasRow, Claims, Committing, WrittenBy
<1>4. QED
  BY <1>1, <1>2, <1>3, CallCap, RowStepCap, CommitCap DEF Next

LEMMA InitCap == Init => CapInv
<1> SUFFICES ASSUME Init PROVE CapInv
  OBVIOUS
<1>1. \A r \in Runners : Running(r) = {}
  BY DEF Init, Running, HasRow
<1>2. \A s \in Sessions : tx[s].op = "none"
  BY DEF Init, NoTx
<1>3. QED
  BY <1>1, <1>2, FS_EmptySet, BoundsAssumption DEF Init, CapInv, PatchOK, VersionOK, Fits, Claims

\* A runner that claims through sweeps never has more RUNNING rows than
\* max_concurrent_jobs, whatever clients, completions and other runners do between its
\* count, its UPDATE and its commit; nothing is claimed on insert (run_now).
THEOREM SweepsKeepCapacity ==
    ASSUME IsFiniteSet(Jobs), TRUE \notin RunNowChoices
    PROVE  Spec => []RunnerWithinCapacity
<1>1. CapInv => RunnerWithinCapacity
  BY DEF CapInv, Fits, Running, RunnerWithinCapacity
<1>2. Inv /\ CapInv /\ [Next]_vars => CapInv'
  BY NextCap
<1>3. QED
  BY InitInv, NextInv, InitCap, <1>1, <1>2, PTL DEF Spec
=============================================================================
