-------------------------- MODULE Sandboxes_proofs --------------------------
(***************************************************************************)
(* Proofs about Sandboxes, for any number of requests, configs, snapshots  *)
(* and sandboxes: the order of a creation, that a claim is exclusive, how  *)
(* far several refresh loops overfill the pool, and that a snapshot row    *)
(* has its artifact.                                                       *)
(***************************************************************************)
EXTENDS Sandboxes, WellFoundedInduction, FiniteSetTheorems, TLAPS

USE WarmAssumption, BoundAssumption

Below == {p \in Nat \X Nat : p[1] < p[2]}

\* A set of numbers that is not empty has a least one, and Min names it.
LEMMA MinIsLeast ==
    ASSUME NEW S \in SUBSET Nat, S # {}
    PROVE  Min(S) \in S /\ \A x \in S : Min(S) <= x
<1>1. IsWellFoundedOn(Below, Nat)
  BY NatLessThanWellFounded DEF OpToRel, Below
<1>2. PICK x \in S : \A y \in S : ~(<<y, x>> \in Below)
  BY <1>1, WFMin
<1>3. \A y \in S : x <= y
  <2> TAKE y \in S
  <2>1. ~(y < x)
    <3>1. y \in Nat /\ x \in Nat
      OBVIOUS
    <3>2. <<y, x>> \notin Below
      BY <1>2
    <3>3. QED
      BY <3>1, <3>2 DEF Below
  <2>2. QED
    BY <2>1
<1>4. QED
  BY <1>3 DEF Min

-----------------------------------------------------------------------------
(* The inductive invariant.                                                *)

\* Steps of a creation that has its number and its volume, but no sandbox yet.
Building == {"run", "restore", "service", "deployment"}
\* Steps that hold on to a snapshot.
Snapping == {"capture", "row", "artifact", "commit"}
\* The steps under Docker's claim lock.
Claiming == {"rename", "unpause"}

Owners == Configs \cup {Warm, Nobody}
Lives == {"none", "running", "paused"}
Ops == {"none", "create", "refresh", "sweep", "update", "delete", "capture", "unsnap"}
Pcs == {"idle", "list", "patch", "workspace", "pvc", "pause", "desire", "scale", "remove", "rmdir",
        "rmservice", "rmpvc", "sweep", "turn"} \cup Building \cup Snapping \cup Claiming
Boxes == [owner : Owners, life : Lives, stamp : BOOLEAN]
Acts == [op : Ops, pc : Pcs, box : 0..MaxBoxes, owner : Owners, life : Lives,
         cands : SUBSET Ids, mark : SUBSET Ids, count : Nat, goal : Nat,
         snap : Snapshots \cup {NoSnapshot}]

TypeInv ==
    /\ provider \in {"docker", "k8s"} /\ made \in 0..MaxBoxes
    /\ box \in [Ids -> Boxes] /\ disk \subseteq Ids /\ service \subseteq Ids
    /\ tar \in [Snapshots -> {"none", "part", "whole"}] /\ rows \subseteq Snapshots
    /\ act \in [Threads -> Acts]

\* What exists has been numbered; what does not has nothing left.
BoxInv == \A b \in Ids : IF Exists(b) THEN b <= made ELSE box[b] = Absent

\* What a thread remembers, beside the state it is about.
Fits(t, a) ==
    /\ a.box <= made /\ \A b \in a.cands : b <= made
    /\ a.pc \in Claiming \cup {"list", "patch"} => a.op = "create"
    /\ a.op = "create" => a.owner \in Configs
    /\ a.op = "refresh" => t \in Loops
    /\ a.pc \in {"turn", "pause"} => a.op = "refresh"
    /\ a.pc \in {"rename", "patch"} => a.cands # {}
    /\ a.pc \in Snapping => a.snap \in Snapshots
    /\ a.pc \in Building => a.box \in disk /\ ~Exists(a.box)
    /\ a.pc = "deployment" => a.box \in service
    /\ a.pc = "patch" => ~Docker /\ \A b \in a.cands \ a.mark : box[b].owner = Warm
    /\ a.pc \in {"capture", "row"} => a.snap \notin rows
    /\ Docker /\ a.pc = "row" => tar[a.snap] = "whole"

\* What two threads may not share: the number of a sandbox that is being
\* created, and a snapshot that is being captured.
Apart(a, c) ==
    /\ a.pc \in Building => c.box # a.box /\ a.box \notin c.cands
    /\ a.pc \in {"capture", "row"} /\ c.pc \in Snapping => a.snap # c.snap

ThreadInv == \A t \in Threads : Fits(t, act[t])
PairInv == \A t, u \in Threads : t # u => Apart(act[t], act[u])

SInv == TypeInv /\ BoxInv /\ ThreadInv /\ PairInv

\* All claims on a Docker daemon come from one process; refresh loops claim nothing.
OneProcess == \A t, u \in Requests : ProcessOf[t] = ProcessOf[u]

\* The claim lock has one holder, and what it listed nobody else has taken.
LockInv ==
    /\ \A t, u \in Threads : t # u /\ act[t].pc \in Claiming => act[u].pc \notin Claiming
    /\ \A t \in Threads : act[t].pc = "rename" =>
          \A b \in act[t].cands : box[b].owner \in {Warm, Nobody}

\* What a refresh is doing: it creates only below its goal, under the image tag.
Making == {"workspace", "pvc"} \cup Building
Removing == {"remove", "rmdir", "rmservice", "rmpvc"}
CountOK(a) ==
    /\ a.op \in {"none", "refresh"} /\ (a.op = "none" => a.pc = "idle")
    /\ a.goal <= MaxTarget
    /\ a.pc \in Making \cup {"pause"} => LoopKey = "tag" /\ a.count < a.goal
CountInv == \A t \in Loops : CountOK(act[t])

\* The sandboxes that a refresh is still going to add, by its count; the one that it has
\* started and is about to pause is in the pool already.
Plan(a) == IF LoopKey = "tag" /\ a.count < a.goal
           THEN (a.goal - a.count) - (IF a.pc = "pause" THEN 1 ELSE 0)
           ELSE 0
\* One element for each sandbox that some loop is still going to add.
Slots == {s \in Loops \X (1..MaxTarget) : s[2] <= Plan(act[s[1]])}
PoolInv == Cardinality(WarmBoxes) + Cardinality(Slots) <= Cardinality(Loops) * MaxTarget

-----------------------------------------------------------------------------
(* What a step does to the threads.                                        *)

\* Two records that differ at most in what a claim has found stale.
Same(a, c) == /\ a.op = c.op /\ a.pc = c.pc /\ a.box = c.box /\ a.owner = c.owner
              /\ a.cands = c.cands /\ a.count = c.count /\ a.goal = c.goal /\ a.snap = c.snap
              /\ c.mark \subseteq a.mark

\* Thread t goes on as a; of the others only stale marks change.
Moved(t, a) == /\ act' \in [Threads -> Acts] /\ act'[t] = a
               /\ \A u \in Threads : u # t => Same(act'[u], act[u])

\* A thread that has nothing to do.
LEMMA IdleOK ==
    /\ Idle \in Acts /\ Idle.op = "none" /\ Idle.pc = "idle" /\ Idle.box = 0 /\ Idle.cands = {}
    /\ Idle.count = 0 /\ Idle.goal = 0
BY DEF Idle, Acts, Ops, Pcs, Owners, Lives, Ids

\* A claim that finds more of what it listed stale.
LEMMA MarkOK ==
    ASSUME NEW a \in Acts, NEW m \in SUBSET Ids, a.mark \subseteq m
    PROVE  /\ [a EXCEPT !.mark = m] \in Acts /\ Same([a EXCEPT !.mark = m], a)
           /\ [a EXCEPT !.mark = m].mark = m
BY DEF Acts, Same

\* A step that writes no sandbox.
LEMMA MovesAlone ==
    ASSUME TypeInv, NEW t \in Threads, NEW a \in Acts, act' = [act EXCEPT ![t] = a]
    PROVE  Moved(t, a)
BY DEF TypeInv, Moved, Same

\* A step that writes sandbox b makes its version stale for the claims that listed it.
LEMMA MovesGo ==
    ASSUME TypeInv, NEW t \in Threads, NEW a \in Acts, NEW b, Go(t, a, b)
    PROVE  /\ Moved(t, a)
           /\ \A u \in Threads : u # t /\ act[u].pc = "patch" /\ b \in act[u].cands =>
                b \in act'[u].mark
<1>1. \A u \in Threads : act[u] \in Acts
  BY DEF TypeInv
<1>2. \A u \in Threads : act[u].mark \subseteq Ids /\ act[u].cands \subseteq Ids
  BY <1>1 DEF Acts
<1>3. \A u \in Threads : u # t /\ act[u].pc = "patch" =>
        act'[u] = [act[u] EXCEPT !.mark = act[u].mark \cup ({b} \cap act[u].cands)]
  BY DEF Go
<1>4. \A u \in Threads : u # t /\ act[u].pc # "patch" => act'[u] = act[u]
  BY DEF Go
<1>5. act'[t] = a
  BY DEF Go
<1>6. \A u \in Threads : u # t /\ act[u].pc = "patch" =>
        /\ act'[u] \in Acts /\ Same(act'[u], act[u])
        /\ act'[u].mark = act[u].mark \cup ({b} \cap act[u].cands)
  <2> SUFFICES ASSUME NEW u \in Threads, u # t, act[u].pc = "patch"
               PROVE  /\ act'[u] \in Acts /\ Same(act'[u], act[u])
                      /\ act'[u].mark = act[u].mark \cup ({b} \cap act[u].cands)
    OBVIOUS
  <2> DEFINE m == act[u].mark \cup ({b} \cap act[u].cands)
  <2>1. m \in SUBSET Ids /\ act[u].mark \subseteq m
    BY <1>2
  <2>2. act'[u] = [act[u] EXCEPT !.mark = m]
    BY <1>3
  <2>3. act[u] \in Acts
    BY <1>1
  <2> HIDE DEF m
  <2>4. act'[u] \in Acts /\ Same(act'[u], act[u]) /\ act'[u].mark = m
    BY <2>1, <2>2, <2>3, MarkOK
  <2> QED
    BY <2>4 DEF m
<1>7. act' \in [Threads -> Acts]
  BY <1>1, <1>4, <1>5, <1>6 DEF Go
<1>8. \A u \in Threads : u # t => Same(act'[u], act[u])
  BY <1>4, <1>6 DEF Same
<1>9. \A u \in Threads : u # t /\ act[u].pc = "patch" /\ b \in act[u].cands => b \in act'[u].mark
  BY <1>6
<1> QED
  BY <1>5, <1>7, <1>8, <1>9 DEF Moved

\* A step that touches sandbox x and snapshot y at most.
OnlyAt(x, y) ==
    /\ provider' = provider /\ made' \in Nat /\ made <= made'
    /\ \A b \in Ids : b # x => box'[b] = box[b]
    /\ \A b \in Ids : b # x /\ b \in disk => b \in disk'
    /\ \A b \in Ids : b # x /\ b \in service => b \in service'
    /\ \A n \in Snapshots : n # y => tar'[n] = tar[n] /\ (n \in rows' => n \in rows)

\* Nobody but t creates sandbox x or captures snapshot y, and a claim that listed x
\* knows that it was written.
NotTheirs(t, x, y) ==
    \A u \in Threads : u # t =>
        /\ act[u].pc \in Building => act[u].box # x
        /\ act[u].pc \in {"capture", "row"} => act[u].snap # y
        /\ act[u].pc = "patch" /\ x \in act[u].cands =>
              (x \in act'[u].mark \/ box'[x] = box[x])

\* What a step on sandbox x and snapshot y leaves of the threads that do not use them.
LEMMA OthersFit ==
    ASSUME SInv, NEW t \in Threads, NEW x, NEW y, NEW a, Moved(t, a),
           OnlyAt(x, y), NotTheirs(t, x, y),
           NEW u \in Threads, u # t
    PROVE  Fits(u, act[u])'
<1>1. Same(act'[u], act[u]) /\ act[u] \in Acts
  BY DEF Moved, SInv, TypeInv
<1>2. Fits(u, act[u]) /\ made \in Nat /\ disk \subseteq Ids
  BY DEF SInv, ThreadInv, TypeInv
<1>9. act[u].pc \in Building => act[u].box # x
  BY DEF NotTheirs
<1>10. act[u].pc \in {"capture", "row"} => act[u].snap # y
  BY DEF NotTheirs
<1>11. act[u].pc = "patch" /\ x \in act[u].cands => (x \in act'[u].mark \/ box'[x] = box[x])
  BY DEF NotTheirs
<1> USE DEF OnlyAt
<1> DEFINE c == act'[u]
<1>3. c.box <= made' /\ \A b \in c.cands : b <= made'
  <2>1. act[u].box \in Nat /\ act[u].cands \subseteq Nat
    BY <1>1 DEF Acts, Ids
  <2> QED
    BY <1>1, <1>2, <2>1 DEF Same, Fits
<1>4. c.pc \in Building => c.box \in disk' /\ box'[c.box].owner = Nobody
  BY <1>1, <1>2, <1>9 DEF Same, Fits, Exists
<1>5. c.pc = "deployment" => c.box \in service'
  BY <1>1, <1>2, <1>9 DEF Same, Fits, Building
<1>6. c.pc = "patch" => ~Docker' /\ \A b \in c.cands \ c.mark : box'[b].owner = Warm
  <2> SUFFICES ASSUME c.pc = "patch", NEW b \in c.cands \ c.mark
               PROVE  ~Docker' /\ box'[b].owner = Warm
    BY <1>1, <1>2 DEF Same, Fits, Docker
  <2>1. b \in Ids /\ b \in act[u].cands \ act[u].mark
    BY <1>1 DEF Same, Acts
  <2> QED
    BY <1>1, <1>2, <1>11, <2>1 DEF Same, Fits, Docker
<1>7. c.pc \in {"capture", "row"} => c.snap \notin rows'
  BY <1>1, <1>2, <1>10 DEF Same, Fits, Snapping
<1>8. Docker' /\ c.pc = "row" => tar'[c.snap] = "whole"
  BY <1>1, <1>2, <1>10 DEF Same, Fits, Snapping, Docker
<1> QED
  <2>1. /\ c.pc \in Claiming \cup {"list", "patch"} => c.op = "create"
        /\ c.op = "create" => c.owner \in Configs
        /\ c.op = "refresh" => u \in Loops
        /\ c.pc \in {"turn", "pause"} => c.op = "refresh"
        /\ c.pc \in {"rename", "patch"} => c.cands # {}
        /\ c.pc \in Snapping => c.snap \in Snapshots
    BY <1>1, <1>2 DEF Same, Fits
  <2> QED
    BY <2>1, <1>3, <1>4, <1>5, <1>6, <1>7, <1>8 DEF Fits, Exists

\* A step keeps the invariant if the thread that takes it fits the new state and
\* stays apart from the others.
LEMMA StepKeeps ==
    ASSUME SInv, NEW t \in Threads, NEW x, NEW y, NEW a, Moved(t, a),
           OnlyAt(x, y), NotTheirs(t, x, y),
           TypeInv', BoxInv', Fits(t, act[t])',
           \A u \in Threads : u # t => Apart(a, act[u]) /\ Apart(act[u], a)
    PROVE  SInv'
<1>1. \A u \in Threads : u # t => Fits(u, act[u])'
  <2> TAKE u \in Threads
  <2> HAVE u # t
  <2> QED
    BY OthersFit
<1>2. ThreadInv'
  BY <1>1 DEF ThreadInv
<1>3. PairInv'
  <2> SUFFICES ASSUME NEW u \in Threads, NEW v \in Threads, u # v
               PROVE  Apart(act'[u], act'[v])
    BY DEF PairInv
  <2>1. Apart(act[u], act[v])
    BY DEF SInv, PairInv
  <2>2. act'[t] = a /\ (u # t => Same(act'[u], act[u])) /\ (v # t => Same(act'[v], act[v]))
    BY DEF Moved
  <2>3. CASE u = t
    BY <2>2, <2>3 DEF Apart, Same
  <2>4. CASE v = t
    BY <2>2, <2>4 DEF Apart, Same
  <2> QED
    BY <2>1, <2>2, <2>3, <2>4 DEF Apart, Same
<1> QED
  BY <1>2, <1>3 DEF SInv

-----------------------------------------------------------------------------
(* Steps after which a thread neither creates, claims nor captures.        *)

\* The sandboxes that thread t goes on with are those it had, or exist.
Old(t, a) ==
    /\ a.box \in {0, act[t].box} \cup act[t].cands \cup {b \in Ids : Exists(b)}
    /\ a.cands \subseteq act[t].cands \cup {b \in Ids : Exists(b)}

Plain(t, a) ==
    /\ a.pc \notin Building \cup Snapping \cup {"rename", "patch"}
    /\ a.pc \in {"unpause", "list"} => a.op = "create"
    /\ a.op = "create" => a.owner \in Configs
    /\ a.op = "refresh" => t \in Loops
    /\ a.pc \in {"turn", "pause"} => a.op = "refresh"

\* Nobody is creating a sandbox that t had or that exists.
LEMMA OldIsNotNew ==
    ASSUME SInv, NEW t \in Threads, NEW a, Old(t, a)
    PROVE  /\ a.box <= made /\ \A b \in a.cands : b <= made
           /\ \A u \in Threads : u # t /\ act[u].pc \in Building =>
                a.box # act[u].box /\ act[u].box \notin a.cands
<1>1. Fits(t, act[t]) /\ made \in Nat /\ act[t] \in Acts
  BY DEF SInv, TypeInv, ThreadInv
<1>2. \A b \in Ids : Exists(b) => b <= made
  BY DEF SInv, BoxInv
<1>3. a.box <= made /\ \A b \in a.cands : b <= made
  BY <1>1, <1>2 DEF Old, Fits
<1>4. ASSUME NEW u \in Threads, u # t, act[u].pc \in Building
      PROVE  a.box # act[u].box /\ act[u].box \notin a.cands
  <2>1. act[u].box \in Ids /\ ~Exists(act[u].box)
    BY <1>4 DEF SInv, TypeInv, ThreadInv, Fits
  <2>2. act[u].box # act[t].box /\ act[u].box \notin act[t].cands
    BY <1>4 DEF SInv, PairInv, Apart
  <2>3. act[u].box # 0
    BY <2>1 DEF Ids
  <2> QED
    BY <2>1, <2>2, <2>3 DEF Old
<1> QED
  BY <1>3, <1>4

\* Such a step keeps the invariant if it respects the sandboxes and snapshots of others.
LEMMA PlainStep ==
    ASSUME SInv, NEW t \in Threads, NEW x, NEW y, NEW a, Moved(t, a), Plain(t, a), Old(t, a),
           OnlyAt(x, y), NotTheirs(t, x, y), TypeInv', BoxInv'
    PROVE  SInv'
<1>1. a.box <= made /\ (\A b \in a.cands : b <= made) /\ a \in Acts /\ made \in Nat
  BY OldIsNotNew DEF Moved, SInv, TypeInv
<1>2. a.box <= made' /\ \A b \in a.cands : b <= made'
  <2>1. a.box \in Nat /\ a.cands \subseteq Nat /\ made' \in Nat /\ made <= made'
    BY <1>1 DEF Acts, Ids, OnlyAt
  <2> QED
    BY <1>1, <2>1
<1>3. act'[t] = a
  BY DEF Moved
<1>4. Fits(t, act[t])'
  BY <1>2, <1>3 DEF Fits, Plain, Building, Snapping, Claiming
<1>5. \A u \in Threads : u # t => Apart(a, act[u]) /\ Apart(act[u], a)
  BY OldIsNotNew DEF Apart, Plain, Snapping
<1> QED
  BY <1>4, <1>5, StepKeeps

\* A step that changes nothing but what t is doing.
LEMMA QuietStep ==
    ASSUME SInv, NEW t \in Threads, NEW a \in Acts, act' = [act EXCEPT ![t] = a],
           UNCHANGED <<provider, cluster, tar, rows>>, Plain(t, a), Old(t, a)
    PROVE  SInv'
<1>1. Moved(t, a)
  BY MovesAlone DEF SInv
<1>2. OnlyAt(0, NoSnapshot)
  BY DEF OnlyAt, cluster, SInv, TypeInv
<1>3. NotTheirs(t, 0, NoSnapshot)
  <2> SUFFICES ASSUME NEW u \in Threads, u # t
               PROVE  /\ act[u].pc \in Building => act[u].box # 0
                      /\ act[u].pc \in {"capture", "row"} => act[u].snap # NoSnapshot
                      /\ act[u].pc = "patch" => 0 \notin act[u].cands
    BY DEF NotTheirs
  <2>1. Fits(u, act[u]) /\ act[u] \in Acts /\ disk \subseteq Ids
    BY DEF SInv, TypeInv, ThreadInv
  <2> QED
    BY <2>1 DEF Fits, Acts, Ids, Snapping
<1>4. TypeInv'
  BY <1>1, Zenon DEF SInv, TypeInv, Moved, cluster
<1>5. BoxInv'
  BY Zenon DEF SInv, BoxInv, Exists, cluster
<1> QED
  BY <1>1, <1>2, <1>3, <1>4, <1>5, PlainStep

\* A step that writes or removes what belongs to one sandbox that t had.
LEMMA TouchStep ==
    ASSUME SInv, NEW t \in Threads, NEW x, x = act[t].box \/ x \in act[t].cands,
           NEW a \in Acts, Moved(t, a), Plain(t, a), Old(t, a),
           UNCHANGED <<provider, made, tar, rows>>,
           box' \in [Ids -> Boxes], \A b \in Ids : b # x => box'[b] = box[b],
           x \in Ids /\ box'[x].owner = Nobody => box'[x] = Absent,
           disk' \subseteq Ids, disk \subseteq disk' \cup {x},
           service' \subseteq Ids, service \subseteq service' \cup {x},
           \A u \in Threads : u # t /\ act[u].pc = "patch" /\ x \in act[u].cands =>
              (x \in act'[u].mark \/ box'[x] = box[x])
    PROVE  SInv'
<1>1. OnlyAt(x, NoSnapshot)
  BY DEF OnlyAt, SInv, TypeInv
<1>2. \A u \in Threads : u # t /\ act[u].pc \in Building => act[u].box # x
  BY DEF SInv, PairInv, Apart
<1>3. \A u \in Threads : act[u].pc \in {"capture", "row"} => act[u].snap # NoSnapshot
  BY DEF SInv, ThreadInv, Fits, Snapping
<1>4. NotTheirs(t, x, NoSnapshot)
  BY <1>2, <1>3 DEF NotTheirs
<1>5. TypeInv'
  <2>1. act' \in [Threads -> Acts]
    BY DEF Moved
  <2> QED
    BY <2>1 DEF SInv, TypeInv
<1>6. BoxInv'
  <2> SUFFICES ASSUME NEW b \in Ids
               PROVE  IF box'[b].owner # Nobody THEN b <= made' ELSE box'[b] = Absent
    BY DEF BoxInv, Exists
  <2>1. CASE b = x
    <3>1. x <= made
      BY DEF SInv, ThreadInv, Fits
    <3> QED
      BY <2>1, <3>1
  <2>2. CASE b # x
    BY <2>2 DEF SInv, BoxInv, Exists
  <2> QED
    BY <2>1, <2>2
<1> QED
  BY <1>1, <1>4, <1>5, <1>6, PlainStep

\* A thread that neither creates nor captures stays apart from the others.
LEMMA LooseIsApart ==
    ASSUME SInv, NEW t \in Threads, NEW a, Old(t, a), a.pc \notin Building \cup Snapping
    PROVE  /\ a.box <= made /\ \A b \in a.cands : b <= made
           /\ \A u \in Threads : u # t => Apart(a, act[u]) /\ Apart(act[u], a)
BY OldIsNotNew DEF Apart, Snapping

\* A step that changes nothing but what t is doing, which fits the state.
LEMMA QuietFits ==
    ASSUME SInv, NEW t \in Threads, NEW a \in Acts, act' = [act EXCEPT ![t] = a],
           UNCHANGED <<provider, cluster, tar, rows>>, Fits(t, a),
           \A u \in Threads : u # t => Apart(a, act[u]) /\ Apart(act[u], a)
    PROVE  SInv'
<1>1. Moved(t, a)
  BY MovesAlone DEF SInv
<1>2. \A u \in Threads : u # t => act'[u] = act[u]
  BY DEF SInv, TypeInv
<1>3. act'[t] = a /\ act' \in [Threads -> Acts]
  BY <1>1 DEF Moved
<1>4. TypeInv'
  BY <1>3, Zenon DEF SInv, TypeInv, cluster
<1>5. BoxInv'
  BY Zenon DEF SInv, BoxInv, Exists, cluster
<1>6. ThreadInv'
  <2> SUFFICES ASSUME NEW u \in Threads PROVE Fits(u, act[u])'
    BY DEF ThreadInv
  <2>1. Fits(u, act'[u])
    BY <1>2, <1>3 DEF SInv, ThreadInv
  <2> QED
    BY <2>1 DEF Fits, Exists, Docker, cluster
<1>7. PairInv'
  <2> SUFFICES ASSUME NEW u \in Threads, NEW v \in Threads, u # v
               PROVE  Apart(act'[u], act'[v])
    BY DEF PairInv
  <2> QED
    BY <1>2, <1>3 DEF SInv, PairInv
<1> QED
  BY <1>4, <1>5, <1>6, <1>7 DEF SInv

\* Docker has no resource versions.
LEMMA NoPatchOnDocker ==
    ASSUME SInv, Docker, NEW u \in Threads
    PROVE  act[u].pc # "patch"
BY DEF SInv, ThreadInv, Fits

\* No claim has listed a sandbox that is still being created.
LEMMA NewIsNotListed ==
    ASSUME SInv, NEW t \in Threads, act[t].pc \in Building, NEW u \in Threads, u # t
    PROVE  act[t].box \notin act[u].cands
BY DEF SInv, PairInv, Apart

\* What is known of a thread.
LEMMA Thread ==
    ASSUME SInv, NEW t \in Threads
    PROVE  /\ act[t] \in Acts /\ Fits(t, act[t])
           /\ made \in Nat /\ disk \subseteq Ids /\ service \subseteq Ids /\ box \in [Ids -> Boxes]
BY DEF SInv, TypeInv, ThreadInv

-----------------------------------------------------------------------------
(* Every step keeps the invariant.                                         *)

\* A request that fails forgets what it was doing.
LEMMA FailsKeeps == ASSUME SInv, NEW t \in Threads, Fails(t) PROVE SInv'
<1>1. Plain(t, Idle) /\ Old(t, Idle)
  BY IdleOK DEF Plain, Old, Building, Snapping
<1> QED
  BY <1>1, IdleOK, QuietStep DEF Fails

\* A request that has just come in.
LEMMA BeginOK ==
    ASSUME NEW op \in Ops, NEW pc \in Pcs
    PROVE  /\ Begin(op, pc) \in Acts /\ Begin(op, pc).op = op /\ Begin(op, pc).pc = pc
           /\ Begin(op, pc).box = 0 /\ Begin(op, pc).cands = {} /\ Begin(op, pc).mark = {}
           /\ Begin(op, pc).snap = NoSnapshot
           /\ Begin(op, pc).count = 0 /\ Begin(op, pc).goal = 0
<1>1. Idle.mark = {} /\ Idle.snap = NoSnapshot
  BY DEF Idle
<1> QED
  BY <1>1, IdleOK DEF Begin, Acts

\* POST of a sandbox: a claim, or a creation from a snapshot.
LEMMA CreateSandboxKeeps ==
    ASSUME SInv, NEW t \in Requests, NEW c \in Configs, NEW n \in Snapshots \cup {NoSnapshot},
           CreateSandbox(t, c, n)
    PROVE  SInv'
<1> t \in Threads
  BY DEF Threads
<1> DEFINE a == [Begin("create", IF n = NoSnapshot THEN "list" ELSE ColdStart)
                 EXCEPT !.owner = c, !.snap = n]
<1>1. act' = [act EXCEPT ![t] = a] /\ UNCHANGED <<provider, cluster, tar, rows>>
  BY DEF CreateSandbox
<1> DEFINE pc == IF n = NoSnapshot THEN "list" ELSE ColdStart
           r == Begin("create", pc)
<1>2. pc \in {"list", "workspace", "pvc"}
  BY DEF ColdStart
<1>3. r \in Acts /\ r.op = "create" /\ r.pc = pc /\ r.box = 0 /\ r.cands = {}
  BY <1>2, BeginOK DEF Ops, Pcs
<1>4. a = [r EXCEPT !.owner = c, !.snap = n]
  OBVIOUS
<1> HIDE DEF r, a, pc
<1>5. a \in Acts /\ a.op = "create" /\ a.pc = pc /\ a.box = 0 /\ a.cands = {} /\ a.owner = c
  BY <1>3, <1>4 DEF Acts, Owners
<1>6. Plain(t, a) /\ Old(t, a)
  BY <1>2, <1>5 DEF Plain, Old, Building, Snapping
<1> QED
  BY <1>1, <1>5, <1>6, QuietStep

\* A claim lists the pool, or finds it empty.
LEMMA ListKeeps ==
    ASSUME SInv, NEW t \in Threads, NEW pc \in {"rename", "patch"}, pc = "patch" => ~Docker,
           At(t, "list"), WarmBoxes # {},
           act' = [act EXCEPT ![t] = [@ EXCEPT !.pc = pc, !.cands = WarmBoxes]],
           UNCHANGED <<provider, cluster, tar, rows>>
    PROVE  SInv'
<1>1. act[t] \in Acts /\ Fits(t, act[t])
  BY Thread
<1> DEFINE a == [act[t] EXCEPT !.pc = pc, !.cands = WarmBoxes]
<1>2. a \in Acts /\ a.pc = pc /\ a.cands = WarmBoxes /\ a.op = "create" /\ a.box = act[t].box
      /\ a.owner \in Configs
  BY <1>1 DEF Acts, Fits, WarmBoxes, Pcs, At, Claiming
<1>3. act' = [act EXCEPT ![t] = a]
  OBVIOUS
<1> HIDE DEF a
<1>4. \A b \in WarmBoxes : b \in Ids /\ Exists(b) /\ box[b].owner = Warm
  BY DEF WarmBoxes, Exists
<1>5. Old(t, a) /\ a.pc \notin Building \cup Snapping
  BY <1>2, <1>4 DEF Old, Building, Snapping
<1>6. Fits(t, a)
  BY <1>2, <1>4, <1>5, LooseIsApart DEF Fits, Building, Snapping
<1> QED
  BY <1>2, <1>3, <1>5, <1>6, LooseIsApart, QuietFits

\* A claim that takes the lock and lists the warm containers.
LEMMA DockerListWarmKeeps == ASSUME SInv, NEW t \in Requests, DockerListWarm(t) PROVE SInv'
<1> t \in Threads
  BY DEF Threads
<1>1. act[t] \in Acts /\ Fits(t, act[t])
  BY Thread
<1>2. CASE WarmBoxes = {}
  <2> DEFINE a == [act[t] EXCEPT !.pc = "workspace"]
  <2>1. a \in Acts /\ Plain(t, a) /\ Old(t, a)
    BY <1>1 DEF Acts, Plain, Old, Fits, Pcs, Building, Snapping
  <2>2. act' = [act EXCEPT ![t] = a] /\ UNCHANGED <<provider, cluster, tar, rows>>
    BY <1>2 DEF DockerListWarm
  <2> QED
    BY <2>1, <2>2, QuietStep
<1>3. CASE WarmBoxes # {}
  BY <1>3, ListKeeps DEF DockerListWarm
<1> QED
  BY <1>2, <1>3

\* A claim that lists the warm Deployments with their versions.
LEMMA K8sListWarmKeeps == ASSUME SInv, NEW t \in Requests, K8sListWarm(t) PROVE SInv'
<1> t \in Threads
  BY DEF Threads
<1>1. act[t] \in Acts /\ Fits(t, act[t])
  BY Thread
<1>2. CASE WarmBoxes = {}
  <2> DEFINE a == [act[t] EXCEPT !.pc = "pvc"]
  <2>1. a \in Acts /\ Plain(t, a) /\ Old(t, a)
    BY <1>1 DEF Acts, Plain, Old, Fits, Pcs, Building, Snapping
  <2>2. act' = [act EXCEPT ![t] = a] /\ UNCHANGED <<provider, cluster, tar, rows>>
    BY <1>2 DEF K8sListWarm
  <2> QED
    BY <2>1, <2>2, QuietStep
<1>3. CASE WarmBoxes # {}
  BY <1>3, ListKeeps DEF K8sListWarm
<1> QED
  BY <1>2, <1>3

\* PATCH of a sandbox that exists.
LEMMA UpdateSandboxKeeps ==
    ASSUME SInv, NEW t \in Requests, NEW b \in Ids, NEW life \in {"running", "paused"},
           UpdateSandbox(t, b, life)
    PROVE  SInv'
<1> t \in Threads
  BY DEF Threads
<1> DEFINE r == Begin("update", "desire")
           a == [r EXCEPT !.box = b, !.life = life]
<1>1. act' = [act EXCEPT ![t] = a] /\ UNCHANGED <<provider, cluster, tar, rows>> /\ Exists(b)
  BY DEF UpdateSandbox, Claimed, Exists
<1>2. r \in Acts /\ r.op = "update" /\ r.pc = "desire" /\ r.cands = {} /\ b \in 0..MaxBoxes
  BY BeginOK DEF Ops, Pcs, Ids
<1> HIDE DEF r
<1>3. a \in Acts /\ a.op = "update" /\ a.pc = "desire" /\ a.cands = {} /\ a.box = b
  BY <1>2 DEF Acts, Lives
<1> HIDE DEF a
<1>4. Plain(t, a) /\ Old(t, a)
  BY <1>1, <1>3 DEF Plain, Old, Building, Snapping
<1> QED
  BY <1>1, <1>3, <1>4, QuietStep

\* DELETE of a sandbox that exists.
LEMMA DeleteSandboxKeeps ==
    ASSUME SInv, NEW t \in Requests, NEW b \in Ids, DeleteSandbox(t, b)
    PROVE  SInv'
<1> t \in Threads
  BY DEF Threads
<1> DEFINE r == Begin("delete", "remove")
           a == [r EXCEPT !.box = b]
<1>1. act' = [act EXCEPT ![t] = a] /\ UNCHANGED <<provider, cluster, tar, rows>> /\ Exists(b)
  BY DEF DeleteSandbox, Claimed, Exists
<1>2. r \in Acts /\ r.op = "delete" /\ r.pc = "remove" /\ r.cands = {} /\ b \in 0..MaxBoxes
  BY BeginOK DEF Ops, Pcs, Ids
<1> HIDE DEF r
<1>3. a \in Acts /\ a.op = "delete" /\ a.pc = "remove" /\ a.cands = {} /\ a.box = b
  BY <1>2 DEF Acts, Lives
<1> HIDE DEF a
<1>4. Plain(t, a) /\ Old(t, a)
  BY <1>1, <1>3 DEF Plain, Old, Building, Snapping
<1> QED
  BY <1>1, <1>3, <1>4, QuietStep

\* A sweep remembers the claimed sandboxes as they are now.
LEMMA SweepListKeeps == ASSUME SInv, NEW t \in Requests, SweepList(t) PROVE SInv'
<1> t \in Threads
  BY DEF Threads
<1> DEFINE r == Begin("sweep", "sweep")
           a == [r EXCEPT !.cands = Claimed, !.mark = {b \in Claimed : box[b].life = "paused"}]
<1>1. act' = [act EXCEPT ![t] = a] /\ UNCHANGED <<provider, cluster, tar, rows>>
  BY DEF SweepList
<1>2. \A b \in Claimed : b \in Ids /\ Exists(b)
  BY DEF Claimed, Exists
<1>5. r \in Acts /\ r.op = "sweep" /\ r.pc = "sweep" /\ r.box = 0
  BY BeginOK DEF Ops, Pcs
<1> HIDE DEF r
<1>6. {b \in Claimed : box[b].life = "paused"} \subseteq Ids /\ Claimed \subseteq Ids
  BY DEF Claimed
<1>3. a \in Acts /\ a.op = "sweep" /\ a.pc = "sweep" /\ a.box = 0 /\ a.cands = Claimed
  BY <1>5, <1>6 DEF Acts
<1> HIDE DEF a
<1>4. Plain(t, a) /\ Old(t, a)
  BY <1>2, <1>3 DEF Plain, Old, Building, Snapping
<1> QED
  BY <1>1, <1>3, <1>4, QuietStep

\* What a sweep does after it has judged one sandbox.
Judged(t, b, a) ==
    LET rest == [act[t] EXCEPT !.cands = @ \ {b}, !.mark = @ \ {b}]
    IN a \in {rest, [rest EXCEPT !.pc = "remove", !.box = b],
              [rest EXCEPT !.pc = "desire", !.box = b, !.life = "paused"]}

\* A sweep goes on with what it has listed.
LEMMA SweepsOn ==
    ASSUME SInv, NEW t \in Threads, At(t, "sweep"), NEW b \in act[t].cands, NEW a,
           Judged(t, b, a)
    PROVE  a \in Acts /\ Plain(t, a) /\ Old(t, a) /\ a.pc \in {"sweep", "remove", "desire"}
<1>1. act[t] \in Acts /\ Fits(t, act[t])
  BY Thread
<1> DEFINE rest == [act[t] EXCEPT !.cands = act[t].cands \ {b}, !.mark = act[t].mark \ {b}]
<1>2. /\ rest \in Acts /\ rest.op = act[t].op /\ rest.pc = "sweep" /\ rest.box = act[t].box
      /\ rest.owner = act[t].owner /\ rest.cands \subseteq act[t].cands
  BY <1>1 DEF Acts, At
<1>3. a \in {rest, [rest EXCEPT !.pc = "remove", !.box = b],
             [rest EXCEPT !.pc = "desire", !.box = b, !.life = "paused"]}
  BY Zenon DEF Judged
<1> HIDE DEF rest
<1>4. b \in Ids /\ b \in 0..MaxBoxes
  BY <1>1 DEF Acts, Ids
<1>5. /\ a \in Acts /\ a.op = act[t].op /\ a.pc \in {"sweep", "remove", "desire"}
      /\ a.box \in {act[t].box, b} /\ a.owner = act[t].owner /\ a.cands \subseteq act[t].cands
  <2>1. CASE a = rest
    BY <2>1, <1>2
  <2>2. CASE a = [rest EXCEPT !.pc = "remove", !.box = b]
    BY <2>2, <1>2, <1>4 DEF Acts, Pcs
  <2>3. CASE a = [rest EXCEPT !.pc = "desire", !.box = b, !.life = "paused"]
    BY <2>3, <1>2, <1>4 DEF Acts, Pcs, Lives
  <2> QED
    BY <1>3, <2>1, <2>2, <2>3
<1> QED
  BY <1>1, <1>5 DEF Plain, Old, Fits, Building, Snapping

\* A sweep judges a container.
LEMMA DockerSweepKeeps == ASSUME SInv, NEW t \in Requests, DockerSweep(t) PROVE SInv'
<1> t \in Threads
  BY DEF Threads
<1>1. PICK b \in act[t].cands : Judge(t, b, [act[t] EXCEPT !.cands = @ \ {b}, !.mark = @ \ {b}])
  BY DEF DockerSweep
<1>2. PICK a : act' = [act EXCEPT ![t] = a] /\ Judged(t, b, a)
  BY <1>1, Zenon DEF Judge, Judged
<1>3. At(t, "sweep")
  BY DEF DockerSweep
<1>4. a \in Acts /\ Plain(t, a) /\ Old(t, a)
  BY <1>1, <1>2, <1>3, SweepsOn
<1> QED
  BY <1>2, <1>4, QuietStep DEF DockerSweep

\* A sweep judges a Deployment.
LEMMA K8sSweepKeeps == ASSUME SInv, NEW t \in Requests, K8sSweep(t) PROVE SInv'
<1> t \in Threads
  BY DEF Threads
<1>1. PICK b \in act[t].cands :
        LET rest == [act[t] EXCEPT !.cands = @ \ {b}, !.mark = @ \ {b}]
        IN \/ Judge(t, b, rest)
           \/ /\ b \in act[t].mark /\ box[b].stamp
              /\ act' = [act EXCEPT ![t] = [rest EXCEPT !.pc = "remove", !.box = b]]
  BY DEF K8sSweep
<1>2. PICK a : act' = [act EXCEPT ![t] = a] /\ Judged(t, b, a)
  BY <1>1, Zenon DEF Judge, Judged
<1>3. At(t, "sweep")
  BY DEF K8sSweep
<1>4. a \in Acts /\ Plain(t, a) /\ Old(t, a)
  BY <1>1, <1>2, <1>3, SweepsOn
<1> QED
  BY <1>2, <1>4, QuietStep DEF K8sSweep

\* A sweep has judged all it listed.
LEMMA SweepEndsKeeps == ASSUME SInv, NEW t \in Requests, SweepEnds(t) PROVE SInv'
<1>1. Plain(t, Idle) /\ Old(t, Idle)
  BY IdleOK DEF Plain, Old, Building, Snapping
<1> QED
  BY <1>1, IdleOK, QuietStep DEF SweepEnds, Threads

\* A set of sandboxes is finite.
LEMMA SizeOfPool ==
    ASSUME NEW S \in SUBSET Ids
    PROVE  IsFiniteSet(S) /\ Cardinality(S) \in Nat
<1>1. IsFiniteSet(Ids)
  BY FS_Interval DEF Ids
<1>2. IsFiniteSet(S)
  BY <1>1, FS_Subset
<1> QED
  BY <1>2, FS_CardinalityType

\* A refresh counts the pool, once.
LEMMA RefreshCountKeeps == ASSUME SInv, NEW t \in Loops, RefreshCount(t) PROVE SInv'
<1> t \in Threads
  BY DEF Threads
<1> DEFINE r == Begin("refresh", "turn")
           n == IF LoopKey = "tag" THEN Cardinality(WarmBoxes) ELSE 0
<1>1. PICK num_warm \in 1..MaxTarget : act' = [act EXCEPT ![t] =
              [r EXCEPT !.goal = num_warm, !.count = n]]
  BY Zenon DEF RefreshCount
<1> DEFINE a == [r EXCEPT !.goal = num_warm, !.count = n]
<1>2. n \in Nat
  BY SizeOfPool DEF WarmBoxes
<1>3. /\ r \in Acts /\ r.op = "refresh" /\ r.pc = "turn" /\ r.box = 0 /\ r.cands = {}
      /\ num_warm \in Nat
  BY BeginOK DEF Ops, Pcs
<1> HIDE DEF r, n
<1>4. a \in Acts /\ a.op = "refresh" /\ a.pc = "turn" /\ a.box = 0 /\ a.cands = {}
  BY <1>2, <1>3 DEF Acts
<1>5. act' = [act EXCEPT ![t] = a]
  BY <1>1
<1> HIDE DEF a
<1>6. Plain(t, a) /\ Old(t, a)
  BY <1>4 DEF Plain, Old, Building, Snapping
<1> QED
  BY <1>4, <1>5, <1>6, QuietStep DEF RefreshCount

\* A refresh that is below its target begins a creation.
LEMMA RefreshCreatesKeeps == ASSUME SInv, NEW t \in Loops, RefreshCreates(t) PROVE SInv'
<1> t \in Threads
  BY DEF Threads
<1>1. act[t] \in Acts /\ Fits(t, act[t])
  BY Thread
<1>2. CASE Resolves(LoopKey)
  <2> DEFINE a == [act[t] EXCEPT !.pc = ColdStart, !.owner = Warm]
  <2>1. act' = [act EXCEPT ![t] = a]
    BY <1>2 DEF RefreshCreates
  <2>2. ColdStart \in {"workspace", "pvc"} /\ act[t].op = "refresh"
    BY <1>1 DEF ColdStart, RefreshCreates, At, Fits
  <2>3. /\ a \in Acts /\ a.op = "refresh" /\ a.pc \in {"workspace", "pvc"}
        /\ a.box = act[t].box /\ a.cands = act[t].cands
    BY <1>1, <2>2 DEF Acts, Pcs, Owners
  <2> HIDE DEF a
  <2>4. Plain(t, a) /\ Old(t, a)
    BY <2>3 DEF Plain, Old, Building, Snapping
  <2> QED
    BY <2>1, <2>3, <2>4, QuietStep DEF RefreshCreates
<1>3. CASE ~Resolves(LoopKey)
  <2>1. Plain(t, Idle) /\ Old(t, Idle) /\ act' = [act EXCEPT ![t] = Idle]
    BY <1>3, IdleOK DEF Plain, Old, Building, Snapping, RefreshCreates
  <2> QED
    BY <2>1, IdleOK, QuietStep DEF RefreshCreates
<1> QED
  BY <1>2, <1>3

\* A refresh that is above its target removes a warm sandbox it lists now.
LEMMA RefreshDeletesKeeps == ASSUME SInv, NEW t \in Loops, RefreshDeletes(t) PROVE SInv'
<1> t \in Threads
  BY DEF Threads
<1>1. act[t] \in Acts /\ Fits(t, act[t])
  BY Thread
<1>2. act[t].count - 1 \in Nat /\ act[t].op = "refresh" /\ act[t].pc = "turn"
  BY <1>1 DEF RefreshDeletes, At, Fits, Acts
<1>3. CASE WarmBoxes = {}
  <2> DEFINE a == [act[t] EXCEPT !.count = act[t].count - 1]
  <2>1. act' = [act EXCEPT ![t] = a]
    BY <1>3, Zenon DEF RefreshDeletes
  <2>2. /\ a \in Acts /\ a.op = "refresh" /\ a.pc = "turn"
        /\ a.box = act[t].box /\ a.cands = act[t].cands
    BY <1>1, <1>2 DEF Acts
  <2> HIDE DEF a
  <2>3. Plain(t, a) /\ Old(t, a)
    BY <2>2 DEF Plain, Old, Building, Snapping
  <2> QED
    BY <2>1, <2>2, <2>3, QuietStep DEF RefreshDeletes
<1>4. CASE WarmBoxes # {}
  <2> DEFINE b == Min(WarmBoxes)
             a == [act[t] EXCEPT !.pc = "remove", !.box = b, !.count = act[t].count - 1]
  <2>1. act' = [act EXCEPT ![t] = a]
    BY <1>4, Zenon DEF RefreshDeletes
  <2>2. b \in WarmBoxes
    BY <1>4, MinIsLeast DEF WarmBoxes, Ids
  <2>3. b \in Ids /\ Exists(b) /\ b \in 0..MaxBoxes
    BY <2>2 DEF WarmBoxes, Exists, Ids
  <2> HIDE DEF b
  <2>4. /\ a \in Acts /\ a.op = "refresh" /\ a.pc = "remove"
        /\ a.box = b /\ a.cands = act[t].cands
    BY <1>1, <1>2, <2>3 DEF Acts, Pcs
  <2> HIDE DEF a
  <2>5. Plain(t, a) /\ Old(t, a)
    BY <2>3, <2>4 DEF Plain, Old, Building, Snapping
  <2> QED
    BY <2>1, <2>4, <2>5, QuietStep DEF RefreshDeletes
<1> QED
  BY <1>3, <1>4

\* A refresh that has its target.
LEMMA RefreshEndsKeeps == ASSUME SInv, NEW t \in Loops, RefreshEnds(t) PROVE SInv'
<1>1. Plain(t, Idle) /\ Old(t, Idle)
  BY IdleOK DEF Plain, Old, Building, Snapping
<1> QED
  BY <1>1, IdleOK, QuietStep DEF RefreshEnds, Threads

\* What follows the last step on one sandbox.
LEMMA AfterOK ==
    ASSUME SInv, NEW t \in Threads, NEW n \in Nat
    PROVE  /\ After(t, n) \in Acts /\ Plain(t, After(t, n)) /\ Old(t, After(t, n))
           /\ After(t, n).pc \in {"turn", "sweep", "idle"} /\ After(t, n).box = 0
           /\ act[t].op = "refresh" => /\ After(t, n).op = "refresh" /\ After(t, n).pc = "turn"
                                       /\ After(t, n).count = n /\ After(t, n).goal = act[t].goal
<1>1. act[t] \in Acts /\ Fits(t, act[t])
  BY Thread
<1> DEFINE a == After(t, n)
<1>2. CASE act[t].op = "refresh"
  <2>1. a = [Idle EXCEPT !.op = "refresh", !.pc = "turn", !.count = n, !.goal = act[t].goal]
    BY <1>2 DEF After
  <2>2. /\ a \in Acts /\ a.op = "refresh" /\ a.pc = "turn" /\ a.count = n /\ a.goal = act[t].goal
        /\ a.box = 0 /\ a.cands = {}
    BY <1>1, <2>1, IdleOK DEF Acts, Ops, Pcs
  <2> HIDE DEF a
  <2>3. Plain(t, a) /\ Old(t, a)
    BY <1>1, <1>2, <2>2 DEF Plain, Old, Building, Snapping, Fits
  <2> QED
    BY <2>2, <2>3 DEF a
<1>3. CASE act[t].op = "sweep"
  <2>1. a = [Idle EXCEPT !.op = "sweep", !.pc = "sweep", !.cands = act[t].cands, !.mark = act[t].mark]
    BY <1>3 DEF After
  <2>2. a \in Acts /\ a.op = "sweep" /\ a.pc = "sweep" /\ a.box = 0 /\ a.cands = act[t].cands
    BY <1>1, <2>1, IdleOK DEF Acts, Ops, Pcs
  <2> HIDE DEF a
  <2>3. Plain(t, a) /\ Old(t, a)
    BY <2>2 DEF Plain, Old, Building, Snapping
  <2> QED
    BY <1>3, <2>2, <2>3 DEF a
<1>4. CASE act[t].op \notin {"refresh", "sweep"}
  <2>1. a = Idle
    BY <1>4 DEF After
  <2> HIDE DEF a
  <2>2. Plain(t, a) /\ Old(t, a)
    BY <2>1, IdleOK DEF Plain, Old, Building, Snapping
  <2> QED
    BY <1>4, <2>1, <2>2, IdleOK DEF a
<1> QED
  BY <1>2, <1>3, <1>4

-----------------------------------------------------------------------------
(* Claims.                                                                 *)

\* The candidate that a claim tries next is one that it listed.
LEMMA NextCandidate ==
    ASSUME SInv, NEW t \in Threads, act[t].pc \in {"rename", "patch"}
    PROVE  Min(act[t].cands) \in act[t].cands /\ Min(act[t].cands) \in Ids
<1>1. act[t] \in Acts /\ act[t].cands # {}
  BY Thread DEF Fits
<1>2. act[t].cands \in SUBSET Nat /\ act[t].cands \in SUBSET Ids
  BY <1>1 DEF Acts, Ids
<1> QED
  BY <1>1, <1>2, MinIsLeast

\* A claim renames the first container that is still there.
LEMMA DockerRenameKeeps == ASSUME SInv, NEW t \in Requests, DockerRename(t) PROVE SInv'
<1> t \in Threads
  BY DEF Threads
<1> DEFINE b == Min(act[t].cands)
           rest == act[t].cands \ {b}
<1>1. act[t] \in Acts /\ Fits(t, act[t]) /\ act[t].pc = "rename" /\ Docker /\ act[t].op = "create"
  BY Thread DEF DockerRename, At, Fits, Claiming
<1>2. b \in act[t].cands /\ b \in Ids /\ b \in 0..MaxBoxes
  BY <1>1, NextCandidate DEF Ids
<1>3. \/ /\ Exists(b) /\ box[b].owner # act[t].owner
         /\ box' = [box EXCEPT ![b].owner = act[t].owner]
         /\ act' = [act EXCEPT ![t] = [@ EXCEPT !.pc = "unpause", !.box = b, !.cands = {}]]
      \/ /\ act' = [act EXCEPT ![t] = [act[t] EXCEPT !.cands = rest,
                                                     !.pc = IF rest = {} THEN "workspace" ELSE @]]
         /\ UNCHANGED box
  BY Zenon DEF DockerRename
<1>4. UNCHANGED <<provider, made, disk, service, tar, rows>>
  BY DEF DockerRename
<1> HIDE DEF b, rest
<1>5. CASE /\ Exists(b) /\ box[b].owner # act[t].owner
           /\ box' = [box EXCEPT ![b].owner = act[t].owner]
           /\ act' = [act EXCEPT ![t] = [@ EXCEPT !.pc = "unpause", !.box = b, !.cands = {}]]
  <2> DEFINE a == [act[t] EXCEPT !.pc = "unpause", !.box = b, !.cands = {}]
  <2>1. act' = [act EXCEPT ![t] = a]
    BY <1>5
  <2>2. /\ a \in Acts /\ a.op = "create" /\ a.pc = "unpause" /\ a.box = b /\ a.cands = {}
        /\ a.owner = act[t].owner
    BY <1>1, <1>2 DEF Acts, Pcs, Claiming
  <2> HIDE DEF a
  <2>3. Plain(t, a) /\ Old(t, a)
    BY <1>1, <1>2, <2>2 DEF Plain, Old, Building, Snapping, Fits
  <2>4. act[t].owner \in Configs
    BY <1>1 DEF Fits
  <2>5. box' \in [Ids -> Boxes] /\ (\A c \in Ids : c # b => box'[c] = box[c])
        /\ box'[b].owner = act[t].owner
    BY <1>2, <1>5, <2>4, Thread DEF Boxes, Owners
  <2>6. box'[b].owner # Nobody
    BY <2>4, <2>5
  <2>7. Moved(t, a)
    BY <2>1, <2>2, MovesAlone DEF SInv
  <2>8. disk \subseteq Ids /\ service \subseteq Ids
    BY Thread
  <2>9. \A u \in Threads : act[u].pc # "patch"
    BY <1>1, NoPatchOnDocker
  <2> QED
    BY <1>2, <1>4, <2>2, <2>3, <2>5, <2>6, <2>7, <2>8, <2>9, TouchStep
<1>6. CASE /\ act' = [act EXCEPT ![t] = [act[t] EXCEPT !.cands = rest,
                                                       !.pc = IF rest = {} THEN "workspace" ELSE @]]
           /\ UNCHANGED box
  <2> DEFINE pc == IF rest = {} THEN "workspace" ELSE act[t].pc
             a == [act[t] EXCEPT !.cands = rest, !.pc = pc]
  <2>1. act' = [act EXCEPT ![t] = a]
    BY <1>6, Zenon
  <2>2. pc \in Pcs /\ pc = (IF rest = {} THEN "workspace" ELSE "rename")
    BY <1>1 DEF Pcs, Claiming
  <2>3. rest \subseteq act[t].cands /\ rest \subseteq Ids
    BY <1>1 DEF rest, Acts
  <2> HIDE DEF pc
  <2>4. /\ a \in Acts /\ a.op = "create" /\ a.pc = pc /\ a.box = act[t].box /\ a.cands = rest
        /\ a.owner = act[t].owner
    BY <1>1, <2>2, <2>3 DEF Acts
  <2> HIDE DEF a
  <2>5. Old(t, a) /\ a.pc \notin Building \cup Snapping
    BY <2>2, <2>3, <2>4 DEF Old, Building, Snapping
  <2>6. Fits(t, a)
    BY <1>1, <2>2, <2>4, <2>5, LooseIsApart DEF Fits, Building, Snapping
  <2>7. UNCHANGED <<provider, cluster, tar, rows>>
    BY <1>4, <1>6 DEF cluster
  <2> QED
    BY <2>1, <2>4, <2>5, <2>6, <2>7, LooseIsApart, QuietFits
<1> QED
  BY <1>3, <1>5, <1>6

\* A thread gives up.
LEMMA GivesUp ==
    ASSUME SInv, NEW t \in Threads, act' = [act EXCEPT ![t] = Idle],
           UNCHANGED <<provider, made, box, disk, service, tar, rows>>
    PROVE  SInv'
<1>1. Plain(t, Idle) /\ Old(t, Idle) /\ UNCHANGED <<provider, cluster, tar, rows>>
  BY IdleOK DEF Plain, Old, Building, Snapping, cluster
<1> QED
  BY <1>1, IdleOK, QuietStep

\* A step on Docker changes the container that t has.
LEMMA DockerTouches ==
    ASSUME SInv, NEW t \in Threads, Docker, NEW a \in Acts, act' = [act EXCEPT ![t] = a],
           Plain(t, a), Old(t, a), UNCHANGED <<provider, made, disk, service, tar, rows>>,
           box' \in [Ids -> Boxes], \A b \in Ids : b # act[t].box => box'[b] = box[b],
           act[t].box \in Ids /\ box'[act[t].box].owner = Nobody => box'[act[t].box] = Absent
    PROVE  SInv'
<1>1. Moved(t, a)
  BY MovesAlone DEF SInv
<1>2. disk \subseteq Ids /\ service \subseteq Ids
  BY Thread
<1>3. \A u \in Threads : act[u].pc # "patch"
  BY NoPatchOnDocker
<1> QED
  BY <1>1, <1>2, <1>3, TouchStep

\* The owner of a sandbox stays the same.
LEMMA LifeChanges ==
    ASSUME SInv, NEW b, b \in Ids => Exists(b), NEW life \in Lives,
           box' = [box EXCEPT ![b].life = life]
    PROVE  /\ box' \in [Ids -> Boxes] /\ \A c \in Ids : c # b => box'[c] = box[c]
           /\ \A c \in Ids : box'[c].owner = box[c].owner
           /\ b \in Ids => box'[b].owner # Nobody
<1>1. box \in [Ids -> Boxes]
  BY DEF SInv, TypeInv
<1> QED
  BY <1>1 DEF Boxes, Exists

\* A claim starts what it has renamed and leaves the lock.
LEMMA DockerUnpauseKeeps == ASSUME SInv, NEW t \in Requests, DockerUnpause(t) PROVE SInv'
<1> t \in Threads
  BY DEF Threads
<1> DEFINE b == act[t].box
<1>1. act[t] \in Acts /\ Fits(t, act[t])
  BY Thread
<1>2. CASE /\ box[b].life = "paused"
           /\ box' = [box EXCEPT ![b].life = "running"]
           /\ act' = [act EXCEPT ![t] = [@ EXCEPT !.pc = "workspace", !.box = 0]]
  <2> DEFINE a == [act[t] EXCEPT !.pc = "workspace", !.box = 0]
  <2>1. act' = [act EXCEPT ![t] = a]
    BY <1>2
  <2>2. /\ a \in Acts /\ a.op = act[t].op /\ a.pc = "workspace" /\ a.box = 0
        /\ a.cands = act[t].cands /\ a.owner = act[t].owner
    <3>1. 0 \in 0..MaxBoxes
      OBVIOUS
    <3> QED
      BY <1>1, <3>1 DEF Acts, Pcs
  <2> HIDE DEF a
  <2>3. Plain(t, a) /\ Old(t, a)
    BY <1>1, <2>2 DEF Plain, Old, Building, Snapping, Fits
  <2>4. b \in Ids => Exists(b)
    BY <1>2 DEF SInv, BoxInv, Absent
  <2> HIDE DEF b
  <2>5. /\ box' \in [Ids -> Boxes] /\ \A c \in Ids : c # b => box'[c] = box[c]
        /\ b \in Ids => box'[b].owner # Nobody
    BY <1>2, <2>4, LifeChanges DEF Lives
  <2> QED
    BY <2>1, <2>2, <2>3, <2>5, DockerTouches DEF DockerUnpause, b
<1> QED
  BY <1>2, GivesUp DEF DockerUnpause

-----------------------------------------------------------------------------
(* Steps on one sandbox.                                                   *)

\* A step on Kubernetes writes the Deployment that t has.
LEMMA K8sTouches ==
    ASSUME SInv, NEW t \in Threads, NEW a \in Acts, Go(t, a, act[t].box),
           Plain(t, a), Old(t, a), UNCHANGED <<provider, made, disk, service, tar, rows>>,
           box' \in [Ids -> Boxes], \A b \in Ids : b # act[t].box => box'[b] = box[b],
           act[t].box \in Ids /\ box'[act[t].box].owner = Nobody => box'[act[t].box] = Absent
    PROVE  SInv'
<1>1. /\ Moved(t, a)
      /\ \A u \in Threads : u # t /\ act[u].pc = "patch" /\ act[t].box \in act[u].cands =>
           act[t].box \in act'[u].mark
  BY MovesGo DEF SInv
<1>2. disk \subseteq Ids /\ service \subseteq Ids
  BY Thread
<1> QED
  BY <1>1, <1>2, TouchStep

\* A step removes at most the storage of the sandbox that t has.
LEMMA StorageGoes ==
    ASSUME SInv, NEW t \in Threads, NEW a \in Acts, act' = [act EXCEPT ![t] = a],
           Plain(t, a), Old(t, a), UNCHANGED <<provider, made, box, tar, rows>>,
           disk' \in {disk, disk \ {act[t].box}}, service' \in {service, service \ {act[t].box}}
    PROVE  SInv'
<1>1. Moved(t, a)
  BY MovesAlone DEF SInv
<1>2. disk \subseteq Ids /\ service \subseteq Ids /\ box \in [Ids -> Boxes]
  BY Thread
<1>3. act[t].box \in Ids /\ box'[act[t].box].owner = Nobody => box'[act[t].box] = Absent
  BY DEF SInv, BoxInv, Exists
<1>4. /\ disk' \subseteq Ids /\ disk \subseteq disk' \cup {act[t].box}
      /\ service' \subseteq Ids /\ service \subseteq service' \cup {act[t].box}
  BY <1>2
<1> QED
  BY <1>1, <1>2, <1>3, <1>4, TouchStep

\* A sandbox that is created is there, running, and belongs to its owner.
LEMMA BoxIsMade ==
    ASSUME SInv, NEW b \in Ids, NEW owner \in Configs \cup {Warm},
           box' = [box EXCEPT ![b] = [owner |-> owner, life |-> "running", stamp |-> FALSE]]
    PROVE  /\ box' \in [Ids -> Boxes] /\ \A c \in Ids : c # b => box'[c] = box[c]
           /\ box'[b].owner = owner /\ owner # Nobody
<1>1. box \in [Ids -> Boxes]
  BY DEF SInv, TypeInv
<1>2. [owner |-> owner, life |-> "running", stamp |-> FALSE] \in Boxes
  BY DEF Boxes, Owners, Lives
<1> QED
  BY <1>1, <1>2

\* A thread that goes on with the sandbox it has.
LEMMA GoesOn ==
    ASSUME SInv, NEW t \in Threads,
           NEW pc \in {"pause", "scale", "rmdir", "rmservice", "rmpvc"},
           pc = "pause" => act[t].op = "refresh"
    PROVE  /\ [act[t] EXCEPT !.pc = pc] \in Acts
           /\ Plain(t, [act[t] EXCEPT !.pc = pc]) /\ Old(t, [act[t] EXCEPT !.pc = pc])
<1>1. act[t] \in Acts /\ Fits(t, act[t])
  BY Thread
<1> DEFINE a == [act[t] EXCEPT !.pc = pc]
<1>2. /\ a \in Acts /\ a.op = act[t].op /\ a.pc = pc /\ a.box = act[t].box
      /\ a.cands = act[t].cands /\ a.owner = act[t].owner
  BY <1>1 DEF Acts, Pcs
<1> HIDE DEF a
<1>3. Plain(t, a) /\ Old(t, a)
  BY <1>1, <1>2 DEF Plain, Old, Building, Snapping, Fits
<1> QED
  BY <1>2, <1>3 DEF a

\* A thread that has ended.
LEMMA IdleFits == ASSUME NEW t PROVE Plain(t, Idle) /\ Old(t, Idle)
BY IdleOK DEF Plain, Old, Building, Snapping

\* The sandbox that a creation is about to start.
LEMMA BoxOfBuilding ==
    ASSUME SInv, NEW t \in Threads, act[t].pc \in Building
    PROVE  act[t].box \in Ids /\ ~Exists(act[t].box)
BY Thread DEF Fits

\* The container of a config, on its workspace.
LEMMA DockerRunKeeps == ASSUME SInv, NEW t \in Threads, DockerRun(t) PROVE SInv'
<1> DEFINE b == act[t].box
<1>1. b \in Ids /\ act[t].owner \in Configs
  BY BoxOfBuilding, Thread DEF DockerRun, At, Building, Fits
<1> HIDE DEF b
<1>2. /\ box' \in [Ids -> Boxes] /\ \A c \in Ids : c # b => box'[c] = box[c]
      /\ box'[b].owner # Nobody
  <2>1. box' = [box EXCEPT ![b] = [owner |-> act[t].owner, life |-> "running", stamp |-> FALSE]]
    BY DEF DockerRun, b
  <2> QED
    BY <1>1, <2>1, BoxIsMade
<1> QED
  BY <1>2, IdleOK, IdleFits, DockerTouches DEF DockerRun, b

\* The container of the pool, on its workspace.
LEMMA DockerRunWarmKeeps == ASSUME SInv, NEW t \in Threads, DockerRunWarm(t) PROVE SInv'
<1> DEFINE b == act[t].box
           a == [act[t] EXCEPT !.pc = "pause"]
<1>1. b \in Ids
  BY BoxOfBuilding DEF DockerRunWarm, At, Building
<1>2. a \in Acts /\ Plain(t, a) /\ Old(t, a) /\ act' = [act EXCEPT ![t] = a]
  BY GoesOn DEF DockerRunWarm
<1> HIDE DEF a, b
<1>3. /\ box' \in [Ids -> Boxes] /\ \A c \in Ids : c # b => box'[c] = box[c]
      /\ box'[b].owner # Nobody
  <2>1. box' = [box EXCEPT ![b] = [owner |-> Warm, life |-> "running", stamp |-> FALSE]]
    BY DEF DockerRunWarm, b
  <2> QED
    BY <1>1, <2>1, BoxIsMade
<1> QED
  BY <1>2, <1>3, DockerTouches DEF DockerRunWarm, b

\* What is running or paused is there.
LEMMA LiveExists ==
    ASSUME SInv, NEW b, box[b].life # "none"
    PROVE  b \in Ids => Exists(b)
BY DEF SInv, BoxInv, Absent

\* The pool pauses what it has started.
LEMMA DockerPauseWarmKeeps == ASSUME SInv, NEW t \in Threads, DockerPauseWarm(t) PROVE SInv'
<1> DEFINE b == act[t].box
           a == After(t, act[t].count + 1)
<1>1. CASE /\ box[b].life = "running" /\ box' = [box EXCEPT ![b].life = "paused"]
           /\ act' = [act EXCEPT ![t] = a]
  <2>1. act[t].count + 1 \in Nat
    BY Thread DEF Acts
  <2>2. a \in Acts /\ Plain(t, a) /\ Old(t, a)
    BY <2>1, AfterOK
  <2>3. b \in Ids => Exists(b)
    BY <1>1, LiveExists
  <2> HIDE DEF a, b
  <2>4. /\ box' \in [Ids -> Boxes] /\ \A c \in Ids : c # b => box'[c] = box[c]
        /\ b \in Ids => box'[b].owner # Nobody
    BY <1>1, <2>3, LifeChanges DEF Lives
  <2> QED
    BY <1>1, <2>2, <2>4, DockerTouches DEF DockerPauseWarm, b
<1> QED
  BY <1>1, GivesUp DEF DockerPauseWarm

\* A container is paused or unpaused.
LEMMA DockerSetLifeKeeps == ASSUME SInv, NEW t \in Requests, DockerSetLife(t) PROVE SInv'
<1> t \in Threads
  BY DEF Threads
<1> DEFINE b == act[t].box
           a == Done(t)
<1>1. CASE /\ Exists(b) /\ box' = [box EXCEPT ![b].life = act[t].life]
           /\ act' = [act EXCEPT ![t] = a]
  <2>1. act[t].count \in Nat /\ act[t].life \in Lives
    BY Thread DEF Acts
  <2>2. a \in Acts /\ Plain(t, a) /\ Old(t, a)
    BY <2>1, AfterOK DEF Done
  <2> HIDE DEF a, b
  <2>4. /\ box' \in [Ids -> Boxes] /\ \A c \in Ids : c # b => box'[c] = box[c]
        /\ b \in Ids => box'[b].owner # Nobody
    BY <1>1, <2>1, LifeChanges
  <2> QED
    BY <1>1, <2>2, <2>4, DockerTouches DEF DockerSetLife, b
<1> QED
  BY <1>1, GivesUp DEF DockerSetLife

\* A container is removed, its workspace is still there.
LEMMA DockerRemoveKeeps == ASSUME SInv, NEW t \in Threads, DockerRemove(t) PROVE SInv'
<1> DEFINE b == act[t].box
           a == [act[t] EXCEPT !.pc = "rmdir"]
<1>1. CASE /\ Exists(b) /\ box' = [box EXCEPT ![b] = Absent]
           /\ act' = [act EXCEPT ![t] = [@ EXCEPT !.pc = "rmdir"]]
  <2>1. a \in Acts /\ Plain(t, a) /\ Old(t, a) /\ act' = [act EXCEPT ![t] = a]
    BY <1>1, GoesOn
  <2>2. box \in [Ids -> Boxes] /\ Absent \in Boxes
    BY Thread DEF Boxes, Absent, Owners, Lives
  <2> HIDE DEF a
  <2>3. /\ box' \in [Ids -> Boxes] /\ \A c \in Ids : c # b => box'[c] = box[c]
        /\ b \in Ids => box'[b] = Absent
    BY <1>1, <2>2
  <2> QED
    BY <1>1, <2>1, <2>3, DockerTouches DEF DockerRemove
<1> QED
  BY <1>1, GivesUp DEF DockerRemove

\* The workspace of a removed container.
LEMMA DockerRmdirKeeps == ASSUME SInv, NEW t \in Threads, DockerRmdir(t) PROVE SInv'
<1>1. act[t].count \in Nat
  BY Thread DEF Acts
<1>2. Done(t) \in Acts /\ Plain(t, Done(t)) /\ Old(t, Done(t))
  BY <1>1, AfterOK DEF Done
<1> QED
  BY <1>2, StorageGoes DEF DockerRmdir

\* A pause is stamped before the Deployment is scaled.
LEMMA K8sStampPauseKeeps == ASSUME SInv, NEW t \in Requests, K8sStampPause(t) PROVE SInv'
<1> t \in Threads
  BY DEF Threads
<1> DEFINE b == act[t].box
           a == [act[t] EXCEPT !.pc = "scale"]
<1>0. a \in Acts /\ Plain(t, a) /\ Old(t, a)
  BY GoesOn
<1>1. CASE /\ Exists(b) /\ box' = [box EXCEPT ![b].stamp = act[t].life = "paused"] /\ Go(t, a, b)
  <2>1. /\ box' \in [Ids -> Boxes] /\ \A c \in Ids : c # b => box'[c] = box[c]
        /\ b \in Ids => box'[b].owner # Nobody
    <3> DEFINE s == act[t].life = "paused"
    <3>1. box' = [box EXCEPT ![b].stamp = s] /\ s \in BOOLEAN
      BY <1>1
    <3> HIDE DEF s, b
    <3>2. box \in [Ids -> Boxes]
      BY Thread
    <3>3. b \in Ids => [box[b] EXCEPT !.stamp = s] \in Boxes
                        /\ [box[b] EXCEPT !.stamp = s].owner = box[b].owner
      BY <3>1, <3>2 DEF Boxes
    <3>4. box' \in [Ids -> Boxes] /\ \A c \in Ids : c # b => box'[c] = box[c]
      BY <3>1, <3>2, <3>3
    <3>5. b \in Ids => box'[b].owner = box[b].owner
      BY <3>1, <3>2, <3>3
    <3> QED
      BY <1>1, <3>4, <3>5 DEF Exists
  <2> QED
    BY <1>0, <1>1, <2>1, K8sTouches DEF K8sStampPause
<1>2. CASE act' = [act EXCEPT ![t] = [@ EXCEPT !.pc = "scale"]] /\ UNCHANGED box
  <2>1. act' = [act EXCEPT ![t] = a]
    BY <1>2
  <2> QED
    BY <1>0, <1>2, <2>1, QuietStep DEF K8sStampPause, cluster
<1> QED
  BY <1>1, <1>2, GivesUp DEF K8sStampPause

\* A Deployment is scaled to zero or to one.
LEMMA K8sScaleKeeps == ASSUME SInv, NEW t \in Requests, K8sScale(t) PROVE SInv'
<1> t \in Threads
  BY DEF Threads
<1> DEFINE b == act[t].box
           a == Done(t)
<1>1. CASE /\ Exists(b) /\ box' = [box EXCEPT ![b].life = act[t].life] /\ Go(t, a, b)
  <2>1. act[t].count \in Nat /\ act[t].life \in Lives
    BY Thread DEF Acts
  <2>2. a \in Acts /\ Plain(t, a) /\ Old(t, a)
    BY <2>1, AfterOK DEF Done
  <2> HIDE DEF a, b
  <2>4. /\ box' \in [Ids -> Boxes] /\ \A c \in Ids : c # b => box'[c] = box[c]
        /\ b \in Ids => box'[b].owner # Nobody
    BY <1>1, <2>1, LifeChanges
  <2> QED
    BY <1>1, <2>2, <2>4, K8sTouches DEF K8sScale, b
<1> QED
  BY <1>1, GivesUp DEF K8sScale

\* A Deployment is deleted before its Service and its claim.
LEMMA K8sDeleteDeploymentKeeps ==
    ASSUME SInv, NEW t \in Threads, K8sDeleteDeployment(t) PROVE SInv'
<1> DEFINE b == act[t].box
           a == [act[t] EXCEPT !.pc = "rmservice"]
<1>0. a \in Acts /\ Plain(t, a) /\ Old(t, a)
  BY GoesOn
<1>1. CASE Exists(b) /\ box' = [box EXCEPT ![b] = Absent] /\ Go(t, a, b)
  <2>2. box \in [Ids -> Boxes] /\ Absent \in Boxes
    BY Thread DEF Boxes, Absent, Owners, Lives
  <2>3. /\ box' \in [Ids -> Boxes] /\ \A c \in Ids : c # b => box'[c] = box[c]
        /\ b \in Ids => box'[b] = Absent
    <3> HIDE DEF a, b
    <3> QED
      BY <1>1, <2>2
  <2> QED
    BY <1>0, <1>1, <2>3, K8sTouches DEF K8sDeleteDeployment
<1>2. CASE act' = [act EXCEPT ![t] = a] /\ UNCHANGED box
  BY <1>0, <1>2, QuietStep DEF K8sDeleteDeployment, cluster
<1>3. CASE act' = [act EXCEPT ![t] = Idle] /\ UNCHANGED box
  BY <1>3, GivesUp DEF K8sDeleteDeployment
<1>4. \/ Exists(b) /\ box' = [box EXCEPT ![b] = Absent] /\ Go(t, a, b)
      \/ /\ act' = [act EXCEPT ![t] = IF act[t].op = "refresh" THEN a ELSE Idle]
         /\ UNCHANGED box
  BY Zenon DEF K8sDeleteDeployment
<1> HIDE DEF a
<1> QED
  BY <1>1, <1>2, <1>3, <1>4

\* The Service of a deleted Deployment.
LEMMA K8sDeleteServiceKeeps == ASSUME SInv, NEW t \in Threads, K8sDeleteService(t) PROVE SInv'
<1> DEFINE a == [act[t] EXCEPT !.pc = "rmpvc"]
<1>1. a \in Acts /\ Plain(t, a) /\ Old(t, a) /\ act' = [act EXCEPT ![t] = a]
  BY GoesOn DEF K8sDeleteService
<1> HIDE DEF a
<1> QED
  BY <1>1, StorageGoes DEF K8sDeleteService

\* The volume claim of a deleted Deployment.
LEMMA K8sDeletePvcKeeps == ASSUME SInv, NEW t \in Threads, K8sDeletePvc(t) PROVE SInv'
<1>1. act[t].count \in Nat
  BY Thread DEF Acts
<1>2. Done(t) \in Acts /\ Plain(t, Done(t)) /\ Old(t, Done(t))
  BY <1>1, AfterOK DEF Done
<1> QED
  BY <1>2, StorageGoes DEF K8sDeletePvc

\* The claim on Kubernetes patches a Deployment, passes it over or gives up.
LEMMA K8sPatchClaimKeeps == ASSUME SInv, NEW t \in Requests, K8sPatchClaim(t) PROVE SInv'
<1> t \in Threads
  BY DEF Threads
<1> DEFINE b == Min(act[t].cands)
           rest == act[t].cands \ {b}
           a == [act[t] EXCEPT !.cands = rest, !.mark = act[t].mark \ {b},
                               !.pc = IF rest = {} THEN "pvc" ELSE act[t].pc]
<1>1. /\ act[t] \in Acts /\ Fits(t, act[t]) /\ act[t].pc = "patch" /\ ~Docker /\ act[t].op = "create"
      /\ act[t].owner \in Configs
  BY Thread DEF K8sPatchClaim, At, Fits, Claiming
<1>2. b \in act[t].cands /\ b \in Ids
  BY <1>1, NextCandidate
<1>3. \/ /\ Exists(b) /\ Fresh(t, b)
         /\ box' = [box EXCEPT ![b].owner = act[t].owner]
         /\ Go(t, Idle, b)
      \/ /\ act' = [act EXCEPT ![t] = a]
         /\ UNCHANGED box
      \/ /\ act' = [act EXCEPT ![t] = Idle]
         /\ UNCHANGED box
  BY Zenon DEF K8sPatchClaim
<1>4. UNCHANGED <<provider, made, disk, service, tar, rows>>
  BY DEF K8sPatchClaim
<1>9. rest \subseteq act[t].cands /\ rest \subseteq Ids
  BY <1>1 DEF Acts
<1> HIDE DEF b
<1>5. CASE /\ box' = [box EXCEPT ![b].owner = act[t].owner]
           /\ Go(t, Idle, b)
  <2>1. /\ Moved(t, Idle)
        /\ \A u \in Threads : u # t /\ act[u].pc = "patch" /\ b \in act[u].cands =>
             b \in act'[u].mark
    BY <1>5, IdleOK, MovesGo DEF SInv
  <2>2. box' \in [Ids -> Boxes] /\ (\A c \in Ids : c # b => box'[c] = box[c])
        /\ box'[b].owner = act[t].owner
    BY <1>1, <1>2, <1>5, Thread DEF Boxes, Owners
  <2>3. box'[b].owner # Nobody
    BY <1>1, <2>2
  <2>4. disk \subseteq Ids /\ service \subseteq Ids
    BY Thread
  <2> QED
    BY <1>2, <1>4, <2>1, <2>2, <2>3, <2>4, IdleOK, IdleFits, TouchStep
<1>6. CASE act' = [act EXCEPT ![t] = a] /\ UNCHANGED box
  <2> DEFINE pc == IF rest = {} THEN "pvc" ELSE act[t].pc
             m == act[t].mark \ {b}
  <2>1. pc \in Pcs /\ pc = (IF rest = {} THEN "pvc" ELSE "patch") /\ m \subseteq Ids
    BY <1>1 DEF Pcs, Acts
  <2>2. a = [act[t] EXCEPT !.cands = rest, !.mark = m, !.pc = pc]
    BY Zenon
  <2>3. \A d \in rest : d \notin m => d \in act[t].cands \ act[t].mark
    OBVIOUS
  <2>4. act' = [act EXCEPT ![t] = a] /\ UNCHANGED <<provider, cluster, tar, rows>>
    BY <1>4, <1>6 DEF cluster
  <2> HIDE DEF pc, m, rest, a
  <2>5. /\ a \in Acts /\ a.op = "create" /\ a.pc = pc /\ a.box = act[t].box /\ a.cands = rest
        /\ a.owner = act[t].owner /\ a.mark = m
    BY <1>1, <1>9, <2>1, <2>2 DEF Acts
  <2>6. Old(t, a) /\ a.pc \notin Building \cup Snapping
    BY <1>9, <2>1, <2>5 DEF Old, Building, Snapping
  <2>7. Fits(t, a)
    <3>1. a.box <= made /\ \A c \in a.cands : c <= made
      BY <2>6, LooseIsApart
    <3>2. a.pc = "patch" => ~Docker /\ \A c \in a.cands \ a.mark : box[c].owner = Warm
      BY <1>1, <2>3, <2>5 DEF Fits
    <3>3. a.pc \in {"pvc", "patch"} /\ (a.pc = "patch" => a.cands # {})
      BY <2>1, <2>5
    <3> QED
      BY <1>1, <2>5, <3>1, <3>2, <3>3 DEF Fits, Building, Snapping, Claiming
  <2> QED
    BY <2>4, <2>5, <2>6, <2>7, LooseIsApart, QuietFits
<1>7. CASE act' = [act EXCEPT ![t] = Idle] /\ UNCHANGED box
  BY <1>4, <1>7, GivesUp
<1> QED
  BY <1>3, <1>5, <1>6, <1>7

\* A Deployment is created where there was none, so no claim has listed it.
LEMMA DeploymentIsMade ==
    ASSUME SInv, NEW t \in Threads, act[t].pc \in Building, NEW a \in Acts,
           act' = [act EXCEPT ![t] = a], Plain(t, a), Old(t, a),
           NEW owner \in Configs \cup {Warm},
           box' = [box EXCEPT ![act[t].box] = [owner |-> owner, life |-> "running", stamp |-> FALSE]],
           UNCHANGED <<provider, made, disk, service, tar, rows>>
    PROVE  SInv'
<1> DEFINE b == act[t].box
<1>1. b \in Ids
  BY BoxOfBuilding
<1>2. \A u \in Threads : u # t => b \notin act[u].cands
  BY NewIsNotListed
<1>3. Moved(t, a)
  BY MovesAlone DEF SInv
<1>4. disk \subseteq Ids /\ service \subseteq Ids
  BY Thread
<1> HIDE DEF b
<1>5. /\ box' \in [Ids -> Boxes] /\ \A c \in Ids : c # b => box'[c] = box[c]
      /\ box'[b].owner # Nobody
  BY <1>1, BoxIsMade DEF b
<1>6. disk' \subseteq Ids /\ disk \subseteq disk' \cup {b}
  BY <1>4
<1>7. service' \subseteq Ids /\ service \subseteq service' \cup {b}
  BY <1>4
<1>8. b = act[t].box \/ b \in act[t].cands
  BY DEF b
<1>9. b \in Ids /\ box'[b].owner = Nobody => box'[b] = Absent
  BY <1>5
<1>10. \A u \in Threads : u # t /\ act[u].pc = "patch" /\ b \in act[u].cands =>
         (b \in act'[u].mark \/ box'[b] = box[b])
  BY <1>2
<1>11. UNCHANGED <<provider, made, tar, rows>>
  OBVIOUS
<1>12. box' \in [Ids -> Boxes] /\ \A c \in Ids : c # b => box'[c] = box[c]
  BY <1>5
<1> QED
  BY <1>3, <1>6, <1>7, <1>8, <1>9, <1>10, <1>11, <1>12, TouchStep, Zenon

\* The Deployment of a config, after its volume claim and its Service.
LEMMA K8sCreateDeploymentKeeps ==
    ASSUME SInv, NEW t \in Threads, K8sCreateDeployment(t) PROVE SInv'
<1>1. act[t].pc \in Building /\ act[t].owner \in Configs
  BY Thread DEF K8sCreateDeployment, At, Building, Fits
<1> QED
  BY <1>1, IdleOK, IdleFits, DeploymentIsMade DEF K8sCreateDeployment

\* The Deployment of the pool, after its volume claim and its Service.
LEMMA K8sCreateWarmDeploymentKeeps ==
    ASSUME SInv, NEW t \in Threads, K8sCreateWarmDeployment(t) PROVE SInv'
<1> DEFINE a == After(t, act[t].count + 1)
<1>1. act[t].pc \in Building /\ act[t].count + 1 \in Nat
  BY Thread DEF K8sCreateWarmDeployment, At, Building, Acts
<1>2. a \in Acts /\ Plain(t, a) /\ Old(t, a)
  BY <1>1, AfterOK
<1>3. act' = [act EXCEPT ![t] = a]
  BY DEF K8sCreateWarmDeployment
<1> HIDE DEF a
<1> QED
  BY <1>1, <1>2, <1>3, DeploymentIsMade DEF K8sCreateWarmDeployment

\* A creation that goes on with the sandbox it has.
LEMMA StaysApart ==
    ASSUME SInv, NEW t \in Threads, act[t].pc \in Building,
           NEW a, a.pc \in Building, a.box = act[t].box, a.cands = act[t].cands, a.snap = act[t].snap
    PROVE  \A u \in Threads : u # t => Apart(a, act[u]) /\ Apart(act[u], a)
BY DEF SInv, PairInv, Apart, Building, Snapping

\* The volume is filled from the snapshot before it is used.
LEMMA K8sRestoreKeeps == ASSUME SInv, NEW t \in Threads, K8sRestore(t) PROVE SInv'
<1> DEFINE a == [act[t] EXCEPT !.pc = "service"]
<1>1. act[t] \in Acts /\ Fits(t, act[t]) /\ act[t].pc = "restore" /\ act[t].pc \in Building
  BY Thread DEF K8sRestore, At, Building
<1>2. CASE act' = [act EXCEPT ![t] = a]
  <2>1. /\ a \in Acts /\ a.op = act[t].op /\ a.pc = "service" /\ a.box = act[t].box
        /\ a.cands = act[t].cands /\ a.owner = act[t].owner /\ a.snap = act[t].snap
    BY <1>1 DEF Acts, Pcs, Building
  <2> HIDE DEF a
  <2>2. Fits(t, a)
    BY <1>1, <2>1 DEF Fits, Building, Snapping, Claiming
  <2>3. \A u \in Threads : u # t => Apart(a, act[u]) /\ Apart(act[u], a)
    BY <1>1, <2>1, StaysApart DEF Building
  <2> QED
    BY <1>2, <2>1, <2>2, <2>3, QuietFits DEF K8sRestore
<1>3. CASE act' = [act EXCEPT ![t] = Idle]
  BY <1>3, GivesUp DEF K8sRestore, cluster
<1>4. act' = [act EXCEPT ![t] = IF tar[act[t].snap] = "none" THEN Idle ELSE a]
  BY Zenon DEF K8sRestore
<1> HIDE DEF a
<1> QED
  BY <1>2, <1>3, <1>4

\* Sandbox 0 and no snapshot belong to nobody.
LEMMA NobodyHasNothing == ASSUME SInv, NEW t \in Threads PROVE NotTheirs(t, 0, NoSnapshot)
<1> SUFFICES ASSUME NEW u \in Threads, u # t
             PROVE  /\ act[u].pc \in Building => act[u].box # 0
                    /\ act[u].pc \in {"capture", "row"} => act[u].snap # NoSnapshot
                    /\ act[u].pc = "patch" => 0 \notin act[u].cands
  BY DEF NotTheirs
<1>1. Fits(u, act[u]) /\ act[u] \in Acts /\ disk \subseteq Ids
  BY Thread
<1> QED
  BY <1>1 DEF Fits, Acts, Ids, Snapping

\* The Service is created before the Deployment.
LEMMA K8sCreateServiceKeeps == ASSUME SInv, NEW t \in Threads, K8sCreateService(t) PROVE SInv'
<1> DEFINE a == [act[t] EXCEPT !.pc = "deployment"]
<1>1. act[t] \in Acts /\ Fits(t, act[t]) /\ act[t].pc = "service" /\ act[t].pc \in Building
      /\ act[t].box \in Ids
  BY Thread, BoxOfBuilding DEF K8sCreateService, At, Building
<1>2. act' = [act EXCEPT ![t] = a] /\ service' = service \cup {act[t].box}
      /\ UNCHANGED <<provider, made, box, disk, tar, rows>>
  BY DEF K8sCreateService
<1>3. /\ a \in Acts /\ a.op = act[t].op /\ a.pc = "deployment" /\ a.box = act[t].box
      /\ a.cands = act[t].cands /\ a.owner = act[t].owner /\ a.snap = act[t].snap
  BY <1>1 DEF Acts, Pcs, Building
<1> HIDE DEF a
<1>4. Moved(t, a) /\ act'[t] = a
  BY <1>2, <1>3, MovesAlone DEF SInv, Moved
<1>5. Fits(t, act[t])'
  BY <1>1, <1>2, <1>3, <1>4 DEF Fits, Building, Snapping, Claiming, Exists
<1>6. \A u \in Threads : u # t => Apart(a, act[u]) /\ Apart(act[u], a)
  BY <1>1, <1>3, StaysApart DEF Building
<1>7. OnlyAt(0, NoSnapshot)
  BY <1>2 DEF OnlyAt, SInv, TypeInv
<1>8. TypeInv'
  BY <1>1, <1>2, <1>4 DEF Moved, SInv, TypeInv
<1>9. BoxInv'
  BY <1>2, Zenon DEF SInv, BoxInv, Exists
<1> QED
  BY <1>4, <1>5, <1>6, <1>7, <1>8, <1>9, NobodyHasNothing, StepKeeps

\* A creation takes the next number, which no thread remembers.
LEMMA NumberTaken ==
    ASSUME SInv, NEW t \in Threads, made < MaxBoxes, made' = made + 1, disk' = disk \cup {made'},
           NEW a \in Acts, act' = [act EXCEPT ![t] = a],
           UNCHANGED <<provider, box, service, tar, rows>>,
           a.pc \in {"run", "restore", "service"}, a.box = made', a.cands \subseteq act[t].cands,
           a.op = act[t].op, a.owner = act[t].owner
    PROVE  SInv'
<1>1. act[t] \in Acts /\ Fits(t, act[t]) /\ made \in Nat /\ disk \subseteq Ids /\ box \in [Ids -> Boxes]
  BY Thread
<1>2. made' \in Ids /\ made' \in Nat /\ made <= made' /\ made' > made
  BY <1>1 DEF Ids
<1>3. Moved(t, a) /\ act'[t] = a
  BY MovesAlone DEF SInv, Moved
<1>4. ~Exists(made')
  <2>1. \A b \in Ids : Exists(b) => b <= made
    BY DEF SInv, BoxInv
  <2>2. made' \in Ids /\ ~(made' <= made)
    BY <1>1, <1>2
  <2> QED
    BY <2>1, <2>2
<1>5. Fits(t, act[t])'
  <2>1. \A b \in a.cands : b <= made'
    <3> SUFFICES ASSUME NEW b \in a.cands PROVE b <= made'
      OBVIOUS
    <3>1. b \in Nat /\ b <= made
      BY <1>1 DEF Acts, Ids, Fits
    <3> QED
      BY <1>1, <1>2, <3>1
  <2>2. box'[made'].owner = Nobody
    BY <1>4 DEF Exists
  <2>3. a.op = "create" => a.owner \in Configs
    BY <1>1 DEF Fits
  <2>4. a.op = "refresh" => t \in Loops
    BY <1>1 DEF Fits
  <2>5. a.pc \notin Snapping \cup Claiming \cup {"list", "patch", "deployment", "turn", "pause"}
    BY DEF Snapping, Claiming
  <2>6. a.pc \notin {"rename", "capture", "row"}
    OBVIOUS
  <2>7. made' <= made' /\ made' \in disk'
    BY <1>2
  <2> QED
    BY <1>3, <2>1, <2>2, <2>3, <2>4, <2>5, <2>6, <2>7 DEF Fits, Exists
<1>6. \A u \in Threads : u # t => Apart(a, act[u]) /\ Apart(act[u], a)
  <2> SUFFICES ASSUME NEW u \in Threads, u # t PROVE Apart(a, act[u]) /\ Apart(act[u], a)
    OBVIOUS
  <2>1. act[u] \in Acts /\ Fits(u, act[u]) /\ Apart(act[t], act[u]) /\ Apart(act[u], act[t])
    BY Thread DEF SInv, PairInv
  <2>2. act[u].box # made' /\ made' \notin act[u].cands
    <3>1. act[u].box \in Nat /\ act[u].box <= made /\ \A b \in act[u].cands : b <= made
      BY <2>1 DEF Acts, Fits
    <3> QED
      BY <1>1, <1>2, <3>1
  <2> QED
    BY <2>1, <2>2 DEF Apart, Snapping
<1>7. OnlyAt(0, NoSnapshot)
  BY <1>1, <1>2 DEF OnlyAt
<1>8. TypeInv'
  <2>1. made' \in 0..MaxBoxes /\ disk' \subseteq Ids
    BY <1>1, <1>2 DEF Ids
  <2> QED
    BY <1>3, <2>1 DEF Moved, SInv, TypeInv
<1>9. BoxInv'
  <2> SUFFICES ASSUME NEW b \in Ids
               PROVE  IF box[b].owner # Nobody THEN b <= made' ELSE box[b] = Absent
    BY DEF BoxInv, Exists
  <2>1. IF box[b].owner # Nobody THEN b <= made ELSE box[b] = Absent
    BY DEF SInv, BoxInv, Exists
  <2>2. b \in Nat
    BY DEF Ids
  <2> QED
    BY <1>1, <1>2, <2>1, <2>2
<1> QED
  BY <1>3, <1>5, <1>6, <1>7, <1>8, <1>9, NobodyHasNothing, StepKeeps

\* A creation takes a number nobody has had, and makes its workspace.
LEMMA DockerWorkspaceKeeps == ASSUME SInv, NEW t \in Threads, DockerWorkspace(t) PROVE SInv'
<1> DEFINE a == [act[t] EXCEPT !.pc = "run", !.box = made']
<1>1. act[t] \in Acts /\ made \in Nat
  BY Thread
<1>2. /\ act' = [act EXCEPT ![t] = a] /\ made < MaxBoxes /\ made' = made + 1
      /\ disk' = disk \cup {made'} /\ UNCHANGED <<provider, box, service, tar, rows>>
  BY DEF DockerWorkspace
<1>3. made' \in 0..MaxBoxes
  BY <1>1, <1>2
<1>4. /\ a \in Acts /\ a.op = act[t].op /\ a.pc = "run" /\ a.box = made'
      /\ a.cands = act[t].cands /\ a.owner = act[t].owner
  BY <1>1, <1>3 DEF Acts, Pcs, Building
<1> HIDE DEF a
<1> QED
  BY <1>2, <1>4, NumberTaken

\* A creation takes a number nobody has had, and makes its volume claim.
LEMMA K8sCreatePvcKeeps == ASSUME SInv, NEW t \in Threads, K8sCreatePvc(t) PROVE SInv'
<1> DEFINE pc == IF act[t].snap = NoSnapshot THEN "service" ELSE "restore"
           a == [act[t] EXCEPT !.box = made', !.pc = pc]
<1>1. act[t] \in Acts /\ made \in Nat
  BY Thread
<1>2. /\ act' = [act EXCEPT ![t] = a] /\ made < MaxBoxes /\ made' = made + 1
      /\ disk' = disk \cup {made'} /\ UNCHANGED <<provider, box, service, tar, rows>>
  BY DEF K8sCreatePvc
<1>3. made' \in 0..MaxBoxes /\ pc \in {"restore", "service"}
  BY <1>1, <1>2
<1> HIDE DEF pc
<1>4. /\ a \in Acts /\ a.op = act[t].op /\ a.pc = pc /\ a.box = made'
      /\ a.cands = act[t].cands /\ a.owner = act[t].owner
  BY <1>1, <1>3 DEF Acts, Pcs, Building
<1> HIDE DEF a
<1> QED
  BY <1>2, <1>3, <1>4, NumberTaken

-----------------------------------------------------------------------------
(* Snapshots.                                                              *)

\* Only t is at one of these steps with snapshot n.
Alone(t, n, pcs) == \A u \in Threads : u # t /\ act[u].pc \in pcs => act[u].snap # n

\* A step that writes at most the artifact and the row of snapshot n, which no
\* other thread captures, by a thread that has no sandbox to claim or create.
LEMMA SnapshotStep ==
    ASSUME SInv, NEW t \in Threads, NEW n \in Snapshots,
           NEW a \in Acts, act' = [act EXCEPT ![t] = a], UNCHANGED <<provider, cluster>>,
           a.pc \in Snapping \cup {"idle"}, a.pc \in Snapping => a.snap = n,
           a.op = "create" => a.owner \in Configs, a.op = "refresh" => t \in Loops, Old(t, a),
           Alone(t, n, {"capture", "row"}),
           a.pc \in {"capture", "row"} => n \notin rows' /\ Alone(t, n, Snapping),
           Docker /\ a.pc = "row" => tar'[n] = "whole",
           tar' \in [Snapshots -> {"none", "part", "whole"}], rows' \subseteq Snapshots,
           \A m \in Snapshots : m # n => tar'[m] = tar[m] /\ (m \in rows' => m \in rows)
    PROVE  SInv'
<1>1. Moved(t, a) /\ act'[t] = a
  BY MovesAlone DEF SInv, Moved
<1>2. OnlyAt(0, n)
  BY DEF OnlyAt, cluster, SInv, TypeInv
<1>3. NotTheirs(t, 0, n)
  BY NobodyHasNothing DEF NotTheirs, Alone
<1>4. TypeInv'
  BY <1>1 DEF Moved, cluster, SInv, TypeInv
<1>5. BoxInv'
  BY Zenon DEF SInv, BoxInv, Exists, cluster
<1>6. a.pc \notin Building
  BY DEF Building, Snapping
<1>7. /\ a.box <= made /\ \A b \in a.cands : b <= made
      /\ \A u \in Threads : u # t /\ act[u].pc \in Building =>
           a.box # act[u].box /\ act[u].box \notin a.cands
  BY OldIsNotNew
<1>8. Fits(t, act[t])'
  <2>1. a.pc \notin Claiming \cup {"list", "patch", "rename", "deployment", "turn", "pause"}
    BY DEF Claiming, Snapping
  <2>2. Docker' /\ a.pc = "row" => tar'[a.snap] = "whole"
    BY DEF Docker, Snapping
  <2>3. a.pc \in {"capture", "row"} => a.snap \notin rows'
    BY DEF Snapping
  <2>4. made' = made
    BY DEF cluster
  <2> QED
    BY <1>1, <1>6, <1>7, <2>1, <2>2, <2>3, <2>4 DEF Fits
<1>9. \A u \in Threads : u # t => Apart(a, act[u]) /\ Apart(act[u], a)
  BY <1>6, <1>7 DEF Apart, Snapping, Alone
<1> QED
  BY <1>1, <1>2, <1>3, <1>4, <1>5, <1>8, <1>9, StepKeeps

\* A snapshot that no thread has is nobody's.
LEMMA CaptureSnapshotKeeps ==
    ASSUME SInv, NEW t \in Requests, NEW n \in Snapshots, NEW b \in Claimed, CaptureSnapshot(t, n, b)
    PROVE  SInv'
<1> t \in Threads
  BY DEF Threads
<1> DEFINE r == Begin("capture", "capture")
           a == [r EXCEPT !.box = b, !.snap = n]
<1>1. /\ act' = [act EXCEPT ![t] = a] /\ UNCHANGED <<provider, cluster, tar, rows>>
      /\ n \notin rows /\ \A u \in Threads : act[u].snap # n
  BY DEF CaptureSnapshot
<1>2. b \in Ids /\ Exists(b) /\ b \in 0..MaxBoxes
  BY DEF Claimed, Exists, Ids
<1>3. r \in Acts /\ r.op = "capture" /\ r.pc = "capture" /\ r.cands = {}
  BY BeginOK DEF Ops, Pcs, Snapping
<1> HIDE DEF r
<1>4. a \in Acts /\ a.op = "capture" /\ a.pc = "capture" /\ a.cands = {} /\ a.box = b /\ a.snap = n
  BY <1>2, <1>3 DEF Acts
<1> HIDE DEF a
<1>5. Old(t, a) /\ a.pc \in Snapping
  BY <1>2, <1>4 DEF Old, Snapping
<1>6. tar \in [Snapshots -> {"none", "part", "whole"}] /\ rows \subseteq Snapshots
  BY DEF SInv, TypeInv
<1>7. tar' \in [Snapshots -> {"none", "part", "whole"}] /\ rows' \subseteq Snapshots
      /\ \A m \in Snapshots : m # n => tar'[m] = tar[m] /\ (m \in rows' => m \in rows)
  BY <1>1, <1>6
<1>8. n \notin rows' /\ UNCHANGED <<provider, cluster>>
  BY <1>1
<1>9. Alone(t, n, {"capture", "row"}) /\ Alone(t, n, Snapping)
  BY <1>1 DEF Alone
<1> QED
  BY <1>1, <1>4, <1>5, <1>7, <1>8, <1>9, SnapshotStep

\* An import writes its artifact whole.
LEMMA ImportSnapshotKeeps ==
    ASSUME SInv, NEW t \in Requests, NEW n \in Snapshots, ImportSnapshot(t, n) PROVE SInv'
<1> t \in Threads
  BY DEF Threads
<1> DEFINE r == Begin("capture", "row")
           a == [r EXCEPT !.snap = n]
<1>1. /\ act' = [act EXCEPT ![t] = a] /\ UNCHANGED <<provider, cluster, rows>>
      /\ n \notin rows /\ tar' = [tar EXCEPT ![n] = "whole"]
      /\ \A u \in Threads : act[u].snap # n
  BY DEF ImportSnapshot
<1>3. r \in Acts /\ r.op = "capture" /\ r.pc = "row" /\ r.cands = {} /\ r.box = 0
  BY BeginOK DEF Ops, Pcs, Snapping
<1> HIDE DEF r
<1>4. a \in Acts /\ a.op = "capture" /\ a.pc = "row" /\ a.cands = {} /\ a.box = 0 /\ a.snap = n
  BY <1>3 DEF Acts
<1> HIDE DEF a
<1>5. Old(t, a) /\ a.pc \in Snapping
  BY <1>4 DEF Old, Snapping
<1>6. tar \in [Snapshots -> {"none", "part", "whole"}] /\ rows \subseteq Snapshots
  BY DEF SInv, TypeInv
<1>7. /\ tar' \in [Snapshots -> {"none", "part", "whole"}] /\ rows' \subseteq Snapshots
      /\ \A m \in Snapshots : m # n => tar'[m] = tar[m] /\ (m \in rows' => m \in rows)
      /\ tar'[n] = "whole"
  BY <1>1, <1>6
<1>8. n \notin rows' /\ UNCHANGED <<provider, cluster>>
  BY <1>1
<1>9. Alone(t, n, {"capture", "row"}) /\ Alone(t, n, Snapping)
  BY <1>1 DEF Alone
<1> QED
  BY <1>1, <1>4, <1>5, <1>7, <1>8, <1>9, SnapshotStep

\* The capture of a snapshot goes on to its row.
LEMMA SnapGoesOn ==
    ASSUME SInv, NEW t \in Threads
    PROVE  LET a == [act[t] EXCEPT !.pc = "row", !.box = 0]
           IN /\ a \in Acts /\ a.pc = "row" /\ a.snap = act[t].snap /\ Old(t, a)
              /\ a.op = "create" => a.owner \in Configs
              /\ a.op = "refresh" => t \in Loops
<1>1. act[t] \in Acts /\ Fits(t, act[t]) /\ 0 \in 0..MaxBoxes
  BY Thread
<1> DEFINE a == [act[t] EXCEPT !.pc = "row", !.box = 0]
<1>2. /\ a \in Acts /\ a.op = act[t].op /\ a.pc = "row" /\ a.snap = act[t].snap
      /\ a.box = 0 /\ a.cands = act[t].cands /\ a.owner = act[t].owner
  BY <1>1 DEF Acts, Pcs, Snapping
<1> HIDE DEF a
<1>3. Old(t, a)
  BY <1>2 DEF Old
<1> QED
  BY <1>1, <1>2, <1>3 DEF a, Fits

\* The snapshot that a thread holds on to, and who else does not.
LEMMA SnapOf ==
    ASSUME SInv, NEW t \in Threads, act[t].pc \in Snapping
    PROVE  /\ act[t].snap \in Snapshots /\ Alone(t, act[t].snap, {"capture", "row"})
           /\ act[t].pc \in {"capture", "row"} =>
                act[t].snap \notin rows /\ Alone(t, act[t].snap, Snapping)
           /\ Docker /\ act[t].pc = "row" => tar[act[t].snap] = "whole"
           /\ tar \in [Snapshots -> {"none", "part", "whole"}] /\ rows \subseteq Snapshots
<1>1. Fits(t, act[t])
  BY Thread
<1>2. \A u \in Threads : u # t => Apart(act[t], act[u]) /\ Apart(act[u], act[t])
  BY DEF SInv, PairInv
<1>3. Alone(t, act[t].snap, {"capture", "row"})
  BY <1>2 DEF Alone, Apart
<1>4. act[t].pc \in {"capture", "row"} => Alone(t, act[t].snap, Snapping)
  BY <1>2 DEF Alone, Apart
<1> QED
  BY <1>1, <1>3, <1>4 DEF Fits, SInv, TypeInv

\* A thread that leaves its snapshot.
LEMMA LetsGo ==
    ASSUME SInv, NEW t \in Threads, NEW n \in Snapshots, Alone(t, n, {"capture", "row"}),
           act' = [act EXCEPT ![t] = Idle], UNCHANGED <<provider, cluster>>,
           tar' \in [Snapshots -> {"none", "part", "whole"}], rows' \subseteq Snapshots,
           \A m \in Snapshots : m # n => tar'[m] = tar[m] /\ (m \in rows' => m \in rows)
    PROVE  SInv'
<1>1. Idle \in Acts /\ Idle.pc = "idle" /\ Idle.op = "none" /\ Old(t, Idle) /\ "idle" \notin Snapping
  BY IdleOK, IdleFits DEF Snapping
<1> QED
  BY <1>1, SnapshotStep

\* The archive of a sandbox has been written, or its request goes on as if it had.
LEMMA Archived ==
    ASSUME SInv, NEW t \in Threads, act[t].pc = "capture", UNCHANGED <<provider, cluster, rows>>,
           NEW w \in {"none", "part", "whole"}, Docker => w = "whole",
           tar' = [tar EXCEPT ![act[t].snap] = w],
           act' = [act EXCEPT ![t] = [@ EXCEPT !.pc = "row", !.box = 0]]
    PROVE  SInv'
<1> DEFINE n == act[t].snap
           a == [act[t] EXCEPT !.pc = "row", !.box = 0]
<1>1. /\ n \in Snapshots /\ Alone(t, n, {"capture", "row"}) /\ n \notin rows /\ Alone(t, n, Snapping)
      /\ tar \in [Snapshots -> {"none", "part", "whole"}] /\ rows \subseteq Snapshots
  BY SnapOf DEF Snapping
<1>2. act' = [act EXCEPT ![t] = a] /\ UNCHANGED <<provider, cluster>> /\ rows' = rows
  OBVIOUS
<1>3. /\ a \in Acts /\ a.pc = "row" /\ a.snap = n /\ Old(t, a)
      /\ a.op = "create" => a.owner \in Configs
      /\ a.op = "refresh" => t \in Loops
  BY SnapGoesOn
<1> HIDE DEF a, n
<1>4. /\ tar' \in [Snapshots -> {"none", "part", "whole"}] /\ tar'[n] = w
      /\ \A m \in Snapshots : m # n => tar'[m] = tar[m]
  BY <1>1 DEF n
<1>5. a.pc \in Snapping /\ a.snap = n /\ n \notin rows'
  BY <1>1, <1>2, <1>3 DEF Snapping
<1> QED
  BY <1>1, <1>2, <1>3, <1>4, <1>5, SnapshotStep

\* The tarball is written under an id that has no row.
LEMMA DockerTarKeeps == ASSUME SInv, NEW t \in Requests, DockerTar(t) PROVE SInv'
<1> t \in Threads
  BY DEF Threads
<1> DEFINE n == act[t].snap
<1>1. act[t].pc = "capture" /\ UNCHANGED <<provider, cluster, rows>> /\ UNCHANGED <<provider, cluster>>
  BY DEF DockerTar, At
<1>2. /\ n \in Snapshots /\ Alone(t, n, {"capture", "row"})
      /\ tar \in [Snapshots -> {"none", "part", "whole"}] /\ rows \subseteq Snapshots
  BY <1>1, SnapOf DEF Snapping
<1>3. CASE /\ tar' = [tar EXCEPT ![n] = "whole"]
           /\ act' = [act EXCEPT ![t] = [@ EXCEPT !.pc = "row", !.box = 0]]
  BY <1>1, <1>3, Archived
<1>4. CASE (tar' = [tar EXCEPT ![n] = "part"] \/ UNCHANGED tar) /\ act' = [act EXCEPT ![t] = Idle]
  <2> HIDE DEF n
  <2>1. /\ tar' \in [Snapshots -> {"none", "part", "whole"}]
        /\ \A m \in Snapshots : m # n => tar'[m] = tar[m]
    BY <1>2, <1>4
  <2> QED
    BY <1>1, <1>2, <1>4, <2>1, LetsGo
<1> QED
  BY <1>3, <1>4 DEF DockerTar

\* The pod writes the tarball, whole or not.
LEMMA K8sTarKeeps == ASSUME SInv, NEW t \in Requests, K8sTar(t) PROVE SInv'
<1> t \in Threads
  BY DEF Threads
<1> DEFINE n == act[t].snap
<1>1. /\ act[t].pc = "capture" /\ ~Docker
      /\ UNCHANGED <<provider, cluster, rows>> /\ UNCHANGED <<provider, cluster>>
  BY DEF K8sTar, At
<1>2. /\ n \in Snapshots /\ Alone(t, n, {"capture", "row"})
      /\ tar \in [Snapshots -> {"none", "part", "whole"}] /\ rows \subseteq Snapshots
  BY <1>1, SnapOf DEF Snapping
<1>3. ASSUME NEW w \in {"none", "part", "whole"}, tar' = [tar EXCEPT ![n] = w],
             act' = [act EXCEPT ![t] = [@ EXCEPT !.pc = "row", !.box = 0]]
      PROVE  SInv'
  BY <1>1, <1>3, Archived
<1>4. CASE UNCHANGED tar /\ act' = [act EXCEPT ![t] = Idle]
  BY <1>1, <1>2, <1>4, LetsGo
<1> QED
  BY <1>3, <1>4 DEF K8sTar

\* The row of a snapshot, after its artifact.
LEMMA CommitSnapshotRowKeeps == ASSUME SInv, NEW t \in Requests, CommitSnapshotRow(t) PROVE SInv'
<1> t \in Threads
  BY DEF Threads
<1>1. /\ act[t].pc = "row" /\ UNCHANGED <<provider, cluster>> /\ tar' = tar
      /\ rows' = rows \cup {act[t].snap} /\ act' = [act EXCEPT ![t] = Idle]
  BY DEF CommitSnapshotRow, At
<1>2. /\ act[t].snap \in Snapshots /\ Alone(t, act[t].snap, {"capture", "row"})
      /\ tar \in [Snapshots -> {"none", "part", "whole"}] /\ rows \subseteq Snapshots
  BY <1>1, SnapOf DEF Snapping
<1> QED
  BY <1>1, <1>2, LetsGo

\* What has a row is not being captured.
LEMMA CapturedLater ==
    ASSUME SInv, NEW t, NEW n \in rows
    PROVE  Alone(t, n, {"capture", "row"}) /\ n \in Snapshots
<1>1. \A u \in Threads : Fits(u, act[u])
  BY Thread
<1> QED
  BY <1>1 DEF Alone, Fits, SInv, TypeInv

\* DELETE of a snapshot that has a row.
LEMMA DeleteSnapshotKeeps ==
    ASSUME SInv, NEW t \in Requests, NEW n \in Snapshots, DeleteSnapshot(t, n) PROVE SInv'
<1> t \in Threads
  BY DEF Threads
<1> DEFINE r == Begin("unsnap", "artifact")
           a == [r EXCEPT !.snap = n]
<1>1. /\ act' = [act EXCEPT ![t] = a] /\ UNCHANGED <<provider, cluster>> /\ tar' = tar /\ rows' = rows
      /\ n \in rows
  BY DEF DeleteSnapshot
<1>2. r \in Acts /\ r.op = "unsnap" /\ r.pc = "artifact" /\ r.cands = {} /\ r.box = 0
  BY BeginOK DEF Ops, Pcs, Snapping
<1> HIDE DEF r
<1>3. a \in Acts /\ a.op = "unsnap" /\ a.pc = "artifact" /\ a.cands = {} /\ a.box = 0 /\ a.snap = n
  BY <1>2 DEF Acts
<1> HIDE DEF a
<1>4. Old(t, a) /\ a.pc \in Snapping
  BY <1>3 DEF Old, Snapping
<1>5. tar \in [Snapshots -> {"none", "part", "whole"}] /\ rows \subseteq Snapshots
  BY DEF SInv, TypeInv
<1>6. Alone(t, n, {"capture", "row"})
  BY <1>1, CapturedLater
<1> QED
  BY <1>1, <1>3, <1>4, <1>5, <1>6, SnapshotStep

\* The artifact goes before the row.
LEMMA DeleteSnapshotArtifactKeeps ==
    ASSUME SInv, NEW t \in Requests, DeleteSnapshotArtifact(t) PROVE SInv'
<1> t \in Threads
  BY DEF Threads
<1> DEFINE n == act[t].snap
           a == [act[t] EXCEPT !.pc = "commit"]
<1>1. act[t].pc = "artifact" /\ UNCHANGED <<provider, cluster>> /\ rows' = rows
  BY DEF DeleteSnapshotArtifact, At
<1>2. /\ n \in Snapshots /\ Alone(t, n, {"capture", "row"})
      /\ tar \in [Snapshots -> {"none", "part", "whole"}] /\ rows \subseteq Snapshots
  BY <1>1, SnapOf DEF Snapping
<1>3. CASE tar' = [tar EXCEPT ![n] = "none"] /\ act' = [act EXCEPT ![t] = [@ EXCEPT !.pc = "commit"]]
  <2>1. act[t] \in Acts /\ Fits(t, act[t])
    BY Thread
  <2>2. /\ a \in Acts /\ a.op = act[t].op /\ a.pc = "commit" /\ a.snap = n
        /\ a.box = act[t].box /\ a.cands = act[t].cands /\ a.owner = act[t].owner
    BY <2>1 DEF Acts, Pcs, Snapping
  <2>3. act' = [act EXCEPT ![t] = a]
    BY <1>3
  <2> HIDE DEF a, n
  <2>4. Old(t, a) /\ a.pc \in Snapping
    BY <2>2 DEF Old, Snapping
  <2>5. /\ tar' \in [Snapshots -> {"none", "part", "whole"}]
        /\ \A m \in Snapshots : m # n => tar'[m] = tar[m]
    BY <1>2, <1>3
  <2>6. (a.op = "create" => a.owner \in Configs) /\ (a.op = "refresh" => t \in Loops)
    BY <2>1, <2>2 DEF Fits
  <2> QED
    BY <1>1, <1>2, <2>2, <2>3, <2>4, <2>5, <2>6, SnapshotStep
<1>4. CASE UNCHANGED tar /\ act' = [act EXCEPT ![t] = Idle]
  BY <1>1, <1>2, <1>4, LetsGo
<1> QED
  BY <1>3, <1>4 DEF DeleteSnapshotArtifact

\* The row goes after its artifact.
LEMMA CommitSnapshotDeleteKeeps ==
    ASSUME SInv, NEW t \in Requests, CommitSnapshotDelete(t) PROVE SInv'
<1> t \in Threads
  BY DEF Threads
<1>1. /\ act[t].pc = "commit" /\ UNCHANGED <<provider, cluster>> /\ tar' = tar
      /\ rows' = rows \ {act[t].snap} /\ act' = [act EXCEPT ![t] = Idle]
  BY DEF CommitSnapshotDelete, At
<1>2. /\ act[t].snap \in Snapshots /\ Alone(t, act[t].snap, {"capture", "row"})
      /\ tar \in [Snapshots -> {"none", "part", "whole"}] /\ rows \subseteq Snapshots
  BY <1>1, SnapOf DEF Snapping
<1> QED
  BY <1>1, <1>2, LetsGo

\* A batch deletes rows and leaves the artifacts.
LEMMA BatchDeleteSnapshotsKeeps ==
    ASSUME SInv, NEW t \in Requests, NEW n \in Snapshots, BatchDeleteSnapshots(t, n) PROVE SInv'
<1> t \in Threads
  BY DEF Threads
<1> DEFINE a == act[t]
<1>1. a \in Acts /\ Fits(t, a) /\ a.pc = "idle"
  BY Thread DEF BatchDeleteSnapshots, At
<1>2. act' = [act EXCEPT ![t] = a]
  BY DEF BatchDeleteSnapshots, SInv, TypeInv
<1>3. UNCHANGED <<provider, cluster>> /\ tar' = tar /\ rows' = rows \ {n} /\ n \in rows
  BY DEF BatchDeleteSnapshots
<1>4. Old(t, a) /\ a.pc \notin Snapping
  BY <1>1 DEF Old, Snapping
<1>5. tar \in [Snapshots -> {"none", "part", "whole"}] /\ rows \subseteq Snapshots
  BY DEF SInv, TypeInv
<1>6. Alone(t, n, {"capture", "row"})
  BY <1>3, CapturedLater
<1>7. (a.op = "create" => a.owner \in Configs) /\ (a.op = "refresh" => t \in Loops)
  BY <1>1 DEF Fits
<1> HIDE DEF a
<1> QED
  BY <1>1, <1>2, <1>3, <1>4, <1>5, <1>6, <1>7, SnapshotStep

-----------------------------------------------------------------------------
(* The invariant holds in every state.                                     *)

\* Initially nothing exists and no thread is at work.
LEMMA SInit == Init => SInv
<1> SUFFICES ASSUME Init PROVE SInv
  OBVIOUS
<1>1. TypeInv
  BY IdleOK DEF Init, TypeInv, Absent, Boxes, Owners, Lives
<1>2. BoxInv
  BY DEF Init, BoxInv, Exists, Absent
<1>3. \A t \in Threads : act[t] = Idle
  BY DEF Init
<1>4. ThreadInv
  BY <1>3, IdleOK DEF Init, ThreadInv, Fits, Building, Snapping, Claiming
<1>5. PairInv
  BY <1>3, IdleOK DEF PairInv, Apart, Building
<1> QED
  BY <1>1, <1>2, <1>4, <1>5 DEF SInv

\* The steps of a claim keep the invariant.
LEMMA ClaimKeeps == ASSUME SInv, NEW t \in Requests, Claim(t) PROVE SInv'
BY DockerListWarmKeeps, DockerRenameKeeps, DockerUnpauseKeeps, K8sListWarmKeeps, K8sPatchClaimKeeps
   DEF Claim

\* The steps of a request keep the invariant.
LEMMA ServeKeeps == ASSUME SInv, NEW t \in Requests, Serve(t) PROVE SInv'
BY ClaimKeeps, DockerSetLifeKeeps, K8sStampPauseKeeps, K8sScaleKeeps, DockerSweepKeeps,
   K8sSweepKeeps, SweepEndsKeeps, DockerTarKeeps, K8sTarKeeps, CommitSnapshotRowKeeps,
   DeleteSnapshotArtifactKeeps, CommitSnapshotDeleteKeeps DEF Serve

\* The requests that come in keep the invariant.
LEMMA RequestKeeps == ASSUME SInv, NEW t \in Requests, Request(t) PROVE SInv'
BY CreateSandboxKeeps, DeleteSandboxKeeps, UpdateSandboxKeeps, SweepListKeeps, ImportSnapshotKeeps,
   DeleteSnapshotKeeps, BatchDeleteSnapshotsKeeps, CaptureSnapshotKeeps DEF Request

\* The turns of a refresh keep the invariant.
LEMMA RefreshKeeps == ASSUME SInv, NEW t \in Loops, Refresh(t) PROVE SInv'
BY RefreshCountKeeps, RefreshCreatesKeeps, RefreshDeletesKeeps, RefreshEndsKeeps DEF Refresh

\* The steps of a creation keep the invariant.
LEMMA ProvisionKeeps == ASSUME SInv, NEW t \in Threads, Provision(t) PROVE SInv'
BY DockerWorkspaceKeeps, DockerRunKeeps, DockerRunWarmKeeps, DockerPauseWarmKeeps,
   K8sCreatePvcKeeps, K8sRestoreKeeps, K8sCreateServiceKeeps, K8sCreateDeploymentKeeps,
   K8sCreateWarmDeploymentKeeps DEF Provision

\* The steps of a removal keep the invariant.
LEMMA RemoveKeeps == ASSUME SInv, NEW t \in Threads, Remove(t) PROVE SInv'
BY DockerRemoveKeeps, DockerRmdirKeeps, K8sDeleteDeploymentKeeps, K8sDeleteServiceKeeps,
   K8sDeletePvcKeeps DEF Remove

\* Every step keeps the invariant.
LEMMA SNext == SInv /\ [Next]_vars => SInv'
<1> SUFFICES ASSUME SInv, [Next]_vars PROVE SInv'
  OBVIOUS
<1>1. CASE Next
  BY <1>1, ServeKeeps, RequestKeeps, RefreshKeeps, ProvisionKeeps, RemoveKeeps, FailsKeeps DEF Next
<1>2. CASE UNCHANGED vars
  <2>1. UNCHANGED <<provider, made, box, disk, service, tar, rows, act>>
    BY <1>2 DEF vars, cluster
  <2>2. TypeInv'
    BY <2>1, Zenon DEF SInv, TypeInv
  <2>3. BoxInv'
    BY <2>1, Zenon DEF SInv, BoxInv, Exists
  <2>4. ThreadInv'
    BY <2>1 DEF SInv, ThreadInv, Fits, Exists, Docker
  <2>5. PairInv'
    BY <2>1, Zenon DEF SInv, PairInv
  <2> QED
    BY <2>2, <2>3, <2>4, <2>5 DEF SInv
<1> QED
  BY <1>1, <1>2

(* The types, and what a thread may rely on between two calls to the       *)
(* daemon or the API server: a sandbox that is being created has its       *)
(* number to itself (_sync_create_sandbox, _sync_create_warm), a snapshot  *)
(* that is being captured has no row (capture_snapshot), and what a claim  *)
(* has listed and nobody has written since is warm                         *)
(* (_sync_claim_warm_sandbox on Kubernetes).                               *)
THEOREM SandboxInvariant == Spec => []SInv
BY SInit, SNext, PTL DEF Spec

-----------------------------------------------------------------------------
(* What one step of one thread does to a sandbox and to the claims.        *)

Others(t) == \A u \in Threads : u # t => Same(act'[u], act[u])

\* Thread t starts sandbox b, for a config or for the pool.
Starts(t, b) ==
    /\ act[t].box = b /\ act[t].pc = IF Docker THEN "run" ELSE "deployment"
    /\ \/ act[t].op = "create" /\ box'[b].owner = act[t].owner
       \/ act[t].op = "refresh" /\ box'[b].owner = Warm

\* Thread t claims sandbox b, which it has listed.
Takes(t, b) ==
    /\ b \in act[t].cands /\ Exists(b) /\ box'[b].owner = act[t].owner
    /\ act[t].pc = IF Docker THEN "rename" ELSE "patch"
    /\ ~Docker => b \notin act[t].mark

BoxStep(t, b) ==
    \/ box'[b] = box[b] \/ box'[b] = Absent
    \/ Exists(b) /\ box'[b].owner = box[b].owner
    \/ Starts(t, b) \/ Takes(t, b)

\* Thread t enters the claim lock, stays under it, or is not under it.
ClaimStep(t) ==
    \/ act'[t].pc \notin Claiming
    \/ /\ Docker /\ ClaimLock(t) /\ UNCHANGED box
       /\ act'[t].pc = "rename" /\ act'[t].cands = WarmBoxes
    \/ /\ Docker /\ act[t].pc = "rename" /\ act'[t].cands \subseteq act[t].cands
       /\ act'[t].pc = "rename" => UNCHANGED box

Effect(t) == Others(t) /\ ClaimStep(t) /\ \A b \in Ids : BoxStep(t, b)

\* A step that writes no sandbox leaves the other threads as they are.
LEMMA OthersAlone ==
    ASSUME TypeInv, NEW t \in Threads, NEW a, act' = [act EXCEPT ![t] = a]
    PROVE  Others(t) /\ act'[t] = a
BY DEF TypeInv, Others, Same

\* A step on sandbox b that leaves the claim lock alone.
LEMMA EffectOn ==
    ASSUME SInv, NEW t \in Threads, NEW b, NEW a \in Acts, a.pc \notin Claiming,
           act' = [act EXCEPT ![t] = a] \/ Go(t, a, b),
           \A c \in Ids : c # b => box'[c] = box[c], b \in Ids => BoxStep(t, b)
    PROVE  Effect(t)
<1>1. Others(t) /\ act'[t] = a
  BY OthersAlone, MovesGo DEF SInv, Moved, Others
<1> QED
  BY <1>1 DEF Effect, ClaimStep, BoxStep

\* A step on no sandbox that leaves the claim lock alone.
LEMMA EffectOnNone ==
    ASSUME SInv, NEW t \in Threads, NEW a, a.pc \notin Claiming, act' = [act EXCEPT ![t] = a],
           UNCHANGED box
    PROVE  Effect(t)
BY OthersAlone DEF SInv, Effect, ClaimStep, BoxStep

\* A thread that ends without a write.
LEMMA EndsWithout ==
    ASSUME SInv, NEW t \in Threads, act' = [act EXCEPT ![t] = Idle], UNCHANGED box
    PROVE  Effect(t)
BY EffectOnNone, IdleOK DEF Claiming

\* What a thread does next, when it is not a claim.
LEMMA NextPc ==
    ASSUME SInv, NEW t \in Threads, NEW pc, pc \notin Claiming
    PROVE  [act[t] EXCEPT !.pc = pc].pc \notin Claiming
BY Thread DEF Acts

\* What follows a creation or a removal is not a claim.
LEMMA DoneOK ==
    ASSUME SInv, NEW t \in Threads
    PROVE  /\ Done(t) \in Acts /\ Done(t).pc \notin Claiming
           /\ After(t, act[t].count + 1) \in Acts /\ After(t, act[t].count + 1).pc \notin Claiming
<1>1. act[t].count \in Nat /\ act[t].count + 1 \in Nat
  BY Thread DEF Acts
<1> QED
  BY <1>1, AfterOK DEF Done, Claiming

\* A request that comes in touches no sandbox yet.
LEMMA RequestEffect == ASSUME SInv, NEW t \in Requests, Request(t) PROVE Effect(t)
<1> t \in Threads
  BY DEF Threads
<1>1. ASSUME NEW c \in Configs, NEW n \in Snapshots \cup {NoSnapshot}, CreateSandbox(t, c, n)
      PROVE  Effect(t)
  <2> DEFINE pc == IF n = NoSnapshot THEN "list" ELSE ColdStart
             r == Begin("create", pc)
             a == [r EXCEPT !.owner = c, !.snap = n]
  <2>1. act' = [act EXCEPT ![t] = a] /\ UNCHANGED box
    BY <1>1 DEF CreateSandbox, cluster
  <2>2. pc \in {"list", "workspace", "pvc"}
    BY DEF ColdStart
  <2>3. r \in Acts /\ r.pc = pc
    BY <2>2, BeginOK DEF Ops, Pcs
  <2> HIDE DEF r, pc
  <2>4. a.pc \notin Claiming
    BY <2>2, <2>3 DEF Acts, Claiming
  <2> HIDE DEF a
  <2> QED
    BY <2>1, <2>4, EffectOnNone
<1>2. ASSUME NEW b \in Ids, DeleteSandbox(t, b) PROVE Effect(t)
  <2> DEFINE r == Begin("delete", "remove")
             a == [r EXCEPT !.box = b]
  <2>1. act' = [act EXCEPT ![t] = a] /\ UNCHANGED box
    BY <1>2 DEF DeleteSandbox, cluster
  <2>2. r \in Acts /\ r.pc = "remove"
    BY BeginOK DEF Ops, Pcs
  <2> HIDE DEF r
  <2>3. a.pc \notin Claiming
    BY <2>2 DEF Acts, Claiming
  <2> HIDE DEF a
  <2> QED
    BY <2>1, <2>3, EffectOnNone
<1>3. ASSUME NEW b \in Ids, NEW life \in {"running", "paused"}, UpdateSandbox(t, b, life)
      PROVE  Effect(t)
  <2> DEFINE r == Begin("update", "desire")
             a == [r EXCEPT !.box = b, !.life = life]
  <2>1. act' = [act EXCEPT ![t] = a] /\ UNCHANGED box
    BY <1>3 DEF UpdateSandbox, cluster
  <2>2. r \in Acts /\ r.pc = "desire"
    BY BeginOK DEF Ops, Pcs
  <2> HIDE DEF r
  <2>3. a.pc \notin Claiming
    BY <2>2 DEF Acts, Claiming
  <2> HIDE DEF a
  <2> QED
    BY <2>1, <2>3, EffectOnNone
<1>4. ASSUME SweepList(t) PROVE Effect(t)
  <2> DEFINE r == Begin("sweep", "sweep")
             a == [r EXCEPT !.cands = Claimed, !.mark = {b \in Claimed : box[b].life = "paused"}]
  <2>1. act' = [act EXCEPT ![t] = a] /\ UNCHANGED box
    BY <1>4 DEF SweepList, cluster
  <2>2. r \in Acts /\ r.pc = "sweep"
    BY BeginOK DEF Ops, Pcs
  <2> HIDE DEF r
  <2>3. a.pc \notin Claiming
    BY <2>2 DEF Acts, Claiming
  <2> HIDE DEF a
  <2> QED
    BY <2>1, <2>3, EffectOnNone
<1>5. ASSUME NEW n \in Snapshots, ImportSnapshot(t, n) PROVE Effect(t)
  <2> DEFINE r == Begin("capture", "row")
             a == [r EXCEPT !.snap = n]
  <2>1. act' = [act EXCEPT ![t] = a] /\ UNCHANGED box
    BY <1>5 DEF ImportSnapshot, cluster
  <2>2. r \in Acts /\ r.pc = "row"
    BY BeginOK DEF Ops, Pcs, Snapping
  <2> HIDE DEF r
  <2>3. a.pc \notin Claiming
    BY <2>2 DEF Acts, Claiming
  <2> HIDE DEF a
  <2> QED
    BY <2>1, <2>3, EffectOnNone
<1>6. ASSUME NEW n \in Snapshots, DeleteSnapshot(t, n) PROVE Effect(t)
  <2> DEFINE r == Begin("unsnap", "artifact")
             a == [r EXCEPT !.snap = n]
  <2>1. act' = [act EXCEPT ![t] = a] /\ UNCHANGED box
    BY <1>6 DEF DeleteSnapshot, cluster
  <2>2. r \in Acts /\ r.pc = "artifact"
    BY BeginOK DEF Ops, Pcs, Snapping
  <2> HIDE DEF r
  <2>3. a.pc \notin Claiming
    BY <2>2 DEF Acts, Claiming
  <2> HIDE DEF a
  <2> QED
    BY <2>1, <2>3, EffectOnNone
<1>7. ASSUME NEW n \in Snapshots, NEW b \in Claimed, CaptureSnapshot(t, n, b) PROVE Effect(t)
  <2> DEFINE r == Begin("capture", "capture")
             a == [r EXCEPT !.box = b, !.snap = n]
  <2>1. act' = [act EXCEPT ![t] = a] /\ UNCHANGED box
    BY <1>7 DEF CaptureSnapshot, cluster
  <2>2. r \in Acts /\ r.pc = "capture"
    BY BeginOK DEF Ops, Pcs, Snapping
  <2> HIDE DEF r
  <2>3. a.pc \notin Claiming
    BY <2>2 DEF Acts, Claiming
  <2> HIDE DEF a
  <2> QED
    BY <2>1, <2>3, EffectOnNone
<1>8. ASSUME NEW n \in Snapshots, BatchDeleteSnapshots(t, n) PROVE Effect(t)
  BY <1>8 DEF BatchDeleteSnapshots, cluster, Effect, Others, Same, ClaimStep, BoxStep, At, Claiming
<1> QED
  BY <1>1, <1>2, <1>3, <1>4, <1>5, <1>6, <1>7, <1>8 DEF Request

\* A claim takes one sandbox of those it has listed.
LEMMA ClaimEffect == ASSUME SInv, NEW t \in Requests, Claim(t) PROVE Effect(t)
<1> t \in Threads
  BY DEF Threads
<1>0. act[t] \in Acts /\ Fits(t, act[t]) /\ SInv /\ TypeInv
  BY Thread DEF SInv
<1>1. ASSUME DockerListWarm(t) PROVE Effect(t)
  <2>1. CASE WarmBoxes = {}
    <3> DEFINE a == [act[t] EXCEPT !.pc = "workspace"]
    <3>1. act' = [act EXCEPT ![t] = a] /\ UNCHANGED box
      BY <1>1, <2>1 DEF DockerListWarm, cluster
    <3>2. a.pc \notin Claiming
      BY NextPc DEF Claiming
    <3> HIDE DEF a
    <3> QED
      BY <3>1, <3>2, EffectOnNone
  <2>2. CASE WarmBoxes # {}
    <3> DEFINE a == [act[t] EXCEPT !.pc = "rename", !.cands = WarmBoxes]
    <3>1. act' = [act EXCEPT ![t] = a] /\ UNCHANGED box /\ Docker /\ ClaimLock(t)
      BY <1>1, <2>2 DEF DockerListWarm, cluster
    <3>2. a.pc = "rename" /\ a.cands = WarmBoxes
      BY <1>0 DEF Acts
    <3> HIDE DEF a
    <3>3. Others(t) /\ act'[t] = a
      BY <1>0, <3>1, OthersAlone
    <3> QED
      BY <3>1, <3>2, <3>3 DEF Effect, ClaimStep, BoxStep
  <2> QED
    BY <2>1, <2>2
<1>2. ASSUME DockerRename(t) PROVE Effect(t)
  <2> DEFINE b == Min(act[t].cands)
             rest == act[t].cands \ {b}
             a == [act[t] EXCEPT !.pc = "unpause", !.box = b, !.cands = {}]
             c == [act[t] EXCEPT !.cands = rest, !.pc = IF rest = {} THEN "workspace" ELSE act[t].pc]
  <2>1. /\ Docker /\ act[t].pc = "rename"
        /\ \/ /\ Exists(b) /\ box' = [box EXCEPT ![b].owner = act[t].owner]
              /\ act' = [act EXCEPT ![t] = a]
           \/ act' = [act EXCEPT ![t] = c] /\ UNCHANGED box
    BY <1>2, Zenon DEF DockerRename, At
  <2>2. b \in act[t].cands /\ b \in Ids
    BY <2>1, NextCandidate
  <2>3. a.pc = "unpause" /\ a.cands = {} /\ c.cands = rest /\ rest \subseteq act[t].cands
    BY <1>0 DEF Acts
  <2> HIDE DEF a, c, b, rest
  <2>4. CASE /\ Exists(b) /\ box' = [box EXCEPT ![b].owner = act[t].owner]
             /\ act' = [act EXCEPT ![t] = a]
    <3>1. Others(t) /\ act'[t] = a
      BY <1>0, <2>4, OthersAlone
    <3>2. box \in [Ids -> Boxes]
      BY Thread
    <3>3. box'[b].owner = act[t].owner /\ \A d \in Ids : d # b => box'[d] = box[d]
      BY <2>2, <2>4, <3>2 DEF Boxes
    <3>4. Takes(t, b)
      BY <2>1, <2>2, <2>4, <3>3 DEF Takes
    <3> QED
      BY <2>1, <2>3, <3>1, <3>3, <3>4 DEF Effect, ClaimStep, BoxStep
  <2>5. CASE act' = [act EXCEPT ![t] = c] /\ UNCHANGED box
    <3>1. Others(t) /\ act'[t] = c
      BY <1>0, <2>5, OthersAlone
    <3> QED
      BY <2>1, <2>3, <2>5, <3>1 DEF Effect, ClaimStep, BoxStep
  <2> QED
    BY <2>1, <2>4, <2>5
<1>3. ASSUME DockerUnpause(t) PROVE Effect(t)
  <2> DEFINE b == act[t].box
             a == [act[t] EXCEPT !.pc = "workspace", !.box = 0]
  <2>1. CASE /\ box[b].life = "paused" /\ box' = [box EXCEPT ![b].life = "running"]
             /\ act' = [act EXCEPT ![t] = [@ EXCEPT !.pc = "workspace", !.box = 0]]
    <3>1. act' = [act EXCEPT ![t] = a]
      BY <2>1
    <3>2. a \in Acts /\ a.pc \notin Claiming
      <4>1. 0 \in 0..MaxBoxes
        OBVIOUS
      <4> QED
        BY <1>0, <4>1 DEF Acts, Pcs, Claiming
    <3> HIDE DEF a
    <3>3. b \in Ids => Exists(b)
      BY <2>1, LiveExists
    <3> HIDE DEF b
    <3>4. (\A c \in Ids : c # b => box'[c] = box[c]) /\ (b \in Ids => box'[b].owner = box[b].owner)
      BY <2>1, <3>3, LifeChanges DEF Lives
    <3> QED
      BY <3>1, <3>2, <3>3, <3>4, EffectOn DEF BoxStep
  <2> QED
    BY <1>3, <2>1, EndsWithout DEF DockerUnpause
<1>4. ASSUME K8sListWarm(t) PROVE Effect(t)
  <2> DEFINE a == IF WarmBoxes = {} THEN [act[t] EXCEPT !.pc = "pvc"]
                  ELSE [act[t] EXCEPT !.pc = "patch", !.cands = WarmBoxes]
  <2>1. act' = [act EXCEPT ![t] = a] /\ UNCHANGED box
    BY <1>4, Zenon DEF K8sListWarm, cluster
  <2>2. a.pc \notin Claiming
    BY <1>0 DEF Acts, Claiming
  <2> HIDE DEF a
  <2> QED
    BY <2>1, <2>2, EffectOnNone
<1>5. ASSUME K8sPatchClaim(t) PROVE Effect(t)
  <2> DEFINE b == Min(act[t].cands)
             rest == act[t].cands \ {b}
             a == [act[t] EXCEPT !.cands = rest, !.mark = act[t].mark \ {b},
                                 !.pc = IF rest = {} THEN "pvc" ELSE act[t].pc]
  <2>1. /\ ~Docker /\ act[t].pc = "patch"
        /\ \/ /\ Exists(b) /\ Fresh(t, b)
              /\ box' = [box EXCEPT ![b].owner = act[t].owner]
              /\ Go(t, Idle, b)
           \/ act' = [act EXCEPT ![t] = a] /\ UNCHANGED box
           \/ act' = [act EXCEPT ![t] = Idle] /\ UNCHANGED box
    BY <1>5, Zenon DEF K8sPatchClaim, At
  <2>2. b \in act[t].cands /\ b \in Ids
    BY <2>1, NextCandidate
  <2>3. a.pc \notin Claiming
    BY <1>0, <2>1 DEF Acts, Claiming
  <2> HIDE DEF a, b, rest
  <2>4. CASE /\ Exists(b) /\ Fresh(t, b)
             /\ box' = [box EXCEPT ![b].owner = act[t].owner]
             /\ Go(t, Idle, b)
    <3>2. box \in [Ids -> Boxes]
      BY Thread
    <3>3. box'[b].owner = act[t].owner /\ \A d \in Ids : d # b => box'[d] = box[d]
      BY <2>2, <2>4, <3>2 DEF Boxes
    <3>4. Takes(t, b)
      BY <2>1, <2>2, <2>4, <3>3 DEF Takes, Fresh
    <3>5. Idle \in Acts /\ Idle.pc \notin Claiming
      BY IdleOK DEF Claiming
    <3> QED
      BY <2>4, <3>3, <3>4, <3>5, EffectOn DEF BoxStep
  <2> QED
    BY <2>1, <2>3, <2>4, EffectOnNone, EndsWithout
<1> QED
  BY <1>1, <1>2, <1>3, <1>4, <1>5 DEF Claim

\* A refresh by itself touches no sandbox.
LEMMA RefreshEffect == ASSUME SInv, NEW t \in Loops, Refresh(t) PROVE Effect(t)
<1> t \in Threads
  BY DEF Threads
<1>0. act[t] \in Acts
  BY Thread
<1>1. ASSUME RefreshCount(t) PROVE Effect(t)
  <2> DEFINE r == Begin("refresh", "turn")
             n == IF LoopKey = "tag" THEN Cardinality(WarmBoxes) ELSE 0
  <2>1. PICK num_warm \in 1..MaxTarget :
          act' = [act EXCEPT ![t] = [r EXCEPT !.goal = num_warm, !.count = n]]
    BY <1>1, Zenon DEF RefreshCount
  <2> DEFINE a == [r EXCEPT !.goal = num_warm, !.count = n]
  <2>2. r \in Acts /\ r.pc = "turn"
    BY BeginOK DEF Ops, Pcs
  <2> HIDE DEF r, n
  <2>3. a.pc \notin Claiming
    BY <2>2 DEF Acts, Claiming
  <2>4. act' = [act EXCEPT ![t] = a]
    BY <2>1
  <2> HIDE DEF a
  <2> QED
    BY <1>1, <2>3, <2>4, EffectOnNone DEF RefreshCount, cluster
<1>2. ASSUME RefreshCreates(t) PROVE Effect(t)
  <2> DEFINE a == [act[t] EXCEPT !.pc = ColdStart, !.owner = Warm]
  <2>1. act' = [act EXCEPT ![t] = IF Resolves(LoopKey) THEN a ELSE Idle] /\ UNCHANGED box
    BY <1>2, Zenon DEF RefreshCreates, cluster
  <2>2. a.pc = ColdStart
    BY <1>0 DEF Acts
  <2> HIDE DEF a
  <2>3. a.pc \notin Claiming
    BY <2>2 DEF Claiming, ColdStart
  <2> QED
    BY <2>1, <2>3, EffectOnNone, EndsWithout
<1>3. ASSUME RefreshDeletes(t) PROVE Effect(t)
  <2> DEFINE a == IF WarmBoxes = {} THEN [act[t] EXCEPT !.count = act[t].count - 1]
                  ELSE [act[t] EXCEPT !.pc = "remove", !.box = Min(WarmBoxes), !.count = act[t].count - 1]
  <2>1. act' = [act EXCEPT ![t] = a] /\ UNCHANGED box /\ act[t].pc = "turn"
    BY <1>3, Zenon DEF RefreshDeletes, cluster, At
  <2>2. a.pc \in {"turn", "remove"}
    <3> DEFINE n == act[t].count - 1
               m == Min(WarmBoxes)
    <3> HIDE DEF n, m
    <3>1. [act[t] EXCEPT !.count = n].pc = "turn"
      BY <1>0, <2>1 DEF Acts
    <3>2. [act[t] EXCEPT !.pc = "remove", !.box = m, !.count = n].pc = "remove"
      BY <1>0 DEF Acts
    <3> QED
      BY <3>1, <3>2 DEF n, m
  <2> HIDE DEF a
  <2> QED
    BY <2>1, <2>2, EffectOnNone DEF Claiming
<1>4. ASSUME RefreshEnds(t) PROVE Effect(t)
  BY <1>4, EndsWithout DEF RefreshEnds, cluster
<1> QED
  BY <1>1, <1>2, <1>3, <1>4 DEF Refresh

\* A sandbox is started.
LEMMA StartEffect ==
    ASSUME SInv, NEW t \in Threads, act[t].pc = IF Docker THEN "run" ELSE "deployment",
           NEW a \in Acts, a.pc \notin Claiming, act' = [act EXCEPT ![t] = a],
           NEW owner,
           (act[t].op = "create" /\ owner = act[t].owner) \/ (act[t].op = "refresh" /\ owner = Warm),
           box' = [box EXCEPT ![act[t].box] = [owner |-> owner, life |-> "running", stamp |-> FALSE]]
    PROVE  Effect(t)
<1> DEFINE b == act[t].box
<1>1. b \in Ids
  BY BoxOfBuilding DEF Building
<1>2. box \in [Ids -> Boxes]
  BY Thread
<1>3. box'[b].owner = owner /\ \A c \in Ids : c # b => box'[c] = box[c]
  BY <1>1, <1>2
<1>4. Starts(t, b)
  BY <1>3 DEF Starts
<1> HIDE DEF b
<1> QED
  BY <1>3, <1>4, EffectOn DEF BoxStep

\* Only the life or the stamp of a sandbox that is there is written.
LEMMA LifeEffect ==
    ASSUME SInv, NEW t \in Threads, NEW b, b \in Ids => Exists(b), NEW life \in Lives,
           box' = [box EXCEPT ![b].life = life],
           NEW a \in Acts, a.pc \notin Claiming, act' = [act EXCEPT ![t] = a] \/ Go(t, a, b)
    PROVE  Effect(t)
<1>1. (\A c \in Ids : c # b => box'[c] = box[c]) /\ (b \in Ids => box'[b].owner = box[b].owner)
  BY LifeChanges
<1> QED
  BY <1>1, EffectOn DEF BoxStep

\* The sandbox that t has is removed.
LEMMA RemoveEffect ==
    ASSUME SInv, NEW t \in Threads, NEW b, box' = [box EXCEPT ![b] = Absent],
           NEW a \in Acts, a.pc \notin Claiming, act' = [act EXCEPT ![t] = a] \/ Go(t, a, b)
    PROVE  Effect(t)
<1>1. box \in [Ids -> Boxes]
  BY Thread
<1>2. (\A c \in Ids : c # b => box'[c] = box[c]) /\ (b \in Ids => box'[b] = Absent)
  BY <1>1
<1> QED
  BY <1>2, EffectOn DEF BoxStep

\* A creation starts its own sandbox.
LEMMA ProvisionEffect == ASSUME SInv, NEW t \in Threads, Provision(t) PROVE Effect(t)
<1>0. act[t] \in Acts /\ Idle \in Acts /\ Idle.pc \notin Claiming
  BY Thread, IdleOK DEF Claiming
<1>1. ASSUME DockerWorkspace(t) PROVE Effect(t)
  <2> DEFINE a == [act[t] EXCEPT !.pc = "run", !.box = made']
  <2>1. act' = [act EXCEPT ![t] = a] /\ UNCHANGED box
    BY <1>1 DEF DockerWorkspace
  <2>2. a.pc \notin Claiming
    <3> DEFINE n == made'
    <3> HIDE DEF n
    <3>1. [act[t] EXCEPT !.pc = "run", !.box = n].pc = "run"
      BY <1>0 DEF Acts
    <3> QED
      BY <3>1 DEF n, Claiming
  <2> HIDE DEF a
  <2> QED
    BY <2>1, <2>2, EffectOnNone
<1>2. ASSUME DockerRun(t) PROVE Effect(t)
  <2> DEFINE owner == act[t].owner
  <2>1. /\ act' = [act EXCEPT ![t] = Idle] /\ act[t].pc = "run" /\ Docker /\ act[t].op = "create"
        /\ box' = [box EXCEPT ![act[t].box] = [owner |-> owner, life |-> "running", stamp |-> FALSE]]
    BY <1>2 DEF DockerRun, At
  <2>2. owner = act[t].owner
    OBVIOUS
  <2> HIDE DEF owner
  <2> QED
    BY <1>0, <2>1, <2>2, StartEffect
<1>3. ASSUME DockerRunWarm(t) PROVE Effect(t)
  <2> DEFINE a == [act[t] EXCEPT !.pc = "pause"]
  <2>1. act' = [act EXCEPT ![t] = a] /\ act[t].pc = "run" /\ Docker /\ act[t].op = "refresh"
        /\ box' = [box EXCEPT ![act[t].box] = [owner |-> Warm, life |-> "running", stamp |-> FALSE]]
    BY <1>3 DEF DockerRunWarm, At
  <2>2. a \in Acts /\ a.pc \notin Claiming
    BY <2>1, GoesOn, NextPc DEF Claiming
  <2> HIDE DEF a
  <2> QED
    BY <2>1, <2>2, StartEffect
<1>4. ASSUME DockerPauseWarm(t) PROVE Effect(t)
  <2> DEFINE b == act[t].box
             a == After(t, act[t].count + 1)
  <2>1. a \in Acts /\ a.pc \notin Claiming
    BY DoneOK
  <2>2. \/ /\ box[b].life = "running" /\ box' = [box EXCEPT ![b].life = "paused"]
           /\ act' = [act EXCEPT ![t] = a]
        \/ act' = [act EXCEPT ![t] = Idle] /\ UNCHANGED box
    BY <1>4 DEF DockerPauseWarm
  <2> HIDE DEF a, b
  <2>3. CASE /\ box[b].life = "running" /\ box' = [box EXCEPT ![b].life = "paused"]
             /\ act' = [act EXCEPT ![t] = a]
    <3>1. b \in Ids => Exists(b)
      BY <2>3, LiveExists
    <3> QED
      BY <2>1, <2>3, <3>1, LifeEffect DEF Lives
  <2> QED
    BY <2>2, <2>3, EndsWithout
<1>5. ASSUME K8sCreatePvc(t) PROVE Effect(t)
  <2> DEFINE pc == IF act[t].snap = NoSnapshot THEN "service" ELSE "restore"
             n == made'
             a == [act[t] EXCEPT !.box = n, !.pc = pc]
  <2>1. act' = [act EXCEPT ![t] = a] /\ UNCHANGED box
    BY <1>5 DEF K8sCreatePvc
  <2>2. pc \notin Claiming
    BY DEF Claiming
  <2> HIDE DEF pc, n
  <2>3. a.pc \notin Claiming
    BY <1>0, <2>2 DEF Acts
  <2> HIDE DEF a
  <2> QED
    BY <2>1, <2>3, EffectOnNone
<1>6. ASSUME K8sRestore(t) PROVE Effect(t)
  <2> DEFINE a == [act[t] EXCEPT !.pc = "service"]
  <2>1. act' = [act EXCEPT ![t] = IF tar[act[t].snap] = "none" THEN Idle ELSE a] /\ UNCHANGED box
    BY <1>6, Zenon DEF K8sRestore, cluster
  <2>2. a.pc \notin Claiming
    BY NextPc DEF Claiming
  <2> HIDE DEF a
  <2> QED
    BY <2>1, <2>2, EffectOnNone, EndsWithout
<1>7. ASSUME K8sCreateService(t) PROVE Effect(t)
  <2> DEFINE a == [act[t] EXCEPT !.pc = "deployment"]
  <2>1. act' = [act EXCEPT ![t] = a] /\ UNCHANGED box
    BY <1>7 DEF K8sCreateService
  <2>2. a.pc \notin Claiming
    BY NextPc DEF Claiming
  <2> HIDE DEF a
  <2> QED
    BY <2>1, <2>2, EffectOnNone
<1>8. ASSUME K8sCreateDeployment(t) PROVE Effect(t)
  <2> DEFINE owner == act[t].owner
  <2>1. /\ act' = [act EXCEPT ![t] = Idle] /\ act[t].pc = "deployment" /\ ~Docker /\ act[t].op = "create"
        /\ box' = [box EXCEPT ![act[t].box] = [owner |-> owner, life |-> "running", stamp |-> FALSE]]
    BY <1>8 DEF K8sCreateDeployment, At
  <2>2. owner = act[t].owner
    OBVIOUS
  <2> HIDE DEF owner
  <2> QED
    BY <1>0, <2>1, <2>2, StartEffect
<1>9. ASSUME K8sCreateWarmDeployment(t) PROVE Effect(t)
  <2> DEFINE a == After(t, act[t].count + 1)
  <2>1. act' = [act EXCEPT ![t] = a] /\ act[t].pc = "deployment" /\ ~Docker /\ act[t].op = "refresh"
        /\ box' = [box EXCEPT ![act[t].box] = [owner |-> Warm, life |-> "running", stamp |-> FALSE]]
    BY <1>9 DEF K8sCreateWarmDeployment, At
  <2>2. a \in Acts /\ a.pc \notin Claiming
    BY DoneOK
  <2> HIDE DEF a
  <2> QED
    BY <2>1, <2>2, StartEffect
<1> QED
  BY <1>1, <1>2, <1>3, <1>4, <1>5, <1>6, <1>7, <1>8, <1>9 DEF Provision

\* A removal leaves nothing of its sandbox.
LEMMA RemovalEffect == ASSUME SInv, NEW t \in Threads, Remove(t) PROVE Effect(t)
<1>1. ASSUME DockerRemove(t) PROVE Effect(t)
  <2> DEFINE a == [act[t] EXCEPT !.pc = "rmdir"]
  <2>1. \/ box' = [box EXCEPT ![act[t].box] = Absent] /\ act' = [act EXCEPT ![t] = a]
        \/ act' = [act EXCEPT ![t] = Idle] /\ UNCHANGED box
    BY <1>1 DEF DockerRemove
  <2>2. a \in Acts /\ a.pc \notin Claiming
    BY GoesOn, NextPc DEF Claiming
  <2> HIDE DEF a
  <2> QED
    BY <2>1, <2>2, RemoveEffect, EndsWithout
<1>2. ASSUME DockerRmdir(t) PROVE Effect(t)
  BY <1>2, DoneOK, EffectOnNone DEF DockerRmdir
<1>3. ASSUME K8sDeleteDeployment(t) PROVE Effect(t)
  <2> DEFINE a == [act[t] EXCEPT !.pc = "rmservice"]
  <2>1. \/ box' = [box EXCEPT ![act[t].box] = Absent] /\ Go(t, a, act[t].box)
        \/ act' = [act EXCEPT ![t] = IF act[t].op = "refresh" THEN a ELSE Idle] /\ UNCHANGED box
    BY <1>3, Zenon DEF K8sDeleteDeployment
  <2>2. a \in Acts /\ a.pc \notin Claiming
    BY GoesOn, NextPc DEF Claiming
  <2> HIDE DEF a
  <2> QED
    BY <2>1, <2>2, RemoveEffect, EffectOnNone, EndsWithout
<1>4. ASSUME K8sDeleteService(t) PROVE Effect(t)
  <2> DEFINE a == [act[t] EXCEPT !.pc = "rmpvc"]
  <2>1. act' = [act EXCEPT ![t] = a] /\ UNCHANGED box
    BY <1>4 DEF K8sDeleteService
  <2>2. a.pc \notin Claiming
    BY NextPc DEF Claiming
  <2> HIDE DEF a
  <2> QED
    BY <2>1, <2>2, EffectOnNone
<1>5. ASSUME K8sDeletePvc(t) PROVE Effect(t)
  BY <1>5, DoneOK, EffectOnNone DEF K8sDeletePvc
<1> QED
  BY <1>1, <1>2, <1>3, <1>4, <1>5 DEF Remove

\* The archive of a snapshot, and its row.
LEMMA SnapshotEffect ==
    ASSUME SInv, NEW t \in Threads, UNCHANGED cluster,
           \/ act' = [act EXCEPT ![t] = [@ EXCEPT !.pc = "row", !.box = 0]]
           \/ act' = [act EXCEPT ![t] = [@ EXCEPT !.pc = "commit"]]
           \/ act' = [act EXCEPT ![t] = Idle]
    PROVE  Effect(t)
<1>1. UNCHANGED box
  BY DEF cluster
<1>2. CASE act' = [act EXCEPT ![t] = [@ EXCEPT !.pc = "row", !.box = 0]]
  <2> DEFINE a == [act[t] EXCEPT !.pc = "row", !.box = 0]
  <2>1. act' = [act EXCEPT ![t] = a] /\ a.pc = "row"
    BY <1>2, SnapGoesOn
  <2> HIDE DEF a
  <2> QED
    BY <1>1, <2>1, EffectOnNone DEF Claiming
<1>3. CASE act' = [act EXCEPT ![t] = [@ EXCEPT !.pc = "commit"]]
  <2> DEFINE a == [act[t] EXCEPT !.pc = "commit"]
  <2>1. act' = [act EXCEPT ![t] = a] /\ a.pc \notin Claiming
    BY <1>3, NextPc DEF Claiming
  <2> HIDE DEF a
  <2> QED
    BY <1>1, <2>1, EffectOnNone
<1> QED
  BY <1>1, <1>2, <1>3, EndsWithout

\* No other step of a request changes the owner of a sandbox.
LEMMA ServeEffect == ASSUME SInv, NEW t \in Requests, Serve(t) PROVE Effect(t)
<1> t \in Threads
  BY DEF Threads
<1>0. act[t].life \in Lives
  BY Thread DEF Acts
<1>1. ASSUME DockerSetLife(t) PROVE Effect(t)
  <2> DEFINE b == act[t].box
             a == Done(t)
  <2>1. \/ Exists(b) /\ box' = [box EXCEPT ![b].life = act[t].life] /\ act' = [act EXCEPT ![t] = a]
        \/ act' = [act EXCEPT ![t] = Idle] /\ UNCHANGED box
    BY <1>1 DEF DockerSetLife
  <2>2. a \in Acts /\ a.pc \notin Claiming
    BY DoneOK
  <2> HIDE DEF a, b
  <2> QED
    BY <1>0, <2>1, <2>2, LifeEffect, EndsWithout
<1>2. ASSUME K8sStampPause(t) PROVE Effect(t)
  <2> DEFINE b == act[t].box
             s == act[t].life = "paused"
             a == [act[t] EXCEPT !.pc = "scale"]
  <2>1. \/ Exists(b) /\ box' = [box EXCEPT ![b].stamp = s] /\ Go(t, a, b)
        \/ act' = [act EXCEPT ![t] = a] /\ UNCHANGED box
        \/ act' = [act EXCEPT ![t] = Idle] /\ UNCHANGED box
    BY <1>2 DEF K8sStampPause
  <2>2. a \in Acts /\ a.pc \notin Claiming
    BY GoesOn, NextPc DEF Claiming
  <2> HIDE DEF a, b, s
  <2>3. CASE Exists(b) /\ box' = [box EXCEPT ![b].stamp = s] /\ Go(t, a, b)
    <3>1. box \in [Ids -> Boxes]
      BY Thread
    <3>2. \A c \in Ids : c # b => box'[c] = box[c]
      BY <2>3, <3>1
    <3>3. b \in Ids => box'[b].owner = box[b].owner
      BY <2>3, <3>1 DEF Boxes
    <3> QED
      BY <2>2, <2>3, <3>2, <3>3, EffectOn DEF BoxStep
  <2> QED
    BY <2>1, <2>2, <2>3, EffectOnNone, EndsWithout
<1>3. ASSUME K8sScale(t) PROVE Effect(t)
  <2> DEFINE b == act[t].box
             a == Done(t)
  <2>1. \/ Exists(b) /\ box' = [box EXCEPT ![b].life = act[t].life] /\ Go(t, a, b)
        \/ act' = [act EXCEPT ![t] = Idle] /\ UNCHANGED box
    BY <1>3 DEF K8sScale
  <2>2. a \in Acts /\ a.pc \notin Claiming
    BY DoneOK
  <2> HIDE DEF a, b
  <2> QED
    BY <1>0, <2>1, <2>2, LifeEffect, EndsWithout
<1>4. ASSUME DockerSweep(t) \/ K8sSweep(t) PROVE Effect(t)
  <2>1. At(t, "sweep") /\ UNCHANGED box
    BY <1>4 DEF DockerSweep, K8sSweep, cluster
  <2>2. PICK b \in act[t].cands : \E a : act' = [act EXCEPT ![t] = a] /\ Judged(t, b, a)
    <3>1. CASE DockerSweep(t)
      BY <3>1, Zenon DEF DockerSweep, Judge, Judged
    <3>2. CASE K8sSweep(t)
      BY <3>2, Zenon DEF K8sSweep, Judge, Judged
    <3> QED
      BY <1>4, <3>1, <3>2
  <2>3. PICK a : act' = [act EXCEPT ![t] = a] /\ Judged(t, b, a)
    BY <2>2
  <2>4. a.pc \notin Claiming
    BY <2>1, <2>3, SweepsOn DEF Claiming
  <2> QED
    BY <2>1, <2>3, <2>4, EffectOnNone
<1>5. ASSUME SweepEnds(t) PROVE Effect(t)
  BY <1>5, EndsWithout DEF SweepEnds, cluster
<1>6. ASSUME DockerTar(t) PROVE Effect(t)
  BY <1>6, SnapshotEffect DEF DockerTar
<1>7. ASSUME K8sTar(t) PROVE Effect(t)
  BY <1>7, SnapshotEffect DEF K8sTar
<1>8. ASSUME CommitSnapshotRow(t) PROVE Effect(t)
  BY <1>8, SnapshotEffect DEF CommitSnapshotRow
<1>9. ASSUME DeleteSnapshotArtifact(t) PROVE Effect(t)
  BY <1>9, SnapshotEffect DEF DeleteSnapshotArtifact
<1>10. ASSUME CommitSnapshotDelete(t) PROVE Effect(t)
  BY <1>10, SnapshotEffect DEF CommitSnapshotDelete
<1> QED
  BY <1>1, <1>2, <1>3, <1>4, <1>5, <1>6, <1>7, <1>8, <1>9, <1>10, ClaimEffect DEF Serve

\* Every step is a step of one thread.  What the loops do is said in more detail.
LEMMA EffectOfNext ==
    ASSUME SInv, Next
    PROVE  \E t \in Threads : /\ Effect(t)
                              /\ t \in Loops => Refresh(t) \/ Provision(t) \/ Remove(t) \/ Fails(t)
<1>1. ASSUME NEW t \in Requests, Request(t) \/ Serve(t) PROVE Effect(t) /\ t \in Threads /\ t \notin Loops
  BY <1>1, RequestEffect, ServeEffect DEF Threads
<1>2. ASSUME NEW t \in Loops, Refresh(t) PROVE Effect(t) /\ t \in Threads
  BY <1>2, RefreshEffect DEF Threads
<1>3. ASSUME NEW t \in Threads, Provision(t) \/ Remove(t) \/ Fails(t) PROVE Effect(t)
  BY <1>3, ProvisionEffect, RemovalEffect, EndsWithout DEF Fails, cluster
<1> QED
  BY <1>1, <1>2, <1>3 DEF Next

-----------------------------------------------------------------------------
(* The theorems.                                                           *)

\* What a thread that starts a sandbox has prepared.
LEMMA StartsReady ==
    ASSUME SInv, NEW t \in Threads, NEW b \in Ids, Starts(t, b)
    PROVE  /\ ~Exists(b) /\ b \in disk /\ (~Docker => b \in service)
           /\ act[t].box = b /\ act[t].pc \in {"run", "deployment"}
<1>1. act[t].pc \in {"run", "deployment"} /\ act[t].box = b /\ (~Docker => act[t].pc = "deployment")
  BY DEF Starts
<1>2. Fits(t, act[t])
  BY Thread
<1> QED
  BY <1>1, <1>2 DEF Fits, Building

(* A sandbox only comes into being on storage already there, and by the    *)
(* thread that has its number: each provider creates the workspace         *)
(* directory, or the PersistentVolumeClaim and the Service, before the     *)
(* container or the Deployment, and no other request can remove them in    *)
(* between, since it finds sandboxes by their containers                   *)
(* (_sync_create_sandbox and _sync_create_warm of the two providers).      *)
THEOREM StorageFirst == Spec => StorageComesFirst
<1>1. SInv /\ [Next]_vars =>
        [\A b \in Ids : ~Exists(b) /\ box'[b] # Absent =>
           /\ b \in disk
           /\ ~Docker => b \in service
           /\ \E t \in Threads : act[t].box = b /\ act[t].pc \in {"run", "deployment"}]_vars
  <2> SUFFICES ASSUME SInv, Next, NEW b \in Ids, ~Exists(b), box'[b] # Absent
               PROVE  /\ b \in disk
                      /\ ~Docker => b \in service
                      /\ \E t \in Threads : act[t].box = b /\ act[t].pc \in {"run", "deployment"}
    OBVIOUS
  <2>1. PICK t \in Threads : Effect(t)
    BY EffectOfNext
  <2>2. box[b] = Absent
    BY DEF SInv, BoxInv
  <2>3. Starts(t, b)
    BY <2>1, <2>2 DEF Effect, BoxStep, Takes
  <2> QED
    BY <2>3, StartsReady
<1> QED
  BY <1>1, SandboxInvariant, PTL DEF Spec, StorageComesFirst

\* Nobody changes the provider, and rows are only added by a commit.
LEMMA RowsOfNext ==
    ASSUME Next
    PROVE  provider' = provider /\ (rows' \subseteq rows \/ \E t \in Requests : CommitSnapshotRow(t))
<1> DEFINE Stays == provider' = provider /\ rows' \subseteq rows
<1>1. ASSUME NEW t \in Requests, Request(t) PROVE Stays
  BY <1>1 DEF Request, CreateSandbox, DeleteSandbox, UpdateSandbox, SweepList, ImportSnapshot,
     DeleteSnapshot, BatchDeleteSnapshots, CaptureSnapshot
<1>2. ASSUME NEW t \in Loops, Refresh(t) PROVE Stays
  BY <1>2 DEF Refresh, RefreshCount, RefreshCreates, RefreshDeletes, RefreshEnds
<1>3. ASSUME NEW t \in Threads, Provision(t) PROVE Stays
  BY <1>3 DEF Provision, DockerWorkspace, DockerRun, DockerRunWarm, DockerPauseWarm, K8sCreatePvc,
     K8sRestore, K8sCreateService, K8sCreateDeployment, K8sCreateWarmDeployment
<1>4. ASSUME NEW t \in Threads, Remove(t) \/ Fails(t) PROVE Stays
  BY <1>4 DEF Remove, DockerRemove, DockerRmdir, K8sDeleteDeployment, K8sDeleteService, K8sDeletePvc,
     Fails
<1>5. ASSUME NEW t \in Requests, Claim(t) PROVE Stays
  BY <1>5 DEF Claim, DockerListWarm, DockerRename, DockerUnpause, K8sListWarm, K8sPatchClaim
<1>6. ASSUME NEW t \in Requests, Serve(t), ~Claim(t), ~CommitSnapshotRow(t) PROVE Stays
  BY <1>6 DEF Serve, DockerSetLife, K8sStampPause, K8sScale, DockerSweep, K8sSweep, SweepEnds,
     DockerTar, K8sTar, DeleteSnapshotArtifact, CommitSnapshotDelete
<1>7. ASSUME NEW t \in Requests, CommitSnapshotRow(t) PROVE provider' = provider
  BY <1>7 DEF CommitSnapshotRow
<1> QED
  BY <1>1, <1>2, <1>3, <1>4, <1>5, <1>6, <1>7 DEF Next

(* A row is committed only after its artifact is complete: the tarball is  *)
(* named after an id no request can know before the row is there, so no    *)
(* deletion meets a capture (create_sandbox_snapshot and                   *)
(* delete_sandbox_snapshot of sandbox_snapshot_router.py, on a Docker      *)
(* daemon).                                                                *)
THEOREM ArtifactsFirst == Spec => RowsFollowArtifacts
<1>1. SInv /\ [Next]_vars => [\A n \in rows' \ rows : Docker => tar[n] = "whole"]_vars
  <2> SUFFICES ASSUME SInv, Next, NEW n \in rows' \ rows, Docker
               PROVE  tar[n] = "whole"
    OBVIOUS
  <2>2. PICK t \in Requests : CommitSnapshotRow(t)
    BY RowsOfNext
  <2>3. t \in Threads /\ act[t].pc = "row" /\ n = act[t].snap
    BY <2>2 DEF Threads, CommitSnapshotRow, At
  <2> QED
    BY <2>3, SnapOf DEF Snapping
<1> QED
  BY <1>1, SandboxInvariant, PTL DEF Spec, RowsFollowArtifacts

\* Only what was listed free, under the lock of the process or with its resource
\* version, is claimed.
LEMMA TakesFree ==
    ASSUME SInv, Docker => LockInv, NEW t \in Threads, NEW b \in Ids, Takes(t, b)
    PROVE  box[b].owner = Warm
<1>1. CASE Docker
  BY <1>1 DEF Takes, LockInv, Exists
<1>2. CASE ~Docker
  <2>1. Fits(t, act[t]) /\ act[t].pc = "patch" /\ b \in act[t].cands \ act[t].mark
    BY <1>2, Thread DEF Takes
  <2> QED
    BY <2>1 DEF Fits
<1> QED
  BY <1>1, <1>2

\* What is still planned is a number, and at most the target.
LEMMA PlanType ==
    ASSUME NEW a \in Acts
    PROVE  Plan(a) \in Nat /\ (CountOK(a) => Plan(a) <= MaxTarget)
BY DEF Plan, CountOK, Acts

\* A loop that is asleep plans nothing.
LEMMA PlanIdle == CountOK(Idle) /\ Plan(Idle) = 0
BY IdleOK DEF CountOK, Plan, Making, Building

\* A step of a refresh that neither counts nor is counted.
LEMMA PlanKept ==
    ASSUME NEW a \in Acts, NEW c \in Acts, CountOK(a), a.op = "refresh", a.pc # "pause",
           c.op = a.op, c.count = a.count, c.goal = a.goal,
           c.pc \in Making => LoopKey = "tag" /\ a.count < a.goal, c.pc # "pause"
    PROVE  CountOK(c) /\ Plan(c) = Plan(a)
BY DEF CountOK, Plan

\* What a step does to the pool: only the start of a warm sandbox adds to it, and only that one.
LEMMA PoolOfStep ==
    ASSUME SInv, NEW t \in Threads, Effect(t)
    PROVE  /\ WarmBoxes' \ {act[t].box} \subseteq WarmBoxes
           /\ ~(act[t].op = "refresh" /\ act[t].pc \in {"run", "deployment"}) => WarmBoxes' \subseteq WarmBoxes
<1> SUFFICES ASSUME NEW b \in Ids, box'[b].owner = Warm, box[b].owner # Warm
             PROVE  b = act[t].box /\ act[t].op = "refresh" /\ act[t].pc \in {"run", "deployment"}
  BY DEF WarmBoxes
<1>1. Fits(t, act[t]) /\ BoxStep(t, b) /\ Warm # Nobody /\ Warm \notin Configs
  BY Thread DEF Effect
<1>2. ~Takes(t, b)
  BY <1>1 DEF Takes, Fits, Claiming
<1>3. Starts(t, b)
  BY <1>1, <1>2 DEF BoxStep, Absent
<1>4. ~(act[t].op = "create")
  BY <1>1, <1>3 DEF Starts, Fits
<1> QED
  BY <1>3, <1>4 DEF Starts

\* What a step of a loop is worth: it gives up plans, or carries one out, or makes them.
PlanStep(t) ==
    /\ CountOK(act'[t])
    /\ \/ Plan(act'[t]) <= Plan(act[t]) /\ WarmBoxes' \subseteq WarmBoxes
       \/ Plan(act[t]) = Plan(act'[t]) + 1 /\ WarmBoxes' \ {act[t].box} \subseteq WarmBoxes
       \/ Cardinality(WarmBoxes) + Plan(act'[t]) <= MaxTarget /\ WarmBoxes' = WarmBoxes

\* A step after which the loop is asleep, or goes on as it was.
LEMMA QuietPlan ==
    ASSUME SInv, NEW t \in Loops, Effect(t), NEW c \in Acts, act'[t] = c,
           CountOK(c), Plan(c) <= Plan(act[t]),
           ~(act[t].op = "refresh" /\ act[t].pc \in {"run", "deployment"}) \/ UNCHANGED box
    PROVE  PlanStep(t)
<1>1. UNCHANGED box => WarmBoxes' \subseteq WarmBoxes
  BY DEF WarmBoxes
<1> QED
  BY <1>1, PoolOfStep DEF PlanStep, Threads

\* A refresh counts, decides, or ends.
LEMMA LoopRefreshes ==
    ASSUME SInv, NEW t \in Loops, Effect(t), act'[t] \in Acts, CountOK(act[t]), Refresh(t)
    PROVE  PlanStep(t)
<1> t \in Threads
  BY DEF Threads
<1>0. /\ act[t] \in Acts /\ Fits(t, act[t]) /\ TypeInv /\ Plan(act[t]) \in Nat
      /\ Cardinality(WarmBoxes) \in Nat
  BY Thread, PlanType, SizeOfPool DEF SInv, WarmBoxes
<1>1. UNCHANGED box /\ WarmBoxes' = WarmBoxes
  <2>1. UNCHANGED cluster
    BY Zenon DEF Refresh, RefreshCount, RefreshCreates, RefreshDeletes, RefreshEnds
  <2> QED
    BY <2>1 DEF WarmBoxes, cluster
<1>2. ASSUME RefreshCount(t) PROVE PlanStep(t)
  <2> DEFINE r == Begin("refresh", "turn")
             p == Cardinality(WarmBoxes)
             n == IF LoopKey = "tag" THEN p ELSE 0
  <2>1. PICK num_warm \in 1..MaxTarget :
          act' = [act EXCEPT ![t] = [r EXCEPT !.goal = num_warm, !.count = n]]
    BY <1>2, Zenon DEF RefreshCount
  <2> DEFINE a == [r EXCEPT !.goal = num_warm, !.count = n]
  <2>2. r \in Acts /\ r.op = "refresh" /\ r.pc = "turn"
    BY BeginOK DEF Ops, Pcs
  <2>3. n \in Nat /\ p \in Nat /\ (LoopKey = "tag" => n = p)
    BY <1>0
  <2>5. act'[t] = a
    BY <1>0, <2>1 DEF TypeInv
  <2> HIDE DEF r, n, p
  <2>4. a.op = "refresh" /\ a.pc = "turn" /\ a.count = n /\ a.goal = num_warm
    BY <2>2 DEF Acts
  <2> HIDE DEF a
  <2>6. CountOK(a)
    BY <2>4 DEF CountOK, Making, Building
  <2>7. p + Plan(a) <= MaxTarget \/ Plan(a) = 0
    BY <2>3, <2>4 DEF Plan
  <2>8. Plan(a) = 0 => Plan(a) <= Plan(act[t])
    BY <1>0
  <2> QED
    BY <1>1, <2>5, <2>6, <2>7, <2>8 DEF PlanStep, p
<1>3. ASSUME RefreshCreates(t) PROVE PlanStep(t)
  <2> DEFINE a == [act[t] EXCEPT !.pc = ColdStart, !.owner = Warm]
  <2>1. act'[t] = IF Resolves(LoopKey) THEN a ELSE Idle
    <3>1. act' = [act EXCEPT ![t] = IF Resolves(LoopKey) THEN a ELSE Idle]
      BY <1>3, Zenon DEF RefreshCreates
    <3> QED
      BY <1>0, <3>1 DEF TypeInv
  <2>2. act[t].pc = "turn" /\ act[t].count < act[t].goal
    BY <1>3 DEF RefreshCreates, At
  <2>3. a.op = act[t].op /\ a.pc = ColdStart /\ a.count = act[t].count /\ a.goal = act[t].goal
    BY <1>0 DEF Acts
  <2>4. act[t].op = "refresh" /\ a.pc # "pause"
    BY <1>0, <2>2, <2>3 DEF Fits, ColdStart
  <2> HIDE DEF a
  <2>5. CASE Resolves(LoopKey)
    <3>1. a \in Acts /\ act'[t] = a
      BY <2>1, <2>5
    <3>2. CountOK(a) /\ Plan(a) = Plan(act[t])
      BY <1>0, <2>2, <2>3, <2>4, <2>5, <3>1, PlanKept DEF Resolves
    <3> QED
      BY <1>0, <1>1, <3>1, <3>2, QuietPlan
  <2>6. CASE ~Resolves(LoopKey)
    <3>1. act'[t] = Idle
      BY <2>1, <2>6
    <3> QED
      BY <1>0, <1>1, <3>1, IdleOK, PlanIdle, QuietPlan
  <2> QED
    BY <2>5, <2>6
<1>4. ASSUME RefreshDeletes(t) PROVE PlanStep(t)
  <2> DEFINE n == act[t].count - 1
             m == Min(WarmBoxes)
             a == IF WarmBoxes = {} THEN [act[t] EXCEPT !.count = n]
                  ELSE [act[t] EXCEPT !.pc = "remove", !.box = m, !.count = n]
  <2>1. act' = [act EXCEPT ![t] = a] /\ act[t].pc = "turn" /\ act[t].count > act[t].goal
    BY <1>4, Zenon DEF RefreshDeletes, At
  <2>2. act'[t] = a
    BY <1>0, <2>1 DEF TypeInv
  <2>3. a.op = act[t].op /\ a.pc \in {"turn", "remove"} /\ a.goal = act[t].goal /\ a.count = n
    BY <1>0, <2>1 DEF Acts
  <2>4. n \in Nat /\ act[t].goal \in Nat /\ act[t].goal <= n
    BY <1>0, <2>1 DEF Acts
  <2> HIDE DEF a, n
  <2>5. Plan(a) = 0
    BY <2>3, <2>4 DEF Plan
  <2>6. CountOK(a)
    BY <1>0, <2>1, <2>3 DEF CountOK, Making, Building
  <2> QED
    BY <1>0, <1>1, <2>2, <2>5, <2>6, QuietPlan
<1>5. ASSUME RefreshEnds(t) PROVE PlanStep(t)
  <2>1. act'[t] = Idle
    BY <1>0, <1>5 DEF RefreshEnds, TypeInv
  <2> QED
    BY <1>0, <1>1, <2>1, IdleOK, PlanIdle, QuietPlan
<1> QED
  BY <1>2, <1>3, <1>4, <1>5 DEF Refresh

\* A refresh that deletes has no plans: it removes, and takes its next turn.
LEMMA LoopRemoves ==
    ASSUME SInv, NEW t \in Loops, Effect(t), act'[t] \in Acts, CountOK(act[t]), Remove(t)
    PROVE  PlanStep(t)
<1> t \in Threads
  BY DEF Threads
<1>0. act[t] \in Acts /\ TypeInv /\ act[t].count \in Nat /\ Plan(act[t]) \in Nat
  BY Thread, PlanType DEF SInv, Acts
<1>1. act[t].pc \in Removing
  BY DEF Remove, DockerRemove, DockerRmdir, K8sDeleteDeployment, K8sDeleteService, K8sDeletePvc, At,
     Removing
<1>2. act[t].op = "refresh" /\ act[t].pc \notin {"pause", "run", "deployment"}
  BY <1>1 DEF CountOK, Removing
<1>3. act'[t] = Idle => PlanStep(t)
  BY <1>0, <1>2, PlanIdle, QuietPlan
<1>4. ASSUME act'[t].op = "refresh", act'[t].count = act[t].count, act'[t].goal = act[t].goal,
             act'[t].pc \in Removing \cup {"turn"}
      PROVE  PlanStep(t)
  <2>1. PICK c \in Acts : act'[t] = c
    OBVIOUS
  <2>2. c.pc \notin Making /\ c.pc # "pause"
    BY <1>4, <2>1 DEF Removing, Making, Building
  <2>3. CountOK(c) /\ Plan(c) = Plan(act[t])
    BY <1>0, <1>2, <1>4, <2>1, <2>2, PlanKept
  <2> QED
    BY <1>0, <1>2, <2>1, <2>3, QuietPlan
<1>5. ASSUME NEW pc \in Removing, act'[t] = [act[t] EXCEPT !.pc = pc] PROVE PlanStep(t)
  BY <1>0, <1>2, <1>4, <1>5 DEF Acts
<1>6. ASSUME act'[t] = Done(t) PROVE PlanStep(t)
  <2> DEFINE a == Done(t)
  <2>1. a.op = "refresh" /\ a.pc = "turn" /\ a.goal = act[t].goal /\ a.count = act[t].count
    BY <1>0, <1>2, AfterOK DEF Done
  <2> HIDE DEF a
  <2>2. act'[t] = a
    BY <1>6 DEF a
  <2> QED
    BY <1>4, <2>1, <2>2
<1>7. ASSUME DockerRemove(t) PROVE PlanStep(t)
  <2>1. act'[t] = [act[t] EXCEPT !.pc = "rmdir"] \/ act'[t] = Idle
    BY <1>0, <1>7 DEF DockerRemove, TypeInv
  <2> QED
    BY <1>3, <1>5, <2>1 DEF Removing
<1>8. ASSUME DockerRmdir(t) \/ K8sDeletePvc(t) PROVE PlanStep(t)
  <2>1. act'[t] = Done(t)
    BY <1>0, <1>8 DEF DockerRmdir, K8sDeletePvc, TypeInv
  <2> QED
    BY <1>6, <2>1
<1>9. ASSUME K8sDeleteDeployment(t) PROVE PlanStep(t)
  <2> DEFINE a == [act[t] EXCEPT !.pc = "rmservice"]
  <2>1. \/ Go(t, a, act[t].box)
        \/ act' = [act EXCEPT ![t] = IF act[t].op = "refresh" THEN a ELSE Idle]
    BY <1>9, Zenon DEF K8sDeleteDeployment
  <2> HIDE DEF a
  <2>2. act'[t] = a \/ act'[t] = Idle
    BY <1>0, <2>1 DEF TypeInv, Go
  <2> QED
    BY <1>3, <1>5, <2>2 DEF Removing, a
<1>10. ASSUME K8sDeleteService(t) PROVE PlanStep(t)
  <2>1. act'[t] = [act[t] EXCEPT !.pc = "rmpvc"]
    BY <1>0, <1>10 DEF K8sDeleteService, TypeInv
  <2> QED
    BY <1>5, <2>1 DEF Removing
<1> QED
  BY <1>7, <1>8, <1>9, <1>10 DEF Remove

\* A creation keeps the plan until the sandbox is in the pool, and then strikes it off.
LEMMA LoopProvisions ==
    ASSUME SInv, NEW t \in Loops, Effect(t), act'[t] \in Acts, CountOK(act[t]), Provision(t)
    PROVE  PlanStep(t)
<1> t \in Threads
  BY DEF Threads
<1> DEFINE n == act[t].count + 1
<1>0. /\ act[t] \in Acts /\ Fits(t, act[t]) /\ TypeInv /\ Plan(act[t]) \in Nat
      /\ n \in Nat /\ act[t].count \in Nat /\ act[t].goal \in Nat /\ box \in [Ids -> Boxes]
  BY Thread, PlanType DEF SInv, Acts
<1>1. act[t].op = "none" => act[t].pc = "idle"
  BY DEF CountOK
<1>2. ASSUME UNCHANGED box \/ act[t].pc = "pause", act'[t] = Idle PROVE PlanStep(t)
  BY <1>0, <1>2, PlanIdle, QuietPlan
\* The steps before the sandbox is started.
<1>3. ASSUME act[t].pc \in Making, UNCHANGED box, NEW c \in Acts, act'[t] = c, c.op = act[t].op,
             c.count = act[t].count, c.goal = act[t].goal, c.pc \in Making
      PROVE  PlanStep(t)
  <2>1. act[t].op = "refresh" /\ act[t].pc # "pause" /\ c.pc # "pause"
    BY <1>1, <1>3 DEF CountOK, Making, Building
  <2>2. LoopKey = "tag" /\ act[t].count < act[t].goal
    BY <1>3 DEF CountOK
  <2>3. CountOK(c) /\ Plan(c) = Plan(act[t])
    BY <1>0, <1>3, <2>1, <2>2, PlanKept
  <2> QED
    BY <1>0, <1>3, <2>3, QuietPlan
\* The sandbox is started, and counted or paused next.
<1>4. ASSUME act[t].pc \in {"run", "deployment"}, act[t].op = "refresh",
             NEW c \in Acts, act'[t] = c, c.op = "refresh", c.goal = act[t].goal,
             \/ c.pc = "pause" /\ c.count = act[t].count
             \/ c.pc = "turn" /\ c.count = n
      PROVE  PlanStep(t)
  <2>1. LoopKey = "tag" /\ act[t].count < act[t].goal /\ act[t].goal <= MaxTarget
    BY <1>4 DEF CountOK, Making, Building
  <2>2. Plan(act[t]) = act[t].goal - act[t].count
    BY <1>0, <1>4, <2>1 DEF Plan
  <2>3. Plan(c) = act[t].goal - n
    BY <1>0, <1>4, <2>1 DEF Plan
  <2>4. Plan(act[t]) = Plan(c) + 1
    BY <1>0, <2>2, <2>3
  <2>5. CountOK(c)
    BY <1>4, <2>1 DEF CountOK, Making, Building
  <2> QED
    BY <1>4, <2>4, <2>5, PoolOfStep DEF PlanStep
<1>5. ASSUME DockerWorkspace(t) PROVE PlanStep(t)
  <2> DEFINE b == made'
             a == [act[t] EXCEPT !.pc = "run", !.box = b]
  <2>1. act'[t] = a /\ UNCHANGED box /\ act[t].pc = "workspace"
    BY <1>0, <1>5 DEF DockerWorkspace, TypeInv, At
  <2> HIDE DEF b
  <2>2. a.op = act[t].op /\ a.count = act[t].count /\ a.goal = act[t].goal /\ a.pc = "run"
    BY <1>0 DEF Acts
  <2> HIDE DEF a
  <2> QED
    BY <1>3, <2>1, <2>2 DEF Making, Building
<1>6. ASSUME K8sCreatePvc(t) PROVE PlanStep(t)
  <2> DEFINE b == made'
             pc == IF act[t].snap = NoSnapshot THEN "service" ELSE "restore"
             a == [act[t] EXCEPT !.box = b, !.pc = pc]
  <2>1. act'[t] = a /\ UNCHANGED box /\ act[t].pc = "pvc"
    BY <1>0, <1>6 DEF K8sCreatePvc, TypeInv, At
  <2>2. pc \in Making
    BY DEF Making, Building
  <2> HIDE DEF b, pc
  <2>3. a.op = act[t].op /\ a.count = act[t].count /\ a.goal = act[t].goal /\ a.pc = pc
    BY <1>0 DEF Acts
  <2> HIDE DEF a
  <2> QED
    BY <1>3, <2>1, <2>2, <2>3 DEF Making
<1>7. ASSUME K8sRestore(t) PROVE PlanStep(t)
  <2> DEFINE a == [act[t] EXCEPT !.pc = "service"]
  <2>1. act' = [act EXCEPT ![t] = IF tar[act[t].snap] = "none" THEN Idle ELSE a]
        /\ UNCHANGED box /\ act[t].pc = "restore"
    BY <1>7, Zenon DEF K8sRestore, cluster, At
  <2>2. a.op = act[t].op /\ a.count = act[t].count /\ a.goal = act[t].goal /\ a.pc = "service"
    BY <1>0 DEF Acts
  <2> HIDE DEF a
  <2>3. act'[t] = Idle \/ act'[t] = a
    BY <1>0, <2>1 DEF TypeInv
  <2> QED
    BY <1>2, <1>3, <2>1, <2>2, <2>3 DEF Making, Building
<1>8. ASSUME K8sCreateService(t) PROVE PlanStep(t)
  <2> DEFINE a == [act[t] EXCEPT !.pc = "deployment"]
  <2>1. act'[t] = a /\ UNCHANGED box /\ act[t].pc = "service"
    BY <1>0, <1>8 DEF K8sCreateService, TypeInv, At
  <2>2. a.op = act[t].op /\ a.count = act[t].count /\ a.goal = act[t].goal /\ a.pc = "deployment"
    BY <1>0 DEF Acts
  <2> HIDE DEF a
  <2> QED
    BY <1>3, <2>1, <2>2 DEF Making, Building
<1>9. ~DockerRun(t) /\ ~K8sCreateDeployment(t)
  BY DEF DockerRun, K8sCreateDeployment, CountOK
<1>10. ASSUME DockerRunWarm(t) PROVE PlanStep(t)
  <2> DEFINE a == [act[t] EXCEPT !.pc = "pause"]
  <2>1. act'[t] = a /\ act[t].pc = "run" /\ act[t].op = "refresh"
    BY <1>0, <1>10 DEF DockerRunWarm, TypeInv, At
  <2>2. a.op = act[t].op /\ a.count = act[t].count /\ a.goal = act[t].goal /\ a.pc = "pause"
    BY <1>0 DEF Acts
  <2> HIDE DEF a
  <2> QED
    BY <1>4, <2>1, <2>2
<1>11. ASSUME DockerPauseWarm(t) PROVE PlanStep(t)
  <2> DEFINE a == After(t, n)
  <2>1. act[t].pc = "pause" /\ act[t].op = "refresh"
    BY <1>0, <1>11 DEF DockerPauseWarm, At, Fits
  <2>2. act'[t] = a \/ act'[t] = Idle
    BY <1>0, <1>11 DEF DockerPauseWarm, TypeInv
  <2>3. a.op = "refresh" /\ a.pc = "turn" /\ a.count = n /\ a.goal = act[t].goal
    BY <1>0, <2>1, AfterOK
  <2> HIDE DEF a
  <2>4. ASSUME act'[t] = a PROVE PlanStep(t)
    <3>1. Plan(a) <= Plan(act[t])
      BY <1>0, <2>1, <2>3 DEF Plan
    <3>2. CountOK(a)
      BY <2>3 DEF CountOK, Making, Building
    <3> QED
      BY <1>0, <2>1, <2>4, <3>1, <3>2, QuietPlan
  <2> QED
    BY <1>2, <2>1, <2>2, <2>4
<1>12. ASSUME K8sCreateWarmDeployment(t) PROVE PlanStep(t)
  <2> DEFINE a == After(t, n)
  <2>1. act[t].pc = "deployment" /\ act[t].op = "refresh"
    BY <1>12 DEF K8sCreateWarmDeployment, At
  <2>2. act'[t] = a
    BY <1>0, <1>12 DEF K8sCreateWarmDeployment, TypeInv
  <2>3. a.op = "refresh" /\ a.pc = "turn" /\ a.count = n /\ a.goal = act[t].goal
    BY <1>0, <2>1, AfterOK
  <2> HIDE DEF a
  <2> QED
    BY <1>4, <2>1, <2>2, <2>3
<1> QED
  BY <1>5, <1>6, <1>7, <1>8, <1>9, <1>10, <1>11, <1>12 DEF Provision

\* The plans of the other threads stay as they are.
LEMMA OtherPlans ==
    ASSUME NEW a, NEW c, Same(c, a)
    PROVE  Plan(c) = Plan(a) /\ (CountOK(a) => CountOK(c))
BY DEF Same, Plan, CountOK

\* At most L times the target can be planned.
LEMMA SizeOfSlots ==
    ASSUME NEW S \in SUBSET (Loops \X (1..MaxTarget))
    PROVE  IsFiniteSet(S) /\ Cardinality(S) \in Nat /\ Cardinality(Loops) \in Nat
<1>1. IsFiniteSet(1..MaxTarget) /\ IsFiniteSet(Loops)
  BY FS_Interval
<1>2. IsFiniteSet(Loops \X (1..MaxTarget))
  BY <1>1, FS_Product
<1> QED
  BY <1>1, <1>2, FS_Subset, FS_CardinalityType

\* Loop t has planned n, the others at most their target.
LEMMA PlansOfOne ==
    ASSUME NEW t \in Loops, NEW n \in Nat, NEW S \in SUBSET (Loops \X (1..MaxTarget)),
           \A s \in S : s[1] = t => s[2] <= n
    PROVE  Cardinality(S) + MaxTarget <= Cardinality(Loops) * MaxTarget + n
<1> DEFINE A == (Loops \ {t}) \X (1..MaxTarget)
           B == {t} \X (1..n)
           k == Cardinality(Loops \ {t})
<1>1. /\ IsFiniteSet(1..MaxTarget) /\ IsFiniteSet(1..n) /\ IsFiniteSet({t}) /\ IsFiniteSet(Loops \ {t})
      /\ Cardinality(1..MaxTarget) = MaxTarget /\ Cardinality(1..n) = n /\ Cardinality({t}) = 1
      /\ k \in Nat /\ Cardinality(Loops) = k + 1
  <2>1. IsFiniteSet(Loops)
    OBVIOUS
  <2>2. IsFiniteSet(Loops \ {t}) /\ k = Cardinality(Loops) - 1 /\ Cardinality(Loops) \in Nat
    BY <2>1, FS_RemoveElement, FS_CardinalityType
  <2>3. k \in Nat
    BY <2>2, FS_CardinalityType
  <2>4. IsFiniteSet(1..MaxTarget) /\ Cardinality(1..MaxTarget) = MaxTarget
    BY FS_Interval
  <2>5. IsFiniteSet(1..n) /\ Cardinality(1..n) = n
    BY FS_Interval
  <2>6. IsFiniteSet({t}) /\ Cardinality({t}) = 1
    BY FS_Singleton, Zenon
  <2>7. Cardinality(Loops) = k + 1
    BY <2>2
  <2> HIDE DEF k
  <2> QED
    BY <2>2, <2>3, <2>4, <2>5, <2>6, <2>7
<1>2. IsFiniteSet(A) /\ Cardinality(A) = k * MaxTarget
  <2>1. IsFiniteSet(A) /\ Cardinality(A) = Cardinality(Loops \ {t}) * Cardinality(1..MaxTarget)
    BY <1>1, FS_Product, Zenon
  <2> QED
    BY <1>1, <2>1, Zenon
<1>3. IsFiniteSet(B) /\ Cardinality(B) = 1 * n
  <2>1. IsFiniteSet(B) /\ Cardinality(B) = Cardinality({t}) * Cardinality(1..n)
    BY <1>1, FS_Product, Zenon
  <2> QED
    BY <1>1, <2>1, Zenon
<1>4. S \subseteq A \cup B
  <2> SUFFICES ASSUME NEW s \in S PROVE s \in A \cup B
    OBVIOUS
  <2>1. s \in Loops \X (1..MaxTarget) /\ s = <<s[1], s[2]>> /\ s[1] \in Loops /\ s[2] \in 1..MaxTarget
    OBVIOUS
  <2>2. s[1] = t => s[2] \in 1..n
    BY <2>1
  <2> QED
    BY <2>1, <2>2
<1> HIDE DEF A, B, k
<1>5. IsFiniteSet(A \cup B) /\ Cardinality(A \cup B) = Cardinality(A) + Cardinality(B) - Cardinality(A \cap B)
  BY <1>2, <1>3, FS_Union
<1>6. IsFiniteSet(A \cap B)
  BY <1>2, FS_Subset
<1>7. Cardinality(A \cap B) \in Nat /\ Cardinality(A) \in Nat /\ Cardinality(B) \in Nat
  BY <1>2, <1>3, <1>6, FS_CardinalityType
<1>8. Cardinality(S) <= Cardinality(A \cup B) /\ Cardinality(S) \in Nat
  BY <1>4, <1>5, FS_Subset, FS_CardinalityType
<1>9. Cardinality(B) = n /\ (k + 1) * MaxTarget = k * MaxTarget + MaxTarget /\ k * MaxTarget \in Nat
  BY <1>1, <1>3
<1> QED
  BY <1>1, <1>2, <1>5, <1>7, <1>8, <1>9

\* A pool that shrinks, and a pool that grows by one.
LEMMA PoolSizes ==
    ASSUME NEW W \in SUBSET Ids, NEW V \in SUBSET Ids, NEW b
    PROVE  /\ Cardinality(V) \in Nat
           /\ V \subseteq W => Cardinality(V) <= Cardinality(W)
           /\ V \ {b} \subseteq W => Cardinality(V) <= Cardinality(W) + 1
<1>1. IsFiniteSet(V) /\ Cardinality(V) \in Nat /\ IsFiniteSet(W) /\ Cardinality(W) \in Nat
  BY SizeOfPool
<1>2. V \subseteq W => Cardinality(V) <= Cardinality(W)
  BY <1>1, FS_Subset
<1>3. ASSUME V \ {b} \subseteq W PROVE Cardinality(V) <= Cardinality(W) + 1
  <2>1. V \subseteq W \cup {b}
    BY <1>3
  <2>2. IsFiniteSet(W \cup {b}) /\ Cardinality(W \cup {b}) \in {Cardinality(W), Cardinality(W) + 1}
    BY <1>1, FS_AddElement
  <2>3. Cardinality(V) <= Cardinality(W \cup {b})
    BY <2>1, <2>2, FS_Subset
  <2> QED
    BY <1>1, <2>2, <2>3
<1> QED
  BY <1>1, <1>2, <1>3

\* A step that adds to the pool has carried out a plan; a refresh plans what it finds missing.
LEMMA PoolStep ==
    ASSUME SInv, SInv', CountInv, PoolInv, NEW t \in Loops, PlanStep(t), Others(t)
    PROVE  PoolInv'
<1>0. /\ t \in Threads /\ \A u \in Loops : act[u] \in Acts /\ act'[u] \in Acts
      /\ CountOK(act[t]) /\ CountOK(act'[t])
  BY DEF SInv, TypeInv, Threads, CountInv, PlanStep
<1>1. PICK S \in SUBSET (Loops \X (1..MaxTarget)) : S = Slots
  BY DEF Slots
<1>2. PICK R \in SUBSET (Loops \X (1..MaxTarget)) : R = Slots'
  BY DEF Slots
<1>3. PICK W \in SUBSET Ids : W = WarmBoxes
  BY DEF WarmBoxes
<1>4. PICK V \in SUBSET Ids : V = WarmBoxes'
  BY DEF WarmBoxes
<1>5. PICK p \in Nat : p = Plan(act[t]) /\ p <= MaxTarget
  BY <1>0, PlanType
<1>6. PICK q \in Nat : q = Plan(act'[t]) /\ q <= MaxTarget
  BY <1>0, PlanType
<1>7. PICK b : b = act[t].box
  OBVIOUS
<1>8. \A s \in S : s[1] = t => s[2] <= p
  BY <1>1, <1>5 DEF Slots
<1>9. \A s \in R : s[1] = t => s[2] <= q
  BY <1>2, <1>6 DEF Slots
<1>10. \A s \in R : s[1] # t => s \in S
  <2> SUFFICES ASSUME NEW s \in R, s[1] # t PROVE s \in S
    OBVIOUS
  <2>1. s \in Loops \X (1..MaxTarget) /\ s[1] \in Loops /\ s[2] <= Plan(act'[s[1]])
    BY <1>2 DEF Slots
  <2>2. Same(act'[s[1]], act[s[1]])
    BY <2>1 DEF Others, Threads
  <2>3. Plan(act'[s[1]]) = Plan(act[s[1]])
    BY <2>2, OtherPlans
  <2> QED
    BY <1>1, <2>1, <2>3 DEF Slots
<1>11. \A i \in 1..p : <<t, i>> \in S
  <2> SUFFICES ASSUME NEW i \in 1..p PROVE <<t, i>> \in S
    OBVIOUS
  <2>1. i \in 1..MaxTarget /\ i <= Plan(act[t])
    BY <1>5
  <2> QED
    BY <1>1, <2>1 DEF Slots
<1> DEFINE m == Cardinality(Loops) * MaxTarget
<1>12. Cardinality(W) + Cardinality(S) <= m
  BY <1>1, <1>3 DEF PoolInv
<1>13. \/ q <= p /\ V \subseteq W
       \/ p = q + 1 /\ V \ {b} \subseteq W
       \/ Cardinality(W) + q <= MaxTarget /\ V = W
  BY <1>3, <1>4, <1>5, <1>6, <1>7 DEF PlanStep
<1>14. /\ Cardinality(W) \in Nat /\ Cardinality(V) \in Nat
       /\ V \subseteq W => Cardinality(V) <= Cardinality(W)
       /\ V \ {b} \subseteq W => Cardinality(V) <= Cardinality(W) + 1
  BY PoolSizes
<1>15. /\ IsFiniteSet(S) /\ Cardinality(S) \in Nat /\ Cardinality(R) \in Nat /\ m \in Nat
  BY SizeOfSlots
<1> DEFINE Bounded == Cardinality(V) + Cardinality(R) <= m
<1>16. ASSUME q <= p, V \subseteq W PROVE Bounded
  <2>1. R \subseteq S
    <3> SUFFICES ASSUME NEW s \in R, s[1] = t PROVE s \in S
      BY <1>10
    <3>1. s = <<t, s[2]>> /\ s[2] \in 1..MaxTarget /\ s[2] <= q
      BY <1>9
    <3>2. s[2] \in 1..p
      BY <1>16, <3>1
    <3> QED
      BY <1>11, <3>1, <3>2
  <2>2. Cardinality(R) <= Cardinality(S)
    BY <1>15, <2>1, FS_Subset
  <2> QED
    <3> HIDE DEF m
    <3> QED
      BY <1>12, <1>14, <1>15, <1>16, <2>2
<1>17. ASSUME p = q + 1, V \ {b} \subseteq W PROVE Bounded
  <2> DEFINE x == <<t, p>>
  <2>1. x \in S
    BY <1>11, <1>17
  <2>2. R \subseteq S \ {x}
    <3> SUFFICES ASSUME NEW s \in R PROVE s \in S /\ s # x
      OBVIOUS
    <3>1. s = <<s[1], s[2]>> /\ s[2] \in 1..MaxTarget
      OBVIOUS
    <3>2. CASE s[1] = t
      <4>1. s[2] \in 1..p /\ s[2] # p /\ s = <<t, s[2]>>
        BY <1>9, <1>17, <3>1, <3>2
      <4> QED
        BY <1>11, <4>1
    <3>3. CASE s[1] # t
      BY <1>10, <3>3
    <3> QED
      BY <3>2, <3>3
  <2> HIDE DEF x
  <2>3. IsFiniteSet(S \ {x}) /\ Cardinality(S \ {x}) = Cardinality(S) - 1
    BY <1>15, <2>1, FS_RemoveElement
  <2>4. Cardinality(R) <= Cardinality(S) - 1
    BY <2>2, <2>3, FS_Subset
  <2> QED
    <3> HIDE DEF m
    <3> QED
      BY <1>12, <1>14, <1>15, <1>17, <2>4
<1>18. ASSUME Cardinality(W) + q <= MaxTarget, V = W PROVE Bounded
  <2>1. Cardinality(R) + MaxTarget <= m + q
    BY <1>9, PlansOfOne
  <2> HIDE DEF m
  <2> QED
    BY <1>14, <1>15, <1>18, <2>1
<1>19. Bounded
  <2> HIDE DEF Bounded
  <2> QED
    BY <1>13, <1>16, <1>17, <1>18
<1> QED
  BY <1>2, <1>4, <1>19 DEF PoolInv

\* The others claim from the pool and delete from it, and plan nothing.
LEMMA PoolOfOthers ==
    ASSUME SInv, PoolInv, NEW t \in Threads, t \notin Loops, Effect(t)
    PROVE  PoolInv'
<1>1. PICK S \in SUBSET (Loops \X (1..MaxTarget)) : S = Slots
  BY DEF Slots
<1>2. PICK W \in SUBSET Ids : W = WarmBoxes
  BY DEF WarmBoxes
<1>3. PICK V \in SUBSET Ids : V = WarmBoxes'
  BY DEF WarmBoxes
<1>4. \A u \in Loops : Plan(act'[u]) = Plan(act[u])
  <2> TAKE u \in Loops
  <2>1. Same(act'[u], act[u])
    BY DEF Effect, Others, Threads
  <2> QED
    BY <2>1, OtherPlans
<1>5. Slots' = S
  BY <1>1, <1>4 DEF Slots
<1>6. act[t].op # "refresh"
  BY Thread DEF Fits
<1>7. V \subseteq W
  BY <1>2, <1>3, <1>6, PoolOfStep
<1>8. Cardinality(V) <= Cardinality(W) /\ Cardinality(V) \in Nat /\ Cardinality(W) \in Nat
  BY <1>7, PoolSizes
<1>9. Cardinality(S) \in Nat /\ Cardinality(Loops) * MaxTarget \in Nat
  BY SizeOfSlots
<1>10. Cardinality(W) + Cardinality(S) <= Cardinality(Loops) * MaxTarget
  BY <1>1, <1>2 DEF PoolInv
<1> QED
  BY <1>3, <1>5, <1>8, <1>9, <1>10 DEF PoolInv

\* Initially the pool is empty and the loops are asleep.
LEMMA PoolInit == Init => CountInv /\ PoolInv
<1> SUFFICES ASSUME Init PROVE CountInv /\ PoolInv
  OBVIOUS
<1>1. \A u \in Loops : act[u] = Idle
  BY DEF Init, Threads
<1>2. CountInv
  BY <1>1, PlanIdle DEF CountInv
<1>3. Slots = {}
  BY <1>1, PlanIdle DEF Slots
<1>4. WarmBoxes = {}
  BY DEF Init, WarmBoxes, Absent
<1>5. Cardinality(Loops) * MaxTarget \in Nat
  <2>1. Cardinality(Loops) \in Nat
    BY FS_CardinalityType
  <2> QED
    BY <2>1
<1>6. Cardinality(Slots) = 0 /\ Cardinality(WarmBoxes) = 0
  BY <1>3, <1>4, FS_EmptySet
<1> QED
  BY <1>2, <1>5, <1>6 DEF PoolInv

\* Every step keeps what the loops have counted and planned.
LEMMA PoolNext ==
    ASSUME SInv, CountInv, PoolInv, [Next]_vars
    PROVE  CountInv' /\ PoolInv'
<1>0. SInv'
  BY SNext
<1>1. CASE Next
  <2>1. PICK t \in Threads : /\ Effect(t)
                             /\ t \in Loops => Refresh(t) \/ Provision(t) \/ Remove(t) \/ Fails(t)
    BY <1>1, EffectOfNext
  <2>2. ASSUME NEW u \in Loops, u # t PROVE CountOK(act'[u])
    <3>1. Same(act'[u], act[u]) /\ CountOK(act[u])
      BY <2>1, <2>2 DEF Effect, Others, Threads, CountInv
    <3> QED
      BY <3>1, OtherPlans
  <2>3. CASE t \notin Loops
    BY <2>1, <2>2, <2>3, PoolOfOthers DEF CountInv
  <2>4. CASE t \in Loops
    <3>1. act[t] \in Acts /\ act'[t] \in Acts /\ CountOK(act[t])
      BY <1>0, <2>4 DEF SInv, TypeInv, CountInv
    <3>2. ASSUME Fails(t) PROVE PlanStep(t)
      <4>1. act'[t] = Idle /\ UNCHANGED box
        BY <3>2 DEF Fails, SInv, TypeInv, cluster
      <4>2. Plan(act[t]) \in Nat
        BY <3>1, PlanType
      <4> QED
        BY <2>1, <2>4, <4>1, <4>2, IdleOK, PlanIdle, QuietPlan
    <3>3. PlanStep(t)
      BY <2>1, <2>4, <3>1, <3>2, LoopRefreshes, LoopProvisions, LoopRemoves
    <3>4. PoolInv'
      BY <1>0, <2>1, <2>4, <3>3, PoolStep DEF Effect
    <3> QED
      BY <2>2, <3>3, <3>4 DEF CountInv, PlanStep
  <2> QED
    BY <2>3, <2>4
<1>2. CASE UNCHANGED vars
  <2>1. act' = act /\ WarmBoxes' = WarmBoxes
    BY <1>2 DEF vars, cluster, WarmBoxes
  <2> QED
    BY <2>1 DEF CountInv, PoolInv, Slots
<1> QED
  BY <1>1, <1>2

(* However many loops count the same pool and create what they find        *)
(* missing (refresh_warm_sandboxes of sandbox_service.py in each process), *)
(* the pool never holds more than their targets together: what is in it    *)
(* and what is still going to be added stay below that.                    *)
THEOREM OverfillBounded == Spec => []OverfillIsBounded
<1>1. Init => CountInv /\ PoolInv
  BY PoolInit
<1>2. SInv /\ CountInv /\ PoolInv /\ [Next]_vars => CountInv' /\ PoolInv'
  BY PoolNext
<1>3. SInv /\ PoolInv => OverfillIsBounded
  <2> SUFFICES ASSUME PoolInv PROVE OverfillIsBounded
    OBVIOUS
  <2>1. Slots \in SUBSET (Loops \X (1..MaxTarget)) /\ WarmBoxes \in SUBSET Ids
    BY DEF Slots, WarmBoxes
  <2>2. PICK S \in SUBSET (Loops \X (1..MaxTarget)) : S = Slots
    BY <2>1
  <2>3. Cardinality(S) \in Nat /\ Cardinality(Loops) * MaxTarget \in Nat
    BY SizeOfSlots
  <2>4. Cardinality(WarmBoxes) \in Nat
    BY <2>1, SizeOfPool
  <2> QED
    BY <2>2, <2>3, <2>4 DEF PoolInv, OverfillIsBounded
<1> QED
  BY <1>1, <1>2, <1>3, SandboxInvariant, PTL DEF Spec

-----------------------------------------------------------------------------
(* Claims.                                                                 *)

\* The claim lock, when all claims come from one process.
LEMMA LockNext ==
    ASSUME Docker, OneProcess, SInv, SInv', CountInv, CountInv', LockInv, Next
    PROVE  LockInv'
<1>1. PICK t \in Threads : Effect(t)
  BY EffectOfNext
<1>2. Others(t) /\ ClaimStep(t) /\ \A b \in Ids : BoxStep(t, b)
  BY <1>1 DEF Effect
<1>3. \A u \in Threads : act[u] \in Acts /\ Fits(u, act[u])
  BY Thread
<1>4. \A u \in Threads : u # t => act'[u].pc = act[u].pc /\ act'[u].cands = act[u].cands
  BY <1>2 DEF Others, Same
<1>5. \A u \in Threads : /\ act[u].pc \in Claiming => u \in Requests
                         /\ act'[u].pc \in Claiming => u \in Requests
  <2>1. \A u \in Threads : act[u].pc \in Claiming => act[u].op = "create"
    BY <1>3 DEF Fits
  <2>2. \A u \in Threads : act'[u].pc \in Claiming => act'[u].op = "create"
    BY DEF SInv, ThreadInv, Fits
  <2>3. \A u \in Loops : act[u].op # "create" /\ act'[u].op # "create"
    BY DEF CountInv, CountOK
  <2> QED
    BY <2>1, <2>2, <2>3 DEF Threads
<1>6. act'[t].pc \in Claiming =>
        \/ act[t].pc \in Claiming
        \/ Docker /\ ClaimLock(t)
  BY <1>2 DEF ClaimStep, Same, Claiming
<1>7. \A u, v \in Threads : u # v /\ act'[u].pc \in Claiming => act'[v].pc \notin Claiming
  <2>1. ASSUME t \in Requests, ClaimLock(t), NEW u \in Threads, u # t, act[u].pc \in Claiming
        PROVE  FALSE
    <3>1. u \in Requests
      BY <1>5, <2>1
    <3>2. ProcessOf[u] = ProcessOf[t]
      BY <2>1, <3>1 DEF OneProcess
    <3> QED
      BY <2>1, <3>2 DEF ClaimLock, Claiming
  <2> QED
    BY <1>4, <1>5, <1>6, <2>1 DEF LockInv
<1>9. ASSUME NEW u \in Threads, act'[u].pc = "rename", NEW b \in act'[u].cands
      PROVE  box'[b].owner \in {Warm, Nobody}
  <2>1. CASE u # t
    <3>1. act[u].pc = "rename" /\ b \in act[u].cands /\ b \in Ids
      BY <1>3, <1>4, <1>9, <2>1 DEF Acts
    <3>2. box[b].owner \in {Warm, Nobody}
      BY <3>1 DEF LockInv
    <3>3. ~Takes(t, b)
      <4>1. act[t].pc \notin Claiming
        BY <2>1, <3>1 DEF LockInv, Claiming
      <4> QED
        BY <4>1 DEF Takes, Claiming
    <3>4. ~Starts(t, b)
      <4>1. Apart(act[t], act[u])
        BY <2>1 DEF SInv, PairInv
      <4> QED
        BY <3>1, <4>1 DEF Starts, Apart, Building
    <3> QED
      BY <1>2, <3>1, <3>2, <3>3, <3>4 DEF BoxStep, Absent
  <2>2. CASE u = t
    <3>1. CASE act'[t].cands = WarmBoxes /\ UNCHANGED box
      BY <1>9, <2>2, <3>1 DEF WarmBoxes
    <3>2. CASE act[t].pc = "rename" /\ act'[t].cands \subseteq act[t].cands /\ UNCHANGED box
      BY <1>9, <2>2, <3>2 DEF LockInv
    <3> QED
      BY <1>2, <1>9, <2>2, <3>1, <3>2 DEF ClaimStep, Claiming
  <2> QED
    BY <2>1, <2>2
<1> QED
  BY <1>7, <1>9 DEF LockInv

\* Initially nobody holds the claim lock.
LEMMA LockInit == Init => LockInv
<1> SUFFICES ASSUME Init PROVE LockInv
  OBVIOUS
<1>1. \A t \in Threads : act[t].pc = "idle"
  BY IdleOK DEF Init
<1> QED
  BY <1>1 DEF LockInv, Claiming

(* A claimed sandbox stays its config's until it is removed, however many  *)
(* claims, refreshes and sweeps overlap: a Kubernetes claim patches the    *)
(* Deployment only at the resource version it has listed, and a Docker     *)
(* claim holds the lock of its process from the listing to the return      *)
(* (_sync_claim_warm_sandbox of the two providers).  The lock is of no use *)
(* between processes, so on Docker all requests belong to one; the refresh *)
(* loops may be in others.                                                 *)
THEOREM ClaimsAreExclusive == (Docker => OneProcess) /\ Spec => ClaimIsExclusive
<1> DEFINE Inv == SInv /\ CountInv /\ PoolInv /\ (Docker => OneProcess /\ LockInv)
<1>1. (Docker => OneProcess) /\ Init => Inv
  BY SInit, LockInit, PoolInit
<1>2. Inv /\ [Next]_vars => Inv'
  <2> SUFFICES ASSUME Inv, [Next]_vars PROVE Inv'
    OBVIOUS
  <2>1. SInv' /\ CountInv' /\ PoolInv'
    BY SNext, PoolNext
  <2>2. CASE Next
    <3>1. Docker' => Docker
      BY <2>2, RowsOfNext DEF Docker
    <3>2. Docker => LockInv'
      BY <2>1, <2>2, LockNext
    <3>3. Docker' => OneProcess' /\ LockInv'
      BY <3>1, <3>2 DEF OneProcess
    <3> QED
      BY <2>1, <3>3
  <2>3. CASE UNCHANGED vars
    BY <2>1, <2>3 DEF vars, cluster, Docker, OneProcess, LockInv
  <2> QED
    BY <2>2, <2>3
<1>3. Inv /\ [Next]_vars => [\A b \in Claimed : box'[b].owner \in {box[b].owner, Nobody}]_vars
  <2> SUFFICES ASSUME Inv, Next, NEW b \in Claimed
               PROVE  box'[b].owner \in {box[b].owner, Nobody}
    OBVIOUS
  <2>1. PICK t \in Threads : Effect(t)
    BY EffectOfNext
  <2>2. b \in Ids /\ Exists(b) /\ box[b].owner # Warm
    BY DEF Claimed, Exists
  <2>3. ~Takes(t, b)
    BY <2>2, TakesFree
  <2>4. ~Starts(t, b)
    BY <2>2, StartsReady
  <2> QED
    BY <2>1, <2>2, <2>3, <2>4 DEF Effect, BoxStep, Absent
<1> QED
  BY <1>1, <1>2, <1>3, PTL DEF Spec, ClaimIsExclusive
=============================================================================
