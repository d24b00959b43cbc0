-------------------------- MODULE OAuthSession_proofs ------------------------
(***************************************************************************)
(* Proofs about OAuthSession, for any number of rows, requests and         *)
(* operations in a request: what a request in flight does to a row that    *)
(* was deleted, enabled or disabled by another, and that each row is a     *)
(* rotating credential.                                                    *)
(***************************************************************************)
EXTENDS OAuthSession, FiniteSetTheorems, SequenceTheorems, TLAPS

Ops(kind)   == IF kind = "write" THEN WriteOp ELSE {kind}
Todos(kind) == Seq([id : Ids, op : Ops(kind)])
Kinds       == {"read", "refresh", "write"}
Busy        == {"resolve", "locking", "asking"}
Versions    == [Ids -> RowOf \union {None}]
Requests    == [kind : Kinds \union {None}, step : Busy \union {"idle", "finish"} \union Ended,
                todo : Seq([id : Ids, op : {"read", "refresh"} \union WriteOp]),
                loaded : Versions, wrote : SUBSET Ids, out : Versions]

TypeOK ==
    /\ now \in Nat /\ rows \in Versions /\ lock \in [Ids -> Reqs \union {None}]
    /\ req \in [Reqs -> Requests] /\ issued \in [Ids -> Nat]

\* A request that is busy has something to do, of its kind.
TodoInv ==
    \A p \in Reqs : /\ req[p].step \in Busy => /\ req[p].kind \in Kinds
                                               /\ req[p].todo \in Todos(req[p].kind)
                                               /\ req[p].todo # <<>>

\* What a request wrote it has locked, and the committed row is still there; a refresh
\* keeps the column that only a PATCH changes.
WroteInv ==
    \A p \in Reqs : \A s \in req[p].wrote :
        /\ lock[s] = p /\ rows[s] # None
        /\ req[p].kind # "write" => /\ req[p].out[s] # None
                                    /\ req[p].out[s].enabled = rows[s].enabled

\* While the provider is asked, the row is locked and there; a batch does not go on
\* to change a row that it deleted.
AskInv ==
    \A p \in Reqs :
        /\ req[p].step = "asking" => /\ req[p].kind # "write"
                                     /\ lock[Id(p)] = p /\ rows[Id(p)] # None
        /\ req[p].step = "locking" /\ req[p].kind = "write" /\ Id(p) \in req[p].wrote
             => req[p].out[Id(p)] # None

\* A row came from the provider.
IssuedInv == \A s \in Ids : rows[s] # None => issued[s] > 0

IInv == TypeOK /\ TodoInv /\ WroteInv /\ AskInv /\ IssuedInv

USE BoundAssumption, LifeAssumption, NoneAssumption, InputAssumption
USE DEF Times, Ended, Busy, Kinds

LEMMA NoReqType == NoReq \in Requests /\ NoRows \in Versions
  <1>1. NoRows \in Versions  BY DEF NoRows, Versions
  <1>2. <<>> \in Seq([id : Ids, op : {"read", "refresh"} \union WriteOp])  OBVIOUS
  <1> HIDE DEF Versions
  <1> QED  BY <1>1, <1>2 DEF NoReq, Requests

LEMMA InitInv == Init => IInv
  <1> SUFFICES ASSUME Init PROVE IInv  OBVIOUS
  <1>1. TypeOK
    <2>1. rows \in Versions  BY NoReqType DEF Init
    <2>2. lock \in [Ids -> Reqs \union {None}]  BY DEF Init, NoRows
    <2>3. req \in [Reqs -> Requests]  BY NoReqType DEF Init
    <2> QED  BY <2>1, <2>2, <2>3 DEF Init, TypeOK
  <1>2. \A p \in Reqs : req[p].step = "idle" /\ req[p].wrote = {}  BY DEF Init, NoReq
  <1>3. \A s \in Ids : rows[s] = None  BY DEF Init, NoRows
  <1> QED  BY <1>1, <1>2, <1>3 DEF IInv, TodoInv, WroteInv, AskInv, IssuedInv

\* The first operation of a busy request.
LEMMA FirstOp ==
  ASSUME IInv, NEW r \in Reqs, req[r].step \in Busy
  PROVE  /\ Id(r) \in Ids /\ Op(r) \in Ops(req[r].kind)
         /\ Tail(req[r].todo) \in Todos(req[r].kind)
         /\ Tail(req[r].todo) \in Seq([id : Ids, op : {"read", "refresh"} \union WriteOp])
         /\ Len(req[r].todo) # 1 => Tail(req[r].todo) # <<>>
  <1>1. req[r].todo \in Todos(req[r].kind) /\ req[r].todo # <<>> /\ req[r].kind \in Kinds
    BY DEF IInv, TodoInv
  <1> DEFINE S == [id : Ids, op : Ops(req[r].kind)]
  <1>2. req[r].todo \in Seq(S)  BY <1>1 DEF Todos
  <1>3. /\ Head(req[r].todo) \in S /\ Tail(req[r].todo) \in Seq(S)
        /\ Len(req[r].todo) # 1 => Tail(req[r].todo) # <<>>
    <2> HIDE DEF S
    <2>1. /\ Head(req[r].todo) \in S /\ Tail(req[r].todo) \in Seq(S)
          /\ Len(Tail(req[r].todo)) = Len(req[r].todo) - 1 /\ Len(req[r].todo) \in Nat
      BY <1>1, <1>2, HeadTailProperties, LenProperties
    <2>2. Tail(req[r].todo) = <<>> => Len(Tail(req[r].todo)) = 0  BY EmptySeq, Zenon
    <2> QED  BY <2>1, <2>2, SMT
  <1>4. Head(req[r].todo).id \in Ids /\ Head(req[r].todo).op \in Ops(req[r].kind)  BY <1>3
  <1>5. S \subseteq [id : Ids, op : {"read", "refresh"} \union WriteOp]  BY <1>1 DEF Ops
  <1>6. Tail(req[r].todo) \in Seq([id : Ids, op : {"read", "refresh"} \union WriteOp])
    <2> DEFINE T == [id : Ids, op : {"read", "refresh"} \union WriteOp]
    <2>1. S \subseteq T  BY <1>5
    <2> HIDE DEF S, T
    <2>2. Tail(req[r].todo) \in Seq(T)  BY <1>3, <2>1, SeqMonotonic
    <2> QED  BY <2>2 DEF T
  <1> QED  BY <1>3, <1>4, <1>6 DEF Id, Op, Todos

\* What a step may make of a request: something to do while it is busy, locks on the rows
\* it wrote and on the one it asks about.
HasTodo(q) == q.step \in Busy => q.kind \in Kinds /\ q.todo \in Todos(q.kind) /\ q.todo # <<>>
HasLocks(r, q) ==
    /\ \A s \in q.wrote : /\ lock'[s] = r /\ rows'[s] # None
                          /\ q.kind # "write" => /\ q.out[s] # None
                                                 /\ q.out[s].enabled = rows'[s].enabled
    /\ LET s == Head(q.todo).id
       IN  /\ q.step = "asking" => q.kind # "write" /\ lock'[s] = r /\ rows'[s] # None
           /\ q.step = "locking" /\ q.kind = "write" /\ s \in q.wrote => q.out[s] # None
\* What a step of r leaves alone: the locks of others and the rows that r has not locked.
Frame(r) ==
    /\ lock' \in [Ids -> Reqs \union {None}] /\ rows' \in Versions
    /\ \A s \in Ids : lock[s] \notin {None, r} => lock'[s] = lock[s]
    /\ \A s \in Ids : lock[s] # r \/ rows[s] = None => rows'[s] = rows[s]
    /\ now' \in Nat /\ issued' \in [Ids -> Nat] /\ \A s \in Ids : issued'[s] >= issued[s]

\* A request with its first operation done is as it was, but for its step and the
\* instance it let go of.
LEMMA OnwardType ==
  ASSUME IInv, NEW r \in Reqs, req[r].step \in Busy
  PROVE  LET q == Onward(req[r])
         IN  /\ q \in Requests /\ q.step \in {"finish", "resolve"} /\ HasTodo(q)
             /\ q.kind = req[r].kind /\ q.loaded = [req[r].loaded EXCEPT ![Id(r)] = None]
             /\ q.wrote = req[r].wrote /\ q.out = req[r].out
             /\ q.todo = Tail(req[r].todo)
             /\ q.step = IF Len(req[r].todo) = 1 THEN "finish" ELSE "resolve"
  <1> DEFINE rest == Tail(req[r].todo)
             step == IF Len(req[r].todo) = 1 THEN "finish" ELSE "resolve"
             held == [req[r].loaded EXCEPT ![Id(r)] = None]
             q    == Onward(req[r])
  <1>1. /\ rest \in Todos(req[r].kind) /\ (step = "resolve" => rest # <<>>)
        /\ rest \in Seq([id : Ids, op : {"read", "refresh"} \union WriteOp])
    BY FirstOp
  <1>2. req[r] \in Requests /\ req[r].kind \in Kinds  BY DEF IInv, TypeOK, TodoInv
  <1>3. step \in {"finish", "resolve"}  OBVIOUS
  <1>4. q = [req[r] EXCEPT !.todo = rest, !.step = step, !.loaded = held]
    BY <1>2 DEF Onward, Id, Requests
  <1>5. held \in Versions  BY <1>2, FirstOp DEF Requests, Versions
  <1> HIDE DEF rest, step, held, q, Kinds, Versions
  <1>6. /\ q \in Requests /\ q.step = step /\ q.todo = rest
        /\ q.kind = req[r].kind /\ q.loaded = held
        /\ q.wrote = req[r].wrote /\ q.out = req[r].out
    BY <1>1, <1>2, <1>3, <1>4, <1>5 DEF Requests
  <1> QED  BY <1>1, <1>2, <1>3, <1>6 DEF q, rest, step, held, HasTodo

\* The same after a statement wrote row.
LEMMA WriteType ==
  ASSUME IInv, NEW r \in Reqs, req[r].step \in Busy, NEW row \in RowOf \union {None}, Write(r, row)
  PROVE  \E q \in Requests :
            /\ req' = [req EXCEPT ![r] = q] /\ lock' = [lock EXCEPT ![Id(r)] = r]
            /\ q.step \in {"finish", "resolve"} /\ HasTodo(q)
            /\ q.kind = req[r].kind /\ q.wrote = req[r].wrote \union {Id(r)}
            /\ q.out = [req[r].out EXCEPT ![Id(r)] = row]
            /\ q.loaded = [req[r].loaded EXCEPT ![Id(r)] = None] /\ q.todo = Tail(req[r].todo)
            /\ q.step = IF Len(req[r].todo) = 1 THEN "finish" ELSE "resolve"
  <1> DEFINE f == Onward(req[r])
             q == [f EXCEPT !.wrote = @ \union {Id(r)}, !.out[Id(r)] = row]
  <1>1. req' = [req EXCEPT ![r] = q] /\ lock' = [lock EXCEPT ![Id(r)] = r]  BY DEF Write, Take
  <1>2. Id(r) \in Ids  BY FirstOp
  <1>3. /\ f \in Requests /\ f.step \in {"finish", "resolve"} /\ HasTodo(f)
        /\ f.kind = req[r].kind /\ f.wrote = req[r].wrote /\ f.out = req[r].out
        /\ f.loaded = [req[r].loaded EXCEPT ![Id(r)] = None] /\ f.todo = Tail(req[r].todo)
        /\ f.step = IF Len(req[r].todo) = 1 THEN "finish" ELSE "resolve"
    BY OnwardType
  <1> HIDE DEF f
  <1>4. [f.out EXCEPT ![Id(r)] = row] \in Versions  BY <1>2, <1>3 DEF Requests, Versions
  <1>5. /\ q \in Requests /\ q.wrote = f.wrote \union {Id(r)}
        /\ q.out = [f.out EXCEPT ![Id(r)] = row]
        /\ q.kind = f.kind /\ q.step = f.step /\ q.todo = f.todo /\ q.loaded = f.loaded
    <2> HIDE DEF Versions, Kinds
    <2> QED  BY <1>2, <1>3, <1>4 DEF Requests
  <1> HIDE DEF q, Kinds
  <1> QED  BY <1>1, <1>3, <1>5 DEF HasTodo

\* A step of one request keeps the invariant if what it becomes is sound and what is
\* locked by others stays as it is.
LEMMA Move ==
  ASSUME IInv, NEW r \in Reqs, NEW q \in Requests, req' = [req EXCEPT ![r] = q],
         HasTodo(q), HasLocks(r, q), Frame(r)
  PROVE  IInv'
  <1>1. TypeOK'
    <2>1. req' \in [Reqs -> Requests]  BY DEF IInv, TypeOK
    <2> QED  BY <2>1 DEF TypeOK, Frame
  <1>2. req'[r] = q /\ \A p \in Reqs : p # r => req'[p] = req[p]  BY DEF IInv, TypeOK
  <1>3. \A p \in Reqs : req[p].wrote \subseteq Ids  BY DEF IInv, TypeOK, Requests
  <1>4. TodoInv'
    <2> HIDE DEF Kinds, Busy
    <2> QED  BY <1>2 DEF IInv, TodoInv, HasTodo
  <1>5. WroteInv'
    <2>1. ASSUME NEW p \in Reqs, p # r, NEW s \in req[p].wrote
          PROVE  lock'[s] = lock[s] /\ rows'[s] = rows[s] /\ s \in Ids
      BY <1>3, <2>1 DEF IInv, WroteInv, Frame
    <2> QED  BY <1>2, <2>1 DEF IInv, WroteInv, HasLocks
  <1>6. AskInv'
    <2>1. ASSUME NEW p \in Reqs, p # r
          PROVE  /\ req[p].step = "asking" => /\ req[p].kind # "write"
                                              /\ lock'[Id(p)] = p /\ rows'[Id(p)] # None
                 /\ Id(p)' = Id(p)
      <3>1. Id(p)' = Id(p)  BY <1>2, <2>1 DEF Id
      <3>2. req[p].step = "asking" => Id(p) \in Ids  BY FirstOp
      <3> QED  BY <2>1, <3>1, <3>2 DEF IInv, AskInv, Frame
    <2>2. Id(r)' = Head(q.todo).id  BY <1>2 DEF Id
    <2>3. ASSUME NEW p \in Reqs, p # r
          PROVE  /\ req'[p].step = "asking" => /\ req'[p].kind # "write"
                                               /\ lock'[Id(p)'] = p /\ rows'[Id(p)'] # None
                 /\ req'[p].step = "locking" /\ req'[p].kind = "write" /\ Id(p)' \in req'[p].wrote
                       => req'[p].out[Id(p)'] # None
      BY <1>2, <2>1, <2>3 DEF IInv, AskInv
    <2> QED  BY <1>2, <2>2, <2>3 DEF AskInv, HasLocks
  <1>7. IssuedInv'
    <2>1. \A s \in Ids : rows'[s] # None => rows[s] # None  BY DEF Frame
    <2>2. \A s \in Ids : issued[s] \in Nat /\ issued'[s] \in Nat  BY <1>1 DEF IInv, TypeOK
    <2>3. \A s \in Ids : issued'[s] >= issued[s]  BY DEF Frame
    <2> QED  BY <2>1, <2>2, <2>3 DEF IInv, IssuedInv
  <1> QED  BY <1>1, <1>4, <1>5, <1>6, <1>7 DEF IInv

\* A request that ends gives up what it locked; what it wrote, if anything, is stored.
LEMMA EndInv ==
  ASSUME IInv, NEW r \in Reqs, NEW step \in Ended,
         req' = [req EXCEPT ![r] = EndedReq(r, step)], lock' = Unlocked(r), rows' \in Versions,
         \A s \in Ids : lock[s] # r \/ rows[s] = None => rows'[s] = rows[s],
         now' = now, issued' \in [Ids -> Nat], \A s \in Ids : issued'[s] >= issued[s]
  PROVE  IInv'
  <1> DEFINE q == EndedReq(r, step)
  <1>1. req[r].kind \in Kinds \union {None}  BY DEF IInv, TypeOK, Requests
  <1>2. q \in Requests /\ q.step = step /\ q.wrote = {}
    <2> HIDE DEF Kinds
    <2> QED  BY <1>1, NoReqType DEF EndedReq, Requests, NoReq
  <1>3. /\ lock' \in [Ids -> Reqs \union {None}]
        /\ \A s \in Ids : lock[s] \notin {None, r} => lock'[s] = lock[s]
    BY DEF Unlocked, IInv, TypeOK
  <1>4. Frame(r)  BY <1>3 DEF Frame, IInv, TypeOK
  <1> HIDE DEF q
  <1>5. HasTodo(q) /\ HasLocks(r, q)  BY <1>2 DEF HasTodo, HasLocks
  <1>6. req' = [req EXCEPT ![r] = q]  BY DEF q
  <1> QED  BY <1>2, <1>4, <1>5, <1>6, Move

LEMMA AbandonInv ==
  ASSUME IInv, NEW r \in Reqs, NEW step \in Ended, Abandon(r, step), now' = now, issued' = issued
  PROVE  IInv'
  <1>1. /\ rows' \in Versions /\ issued' \in [Ids -> Nat]
        /\ \A s \in Ids : issued'[s] >= issued[s]
    BY DEF Abandon, IInv, TypeOK
  <1> QED  BY <1>1, EndInv DEF Abandon

\* A request that moves on without a statement.
LEMMA OnwardInv ==
  ASSUME IInv, NEW r \in Reqs, req[r].step \in Busy, req' = [req EXCEPT ![r] = Onward(@)],
         lock' \in [Ids -> Reqs \union {None}],
         \A s \in Ids : lock[s] # None => lock'[s] = lock[s],
         rows' = rows, now' = now, issued' \in [Ids -> Nat], \A s \in Ids : issued'[s] >= issued[s]
  PROVE  IInv'
  <1> DEFINE q == Onward(req[r])
  <1>1. req' = [req EXCEPT ![r] = q]  OBVIOUS
  <1>2. /\ q \in Requests /\ q.step \in {"finish", "resolve"} /\ HasTodo(q)
        /\ q.kind = req[r].kind /\ q.wrote = req[r].wrote /\ q.out = req[r].out
    BY OnwardType
  <1> HIDE DEF q
  <1>3. HasLocks(r, q)
    <2>1. req[r].wrote \subseteq Ids  BY DEF IInv, TypeOK, Requests
    <2> QED  BY <1>2, <2>1 DEF IInv, WroteInv, HasLocks
  <1>4. Frame(r)  BY DEF IInv, TypeOK, Frame
  <1> QED  BY <1>1, <1>2, <1>3, <1>4, Move

\* A statement writes a row that is there and that the request may lock; outside of a
\* batch it keeps the enabled column.
LEMMA WriteInv ==
  ASSUME IInv, NEW r \in Reqs, req[r].step \in Busy, NEW row \in RowOf \union {None}, Write(r, row),
         lock[Id(r)] \in {None, r}, rows[Id(r)] # None,
         req[r].kind # "write" => row # None /\ row.enabled = rows[Id(r)].enabled,
         rows' = rows, now' = now, issued' \in [Ids -> Nat], \A s \in Ids : issued'[s] >= issued[s]
  PROVE  IInv'
  <1>1. PICK q \in Requests :
            /\ req' = [req EXCEPT ![r] = q] /\ lock' = [lock EXCEPT ![Id(r)] = r]
            /\ q.step \in {"finish", "resolve"} /\ HasTodo(q)
            /\ q.kind = req[r].kind /\ q.wrote = req[r].wrote \union {Id(r)}
            /\ q.out = [req[r].out EXCEPT ![Id(r)] = row]
            /\ q.loaded = [req[r].loaded EXCEPT ![Id(r)] = None] /\ q.todo = Tail(req[r].todo)
            /\ q.step = IF Len(req[r].todo) = 1 THEN "finish" ELSE "resolve"
    BY WriteType
  <1>2. Id(r) \in Ids /\ req[r].wrote \subseteq Ids /\ req[r].out \in Versions
    BY FirstOp DEF IInv, TypeOK, Requests
  <1>3. /\ lock' \in [Ids -> Reqs \union {None}] /\ lock'[Id(r)] = r
        /\ \A s \in Ids : s # Id(r) => lock'[s] = lock[s]
    BY <1>1, <1>2 DEF IInv, TypeOK
  <1>4. /\ q.out[Id(r)] = row /\ \A s \in Ids : s # Id(r) => q.out[s] = req[r].out[s]
    BY <1>1, <1>2 DEF Versions
  <1>5. HasLocks(r, q)  BY <1>1, <1>2, <1>3, <1>4 DEF IInv, WroteInv, HasLocks
  <1>6. Frame(r)  BY <1>2, <1>3 DEF IInv, TypeOK, Frame
  <1> QED  BY <1>1, <1>5, <1>6, Move

-----------------------------------------------------------------------------
\* Rows, as a request sees them.
LEMMA LoadType ==
  ASSUME IInv, NEW r \in Reqs, NEW s \in Ids
  PROVE  /\ Visible(r, s) \in RowOf \union {None} /\ Load(r, s) \in RowOf \union {None}
         /\ req[r].wrote \subseteq Ids /\ req[r].loaded \in Versions /\ rows[s] \in RowOf \union {None}
  <1>1. req[r].out \in Versions /\ req[r].loaded \in Versions /\ rows \in Versions
        /\ req[r].wrote \subseteq Ids
    BY DEF IInv, TypeOK, Requests
  <1> QED  BY <1>1 DEF Load, Visible, Versions

LEMMA TodosType == ASSUME NEW kind \in Kinds, NEW todo \in Todos(kind)
                   PROVE  todo \in Seq([id : Ids, op : {"read", "refresh"} \union WriteOp])
  <1> DEFINE S == [id : Ids, op : Ops(kind)]
             T == [id : Ids, op : {"read", "refresh"} \union WriteOp]
  <1>1. S \subseteq T /\ todo \in Seq(S)  BY DEF Ops, Todos
  <1> HIDE DEF S, T
  <1>2. todo \in Seq(T)  BY <1>1, SeqMonotonic
  <1> QED  BY <1>2 DEF T

LEMMA BeginInv ==
  ASSUME IInv, NEW r \in Reqs, NEW kind \in Kinds, NEW todo \in Todos(kind), NEW loaded \in Versions,
         Begin(r, kind, todo, loaded)
  PROVE  IInv'
  <1> DEFINE q == [NoReq EXCEPT !.kind = kind, !.step = "resolve", !.todo = todo, !.loaded = loaded]
  <1>1. req' = [req EXCEPT ![r] = q] /\ todo # <<>>  BY DEF Begin
  <1>2. /\ q \in Requests /\ q.step = "resolve" /\ q.kind = kind /\ q.todo = todo /\ q.wrote = {}
    <2> HIDE DEF Kinds
    <2> QED  BY NoReqType, TodosType DEF Requests, NoReq
  <1> HIDE DEF q
  <1>3. HasTodo(q)  BY <1>1, <1>2 DEF HasTodo
  <1>4. HasLocks(r, q)  BY <1>2 DEF HasLocks
  <1>5. Frame(r)  BY DEF Begin, IInv, TypeOK, Frame
  <1> QED  BY <1>1, <1>2, <1>3, <1>4, <1>5, Move

LEMMA OpsOnType == ASSUME NEW kind \in {"read", "refresh"}, NEW ids \in Seq(Ids)
                   PROVE  OpsOn(ids, kind) \in Todos(kind)
  <1> DEFINE S == [id : Ids, op : Ops(kind)]
             ops == OpsOn(ids, kind)
  <1>1. Len(ids) \in Nat /\ DOMAIN ids = 1 .. Len(ids) /\ ids \in [1 .. Len(ids) -> Ids]
    BY LenProperties
  <1>2. ops = [i \in 1 .. Len(ids) |-> [id |-> ids[i], op |-> kind]]  BY <1>1 DEF OpsOn
  <1>3. \A i \in 1 .. Len(ids) : [id |-> ids[i], op |-> kind] \in S  BY <1>1 DEF Ops
  <1> HIDE DEF S
  <1>4. ops \in [1 .. Len(ids) -> S]
    <2> HIDE DEF ops
    <2> QED  BY <1>2, <1>3
  <1>5. ops \in Seq(S)  
    <2> HIDE DEF ops
    <2> QED  BY <1>1, <1>4
  <1> QED  BY <1>5 DEF S, Todos

LEMMA StartInv == ASSUME IInv, NEW r \in Reqs, Start(r)  PROVE IInv'
  <1>1. CASE ReadSecrets(r)
    <2>1. PICK ids \in Reads : Begin(r, "read", OpsOn(ids, "read"), NoRows)
      BY <1>1 DEF ReadSecrets
    <2>2. OpsOn(ids, "read") \in Todos("read")  BY OpsOnType
    <2> QED  BY <2>1, <2>2, NoReqType, BeginInv
  <1>2. CASE SearchSecrets(r)
    <2> DEFINE found == {s \in Ids : rows[s] # None}
    <2>1. PICK ids \in [1 .. Cardinality(found) -> found] :
             Begin(r, "read", OpsOn(ids, "read"), rows)
      BY <1>2 DEF SearchSecrets
    <2>2. Cardinality(found) \in Nat
      <3>1. IsFiniteSet(Ids)  BY FS_Interval DEF Ids
      <3> QED  BY <3>1, FS_Subset, FS_CardinalityType
    <2>3. ids \in Seq(Ids)
      <3> HIDE DEF found
      <3>1. ids \in Seq(found)  BY <2>2
      <3> QED  BY <3>1, SeqMonotonic DEF found
    <2>4. OpsOn(ids, "read") \in Todos("read")  BY <2>3, OpsOnType
    <2>5. rows \in Versions  BY DEF IInv, TypeOK
    <2> QED  BY <2>1, <2>4, <2>5, BeginInv
  <1>3. CASE RefreshSession(r)
    <2>1. PICK s \in Ids : Begin(r, "refresh", OpsOn(<<s>>, "refresh"), NoRows)
      BY <1>3 DEF RefreshSession
    <2>2. <<s>> \in Seq(Ids)  OBVIOUS
    <2>3. OpsOn(<<s>>, "refresh") \in Todos("refresh")  BY <2>2, OpsOnType
    <2> QED  BY <2>1, <2>3, NoReqType, BeginInv
  <1>4. CASE WriteSessions(r)
    <2>1. PICK ops \in Writes : Begin(r, "write", ops, NoRows)  BY <1>4 DEF WriteSessions
    <2>2. ops \in Todos("write")  BY DEF Todos, Ops
    <2> QED  BY <2>1, <2>2, NoReqType, BeginInv
  <1> QED  BY <1>1, <1>2, <1>3, <1>4 DEF Start

\* A request goes to wait for the lock of a row.
LEMMA WaitInv ==
  ASSUME IInv, NEW r \in Reqs, req[r].step \in Busy, NEW row \in RowOf \union {None},
         req' = [req EXCEPT ![r] = [req[r] EXCEPT !.step = "locking", !.loaded[Id(r)] = row]],
         req[r].kind = "write" /\ Id(r) \in req[r].wrote => req[r].out[Id(r)] # None,
         UNCHANGED <<now, rows, lock, issued>>
  PROVE  IInv'
  <1> DEFINE q == [req[r] EXCEPT !.step = "locking", !.loaded[Id(r)] = row]
  <1>1. /\ req[r] \in Requests /\ req[r].kind \in Kinds /\ Id(r) \in Ids
        /\ req[r].todo \in Todos(req[r].kind) /\ req[r].todo # <<>>
    BY FirstOp DEF IInv, TypeOK, TodoInv
  <1>2. [req[r].loaded EXCEPT ![Id(r)] = row] \in Versions  BY <1>1 DEF Requests, Versions
  <1>3. /\ q \in Requests /\ q.step = "locking" /\ q.kind = req[r].kind
        /\ q.todo = req[r].todo /\ q.wrote = req[r].wrote /\ q.out = req[r].out
    <2> HIDE DEF Kinds
    <2> QED  BY <1>1, <1>2 DEF Requests
  <1> HIDE DEF q
  <1>4. HasTodo(q)  BY <1>1, <1>3 DEF HasTodo
  <1>5. HasLocks(r, q)
    <2>1. req[r].wrote \subseteq Ids  BY <1>1 DEF Requests
    <2> QED  BY <1>3, <2>1 DEF IInv, WroteInv, HasLocks, Id
  <1>6. Frame(r)  BY DEF IInv, TypeOK, Frame
  <1>7. req' = [req EXCEPT ![r] = q]  BY DEF q
  <1> QED  BY <1>3, <1>4, <1>5, <1>6, <1>7, Move

\* A request that got the lock asks the provider.
LEMMA AskingInv ==
  ASSUME IInv, NEW r \in Reqs, req[r].step \in Busy, Take(r, [req[r] EXCEPT !.step = "asking"]),
         lock[Id(r)] \in {None, r}, rows[Id(r)] # None, req[r].kind # "write",
         UNCHANGED <<now, rows, issued>>
  PROVE  IInv'
  <1> DEFINE q == [req[r] EXCEPT !.step = "asking"]
  <1>1. /\ req[r] \in Requests /\ req[r].kind \in Kinds /\ Id(r) \in Ids
        /\ req[r].todo \in Todos(req[r].kind) /\ req[r].todo # <<>>
    BY FirstOp DEF IInv, TypeOK, TodoInv
  <1>2. /\ q \in Requests /\ q.step = "asking" /\ q.kind = req[r].kind
        /\ q.todo = req[r].todo /\ q.wrote = req[r].wrote /\ q.out = req[r].out
    <2> HIDE DEF Kinds
    <2> QED  BY <1>1 DEF Requests
  <1>3. req' = [req EXCEPT ![r] = q] /\ lock' = [lock EXCEPT ![Id(r)] = r]  BY DEF Take
  <1> HIDE DEF q
  <1>4. /\ lock' \in [Ids -> Reqs \union {None}] /\ lock'[Id(r)] = r
        /\ \A s \in Ids : s # Id(r) => lock'[s] = lock[s]
    BY <1>1, <1>3 DEF IInv, TypeOK
  <1>5. HasTodo(q)  BY <1>1, <1>2 DEF HasTodo
  <1>6. HasLocks(r, q)
    <2>1. req[r].wrote \subseteq Ids  BY <1>1 DEF Requests
    <2> QED  BY <1>2, <1>4, <2>1 DEF IInv, WroteInv, HasLocks, Id
  <1>7. Frame(r)  BY <1>1, <1>4 DEF IInv, TypeOK, Frame
  <1> QED  BY <1>2, <1>3, <1>5, <1>6, <1>7, Move

LEMMA ResolveReadInv == ASSUME IInv, NEW r \in Reqs, ResolveRead(r)  PROVE IInv'
  <1> DEFINE s == Id(r)
             row == Load(r, s)
             q == [req[r] EXCEPT !.step = "locking", !.loaded[s] = row]
  <1>1. req[r].step = "resolve" /\ Op(r) = "read" /\ UNCHANGED <<now, rows, lock, issued>>
    BY DEF ResolveRead
  <1>2. s \in Ids /\ Op(r) \in Ops(req[r].kind)  BY <1>1, FirstOp
  <1>3. row \in RowOf \union {None}  BY <1>2, LoadType
  <1>4. \/ req' = [req EXCEPT ![r] = q]
        \/ req' = [req EXCEPT ![r] = Onward(@)]
    BY Zenon DEF ResolveRead
  <1>5. lock \in [Ids -> Reqs \union {None}] /\ issued \in [Ids -> Nat] /\ \A t \in Ids : issued[t] >= issued[t]
    BY DEF IInv, TypeOK
  <1>6. CASE req' = [req EXCEPT ![r] = q]
    <2>1. req[r].kind # "write"  BY <1>1, <1>2 DEF Ops, WriteOp
    <2> QED  BY <1>1, <1>3, <1>6, <2>1, WaitInv
  <1>7. CASE req' = [req EXCEPT ![r] = Onward(@)]  BY <1>1, <1>5, <1>7, OnwardInv
  <1> QED  BY <1>4, <1>6, <1>7

LEMMA ResolveInv == ASSUME IInv, NEW r \in Reqs, Resolve(r)  PROVE IInv'
  <1> DEFINE s == Id(r)
             row == Load(r, s)
             q == [req[r] EXCEPT !.step = "locking", !.loaded[s] = row]
  <1>1. req[r].step = "resolve" /\ UNCHANGED <<now, issued>>  BY DEF Resolve
  <1>2. s \in Ids  BY <1>1, FirstOp
  <1>3. row \in RowOf \union {None}  BY <1>2, LoadType
  <1>4. \/ Abandon(r, "failed")
        \/ /\ Visible(r, s) # None /\ UNCHANGED <<rows, lock>>
           /\ \/ req' = [req EXCEPT ![r] = q]
              \/ req' = [req EXCEPT ![r] = Onward(@)]
    BY Zenon DEF Resolve
  <1>5. lock \in [Ids -> Reqs \union {None}] /\ issued \in [Ids -> Nat] /\ \A t \in Ids : issued[t] >= issued[t]
    BY DEF IInv, TypeOK
  <1>6. CASE /\ Visible(r, s) # None /\ UNCHANGED <<rows, lock>> /\ req' = [req EXCEPT ![r] = q]
    <2>1. s \in req[r].wrote => req[r].out[s] # None  BY <1>6 DEF Visible
    <2> QED  BY <1>1, <1>3, <1>6, <2>1, WaitInv
  <1>7. CASE UNCHANGED <<rows, lock>> /\ req' = [req EXCEPT ![r] = Onward(@)]
    BY <1>1, <1>5, <1>7, OnwardInv
  <1>8. CASE Abandon(r, "failed")  BY <1>1, <1>8, AbandonInv
  <1> QED  BY <1>4, <1>6, <1>7, <1>8

\* A batch writes, a read or a refresh does not.
LEMMA OpKind ==
  ASSUME IInv, NEW r \in Reqs, req[r].step \in Busy
  PROVE  req[r].kind = "write" <=> Op(r) \in WriteOp
  <1>1. Op(r) \in Ops(req[r].kind) /\ req[r].kind \in Kinds  BY FirstOp DEF IInv, TodoInv
  <1> QED  BY <1>1 DEF Ops, WriteOp

LEMMA LockForRefreshInv == ASSUME IInv, NEW r \in Reqs, LockForRefresh(r)  PROVE IInv'
  <1> DEFINE s == Id(r)
  <1>1. /\ req[r].step = "locking" /\ lock[s] \in {None, r} /\ Op(r) \in {"read", "refresh"}
        /\ UNCHANGED <<now, issued>>
    BY DEF LockForRefresh, MayLock
  <1>2. s \in Ids /\ req[r].kind # "write"  BY <1>1, FirstOp, OpKind DEF WriteOp
  <1>3. lock \in [Ids -> Reqs \union {None}] /\ issued \in [Ids -> Nat]
        /\ \A t \in Ids : issued[t] >= issued[t]
    BY DEF IInv, TypeOK
  <1>4. \/ rows[s] # None /\ Take(r, [req[r] EXCEPT !.step = "asking"]) /\ rows' = rows
        \/ Abandon(r, "failed")
        \/ /\ req' = [req EXCEPT ![r] = Onward(@)] /\ rows' = rows
           /\ lock' \in {lock, [lock EXCEPT ![s] = r]}
    BY DEF LockForRefresh
  <1>5. CASE rows[s] # None /\ Take(r, [req[r] EXCEPT !.step = "asking"]) /\ rows' = rows
    BY <1>1, <1>2, <1>5, AskingInv
  <1>6. CASE Abandon(r, "failed")  BY <1>1, <1>6, AbandonInv
  <1>7. CASE /\ req' = [req EXCEPT ![r] = Onward(@)] /\ rows' = rows
             /\ lock' \in {lock, [lock EXCEPT ![s] = r]}
    <2>1. /\ lock' \in [Ids -> Reqs \union {None}]
          /\ \A t \in Ids : lock[t] # None => lock'[t] = lock[t]
      BY <1>1, <1>2, <1>3, <1>7
    <2> QED  BY <1>1, <1>3, <1>7, <2>1, OnwardInv
  <1> QED  BY <1>4, <1>5, <1>6, <1>7

LEMMA LockTimeoutInv == ASSUME IInv, NEW r \in Reqs, LockTimeout(r)  PROVE IInv'
  <1>1. \E step \in Ended : Abandon(r, step)  BY Zenon DEF LockTimeout
  <1> QED  BY <1>1, AbandonInv DEF LockTimeout

LEMMA PatchInv == ASSUME IInv, NEW r \in Reqs, Patch(r)  PROVE IInv'
  <1> DEFINE s == Id(r)
  <1>1. /\ req[r].step = "locking" /\ lock[s] \in {None, r} /\ Op(r) \in {"enable", "disable"}
        /\ UNCHANGED <<now, issued>>
    BY DEF Patch, MayLock
  <1>2. s \in Ids /\ req[r].kind = "write"  BY <1>1, FirstOp, OpKind DEF WriteOp
  <1>3. issued \in [Ids -> Nat] /\ \A t \in Ids : issued[t] >= issued[t]  BY DEF IInv, TypeOK
  <1>4. CASE rows[s] = None  BY <1>1, <1>4, AbandonInv DEF Patch
  <1>5. CASE rows[s] # None
    <2> DEFINE row == [Visible(r, s) EXCEPT !.enabled = (Op(r) = "enable")]
    <2>1. Write(r, row) /\ rows' = rows  BY <1>5 DEF Patch
    <2>2. Visible(r, s) \in RowOf
      <3>1. s \in req[r].wrote => req[r].out[s] # None  BY <1>1, <1>2 DEF IInv, AskInv
      <3> QED  BY <1>2, <1>5, <3>1, LoadType DEF Visible
    <2>3. row \in RowOf
      <3> HIDE DEF s
      <3> QED  BY <2>2 DEF RowOf
    <2> HIDE DEF row
    <2> QED  BY <1>1, <1>2, <1>3, <1>5, <2>1, <2>3, WriteInv
  <1> QED  BY <1>4, <1>5

LEMMA DeleteInv == ASSUME IInv, NEW r \in Reqs, Delete(r)  PROVE IInv'
  <1>1. /\ req[r].step = "locking" /\ lock[Id(r)] \in {None, r} /\ Op(r) = "delete"
        /\ UNCHANGED <<now, rows, issued>>
    BY DEF Delete, MayLock
  <1>2. Id(r) \in Ids /\ req[r].kind = "write"  BY <1>1, FirstOp, OpKind DEF WriteOp
  <1>3. lock \in [Ids -> Reqs \union {None}] /\ issued \in [Ids -> Nat]
        /\ \A t \in Ids : issued[t] >= issued[t]
    BY DEF IInv, TypeOK
  <1>4. CASE rows[Id(r)] = None  BY <1>1, <1>3, <1>4, OnwardInv DEF Delete
  <1>5. CASE rows[Id(r)] # None
    <2>1. Write(r, None)  BY <1>5 DEF Delete
    <2> QED  BY <1>1, <1>2, <1>3, <1>5, <2>1, WriteInv
  <1> QED  BY <1>4, <1>5

LEMMA ProviderAnswersInv == ASSUME IInv, NEW r \in Reqs, ProviderAnswers(r)  PROVE IInv'
  <1> DEFINE s == Id(r)
  <1>1. req[r].step = "asking" /\ UNCHANGED <<now, rows>>  BY DEF ProviderAnswers
  <1>2. PICK rotates \in BOOLEAN, life \in AccessLife, rlife \in RefreshLife :
           LET token == IF rotates THEN issued[s] + 1 ELSE issued[s]
               until == IF rlife = None THEN Visible(r, s).until ELSE RefreshExpiry(rlife)
           IN  /\ issued' = [issued EXCEPT ![s] = token]
               /\ Write(r, [Visible(r, s) EXCEPT !.token = token, !.until = until,
                                                  !.access = Expiry(life)])
    BY DEF ProviderAnswers
  <1> DEFINE token == IF rotates THEN issued[s] + 1 ELSE issued[s]
             until == IF rlife = None THEN Visible(r, s).until ELSE RefreshExpiry(rlife)
             row   == [Visible(r, s) EXCEPT !.token = token, !.until = until, !.access = Expiry(life)]
  <1>3. /\ s \in Ids /\ req[r].kind # "write" /\ lock[s] = r /\ rows[s] # None
    BY <1>1, FirstOp DEF IInv, AskInv
  <1>4. /\ Visible(r, s) \in RowOf /\ Visible(r, s).enabled = rows[s].enabled
        /\ issued[s] \in Nat /\ now \in Nat
    <2>1. Visible(r, s) # None /\ Visible(r, s).enabled = rows[s].enabled
      BY <1>3 DEF Visible, IInv, WroteInv
    <2> QED  BY <1>3, <2>1, LoadType DEF IInv, TypeOK
  <1>5. token \in Nat /\ token >= issued[s]  BY <1>4
  <1>6. Expiry(life) \in Nat /\ until \in Nat \union {None}
    BY <1>4 DEF Expiry, RefreshExpiry, Less, RowOf
  <1>7. Write(r, row) /\ issued' = [issued EXCEPT ![s] = token]  BY <1>2
  <1>8. issued' \in [Ids -> Nat] /\ \A t \in Ids : issued'[t] >= issued[t]
    <2> HIDE DEF token
    <2> QED  BY <1>3, <1>5, <1>7 DEF IInv, TypeOK
  <1>9. row \in RowOf /\ row.enabled = rows[s].enabled
    <2> HIDE DEF token, until, s
    <2> QED  BY <1>4, <1>5, <1>6 DEF RowOf
  <1> HIDE DEF row
  <1> QED  BY <1>1, <1>3, <1>7, <1>8, <1>9, WriteInv

\* A request that was not answered ends or goes on.
LEMMA UnansweredInv ==
  ASSUME IInv, NEW r \in Reqs, req[r].step = "asking", Unanswered(r), UNCHANGED <<now, rows>>,
         issued' \in [Ids -> Nat], \A s \in Ids : issued'[s] >= issued[s]
  PROVE  IInv'
  <1>1. lock \in [Ids -> Reqs \union {None}] /\ rows' \in Versions /\ issued \in [Ids -> Nat]
    BY DEF IInv, TypeOK
  <1>2. CASE Op(r) = "refresh"
    <2>1. req' = [req EXCEPT ![r] = EndedReq(r, "failed")] /\ lock' = Unlocked(r)
      BY <1>2 DEF Unanswered
    <2> QED  BY <1>1, <2>1, EndInv
  <1>3. CASE Op(r) # "refresh"
    <2>1. req' = [req EXCEPT ![r] = Onward(@)] /\ lock' = lock  BY <1>3 DEF Unanswered
    <2> QED  BY <1>1, <2>1, OnwardInv
  <1> QED  BY <1>2, <1>3

LEMMA FinishInv == ASSUME IInv, NEW r \in Reqs, Finish(r)  PROVE IInv'
  <1>1. /\ UNCHANGED <<now, issued>> /\ issued' \in [Ids -> Nat]
        /\ \A s \in Ids : issued'[s] >= issued[s]
    BY DEF Finish, IInv, TypeOK
  <1>2. CASE req[r].kind = "read"  BY <1>1, <1>2, AbandonInv DEF Finish
  <1>3. CASE req[r].kind # "read"
    <2>1. /\ rows' = [s \in Ids |-> Visible(r, s)]
          /\ req' = [req EXCEPT ![r] = EndedReq(r, "ok")] /\ lock' = Unlocked(r)
      BY <1>3 DEF Finish
    <2>2. rows' \in Versions  BY <2>1, LoadType DEF Versions
    <2>3. \A s \in Ids : lock[s] # r \/ rows[s] = None => rows'[s] = rows[s]
      BY <2>1 DEF IInv, WroteInv, Visible
    <2> QED  BY <1>1, <2>1, <2>2, <2>3, EndInv
  <1> QED  BY <1>2, <1>3

LEMMA ProceedInv == ASSUME IInv, NEW r \in Reqs, Proceed(r)  PROVE IInv'
  <1>1. CASE DeadlockDetected(r)
    <2>1. Abandon(r, "error") /\ UNCHANGED <<now, issued>>  BY <1>1 DEF DeadlockDetected
    <2> QED  BY <2>1, AbandonInv
  <1>2. CASE ProviderFails(r)
    <2>1. issued' = issued /\ issued \in [Ids -> Nat] /\ \A s \in Ids : issued'[s] >= issued[s]
      BY <1>2 DEF ProviderFails, IInv, TypeOK
    <2> QED  BY <1>2, <2>1, UnansweredInv DEF ProviderFails
  <1>3. CASE AnswerIsLost(r)
    <2>1. Id(r) \in Ids  BY <1>3, FirstOp DEF AnswerIsLost
    <2>2. issued' \in [Ids -> Nat] /\ \A s \in Ids : issued'[s] >= issued[s]
      BY <1>3, <2>1 DEF AnswerIsLost, IInv, TypeOK
    <2> QED  BY <1>3, <2>2, UnansweredInv DEF AnswerIsLost
  <1> QED  BY <1>1, <1>2, <1>3, ResolveReadInv, ResolveInv, LockForRefreshInv, LockTimeoutInv, PatchInv,
              DeleteInv, ProviderAnswersInv, FinishInv DEF Proceed

\* The callback inserts a row that nobody has seen.
LEMMA CallbackInv == ASSUME IInv, NEW s \in Ids, Callback(s)  PROVE IInv'
  <1>1. PICK life \in AccessLife, rlife \in RefreshLife :
           rows' = [rows EXCEPT ![s] = [token |-> 1, until |-> RefreshExpiry(rlife),
                                        access |-> Expiry(life), enabled |-> TRUE]]
    BY DEF Callback
  <1>2. issued[s] = 0 /\ issued' = [issued EXCEPT ![s] = 1] /\ UNCHANGED <<now, lock, req>>
    BY DEF Callback
  <1> DEFINE row == [token |-> 1, until |-> RefreshExpiry(rlife), access |-> Expiry(life), enabled |-> TRUE]
  <1>3. row \in RowOf
    <2>1. now \in Nat  BY DEF IInv, TypeOK
    <2> QED  BY <2>1 DEF RowOf, RefreshExpiry, Expiry, Less
  <1> HIDE DEF row
  <1>4. rows' = [rows EXCEPT ![s] = row]  BY <1>1 DEF row
  <1>5. rows' \in Versions /\ rows'[s] # None /\ \A t \in Ids : t # s => rows'[t] = rows[t]
    BY <1>3, <1>4 DEF IInv, TypeOK, Versions
  <1>6. rows[s] = None
    <2>1. issued[s] \in Nat  BY DEF IInv, TypeOK
    <2> QED  BY <1>2, <2>1 DEF IInv, IssuedInv
  <1>7. TypeOK' /\ IssuedInv'  BY <1>2, <1>5 DEF IInv, TypeOK, IssuedInv
  <1>8. \A p \in Reqs : req[p].wrote \subseteq Ids  BY DEF IInv, TypeOK, Requests
  <1>9. TodoInv'  BY <1>2 DEF IInv, TodoInv
  <1>10. WroteInv'
    <2>1. ASSUME NEW p \in Reqs, NEW t \in req[p].wrote  PROVE t \in Ids /\ rows'[t] = rows[t]
      BY <1>5, <1>6, <1>8 DEF IInv, WroteInv
    <2> QED  BY <1>2, <2>1 DEF IInv, WroteInv
  <1>11. AskInv'
    <2>1. ASSUME NEW p \in Reqs, req[p].step = "asking"  PROVE rows'[Id(p)] = rows[Id(p)]
      BY <1>5, <1>6, <2>1, FirstOp DEF IInv, AskInv
    <2> QED  BY <1>2, <2>1 DEF IInv, AskInv, Id
  <1> QED  BY <1>7, <1>9, <1>10, <1>11 DEF IInv

LEMMA TickInv == IInv /\ (Tick \/ UNCHANGED vars) => IInv'
  <1> SUFFICES ASSUME IInv, Tick \/ UNCHANGED vars PROVE IInv'  OBVIOUS
  <1>1. now' \in Nat /\ UNCHANGED <<rows, lock, req, issued>>
    BY DEF IInv, TypeOK, Tick, vars
  <1> QED  BY <1>1 DEF IInv, TypeOK, TodoInv, WroteInv, AskInv, IssuedInv, Id

LEMMA NextInv == IInv /\ [Next]_vars => IInv'
  <1> SUFFICES ASSUME IInv, Next PROVE IInv'  BY TickInv
  <1>1. ASSUME NEW r \in Reqs, Crash(r)  PROVE IInv'
    BY <1>1, AbandonInv DEF Crash
  <1> QED  BY <1>1, TickInv, CallbackInv, StartInv, ProceedInv DEF Next

\* The locks, the rows and the requests in flight agree, in every reachable state.
THEOREM InvCorrect == Spec => []IInv
  <1> QED  BY InitInv, NextInv, PTL DEF Spec

-----------------------------------------------------------------------------
\* Which step writes a committed row: the callback inserts it, and the end of a request
\* that does not only read stores what it wrote.
LEMMA RowsChange ==
  ASSUME IInv, [Next]_vars, rows' # rows
  PROVE  \/ \E s \in Ids : Callback(s)
         \/ \E r \in Reqs : Finish(r) /\ req[r].kind # "read"
  <1>1. Next  BY DEF vars
  <1>2. ASSUME NEW r \in Reqs, Start(r)  PROVE FALSE
    BY <1>2, Zenon DEF Start, ReadSecrets, SearchSecrets, RefreshSession, WriteSessions, Begin
  <1>3. ASSUME NEW r \in Reqs, Proceed(r), ~(Finish(r) /\ req[r].kind # "read")  PROVE FALSE
    BY <1>3, Zenon DEF Proceed, ResolveRead, Resolve, LockForRefresh, LockTimeout, Patch, Delete,
       DeadlockDetected, ProviderAnswers, ProviderFails, AnswerIsLost, Finish, Abandon
  <1>4. ASSUME NEW r \in Reqs, Crash(r)  PROVE FALSE  BY <1>4, Zenon DEF Crash, Abandon
  <1> QED  BY <1>1, <1>2, <1>3, <1>4 DEF Next, Tick

\* A refresh or a PATCH in flight does not bring a deleted session back: whoever commits
\* a row found it under a lock that it still holds.
THEOREM DeletedCorrect == Spec => DeletedStaysDeleted
  <1>1. ASSUME IInv, [Next]_vars, NEW s \in Ids, rows[s] = None, issued[s] > 0  PROVE rows'[s] = None
    <2>1. CASE rows' = rows  BY <1>1, <2>1
    <2>2. ASSUME NEW t \in Ids, Callback(t)  PROVE rows'[s] = None
      <3>1. t # s  BY <1>1, <2>2 DEF Callback
      <3>2. rows'[s] = rows[s]  BY <2>2, <3>1 DEF Callback, IInv, TypeOK, Versions
      <3> QED  BY <1>1, <3>2
    <2>3. ASSUME NEW r \in Reqs, Finish(r), req[r].kind # "read"  PROVE rows'[s] = None
      BY <1>1, <2>3 DEF Finish, Visible, IInv, WroteInv
    <2> QED  BY <1>1, <2>1, <2>2, <2>3, RowsChange
  <1>2. IInv /\ [Next]_vars => [\A s \in Ids : rows[s] = None /\ issued[s] > 0 => rows'[s] = None]_vars
    BY <1>1
  <1> QED  BY <1>2, InvCorrect, PTL DEF Spec, DeletedStaysDeleted

\* Only a batch or a PATCH changes whether a session is enabled: a refresh stores the
\* column of the row it locked.
THEOREM EnabledCorrect == Spec => OnlyPatchEnables
  <1> DEFINE Enables == \A s \in Ids : rows[s] # None /\ rows'[s] # None /\ rows'[s].enabled # rows[s].enabled
                          => \E r \in Reqs : req[r].kind = "write" /\ req[r].step = "finish"
                                             /\ req'[r].step = "ok"
  <1>1. ASSUME IInv, [Next]_vars, NEW s \in Ids,
               rows[s] # None, rows'[s] # None, rows'[s].enabled # rows[s].enabled
        PROVE  \E r \in Reqs : req[r].kind = "write" /\ req[r].step = "finish" /\ req'[r].step = "ok"
    <2>1. rows' # rows  BY <1>1
    <2>2. ASSUME NEW t \in Ids, Callback(t)  PROVE FALSE
      <3>1. t # s
        <4>1. issued[t] = 0 /\ issued[t] \in Nat  BY <1>1, <2>2 DEF Callback, IInv, TypeOK
        <4> QED  BY <1>1, <4>1 DEF IInv, IssuedInv
      <3>2. rows'[s] = rows[s]  BY <2>2, <3>1 DEF Callback, IInv, TypeOK, Versions
      <3> QED  BY <1>1, <3>2
    <2>3. PICK r \in Reqs : Finish(r) /\ req[r].kind # "read"  BY <1>1, <2>1, <2>2, RowsChange
    <2>4. rows'[s] = Visible(r, s)  BY <2>3 DEF Finish
    <2>5. s \in req[r].wrote /\ req[r].kind = "write"
      BY <1>1, <2>4 DEF Visible, IInv, WroteInv
    <2>6. req'[r].step = "ok"
      <3>1. req' = [req EXCEPT ![r] = EndedReq(r, "ok")]  BY <2>3 DEF Finish
      <3>2. EndedReq(r, "ok").step = "ok"  BY DEF EndedReq, NoReq
      <3> QED  BY <1>1, <3>1, <3>2 DEF IInv, TypeOK
    <2> QED  BY <2>3, <2>5, <2>6 DEF Finish
  <1>2. IInv /\ [Next]_vars => [Enables]_vars  BY <1>1
  <1> QED  BY <1>2, InvCorrect, PTL DEF Spec, OnlyPatchEnables

-----------------------------------------------------------------------------
\* What else the refinement takes: a request loads a row before it locks it, and a
\* refresh token never goes back.
Prepared(q) ==
    /\ q.step \in {"idle"} \union Ended => q.wrote = {}
    /\ q.step \in Busy /\ q.kind # "write" =>
          /\ q.kind = "refresh" => q.wrote = {} /\ Len(q.todo) = 1
          /\ q.step # "resolve" => q.loaded[Head(q.todo).id] # None
WroteTokens(q) ==
    \A s \in q.wrote : q.out[s] # None =>
       /\ rows[s].token <= q.out[s].token /\ q.out[s].token <= issued[s]
       /\ q.kind = "write" => q.out[s].token = rows[s].token
\* The token of row s as q sees it.
SeenToken(q, s) == IF s \in q.wrote /\ q.out[s] # None THEN q.out[s].token ELSE rows[s].token
LoadedTokens(q) ==
    \A s \in Ids : q.loaded[s] # None =>
       issued[s] > 0 /\ (rows[s] # None => q.loaded[s].token <= SeenToken(q, s))
RowTokens == \A s \in Ids : rows[s] # None => rows[s].token <= issued[s]

CredInv == /\ RowTokens
           /\ \A p \in Reqs : Prepared(req[p]) /\ WroteTokens(req[p]) /\ LoadedTokens(req[p])

\* Every session is a rotating credential, for one step.
Refines == \A s \in Ids : [RC(s)!Next]_(RC(s)!vars)

LEMMA CredInit == Init => CredInv /\ \A s \in Ids : RC(s)!Init
  <1> SUFFICES ASSUME Init PROVE CredInv /\ \A s \in Ids : RC(s)!Init  OBVIOUS
  <1>1. \A p \in Reqs : req[p].step = "idle" /\ req[p].wrote = {} /\ \A s \in Ids : req[p].loaded[s] = None
    BY DEF Init, NoReq, NoRows
  <1>2. CredInv
    BY <1>1 DEF Init, NoRows, CredInv, Prepared, WroteTokens, LoadedTokens, RowTokens
  <1>3. \A s \in Ids : RC(s)!Init  BY DEF Init, RC!Init, StoredToken, PendingToken, NoRows
  <1> QED  BY <1>2, <1>3

\* The token on its way to be stored for a row is in the hands of the request that
\* holds its lock.
PendingHeld ==
    \A s \in Ids :
       /\ \A p \in Reqs : s \in Rotated(p) =>
             /\ lock[s] = p /\ PendingToken(s) = req[p].out[s].token /\ PendingToken(s) \in Nat
       /\ (\A p \in Reqs : s \notin Rotated(p)) => PendingToken(s) = None
LEMMA PendingIs == IInv => PendingHeld
  <1> SUFFICES ASSUME IInv, NEW s \in Ids
               PROVE  /\ \A p \in Reqs : s \in Rotated(p) =>
                            /\ lock[s] = p /\ PendingToken(s) = req[p].out[s].token
                            /\ PendingToken(s) \in Nat
                      /\ (\A p \in Reqs : s \notin Rotated(p)) => PendingToken(s) = None
    BY DEF PendingHeld
  <1>1. ASSUME NEW p \in Reqs, s \in Rotated(p)
        PROVE  /\ lock[s] = p /\ PendingToken(s) = req[p].out[s].token /\ PendingToken(s) \in Nat
    <2>1. s \in req[p].wrote /\ req[p].out[s] # None  BY <1>1 DEF Rotated
    <2>2. lock[s] = p  BY <2>1 DEF IInv, WroteInv
    <2>3. PendingToken(s) = req[p].out[s].token  BY <1>1, <2>2 DEF PendingToken
    <2>4. req[p].out[s] \in RowOf  BY <2>1 DEF IInv, TypeOK, Requests, Versions
    <2>5. req[p].out[s].token \in Nat  BY <2>4 DEF RowOf
    <2> QED  BY <2>2, <2>3, <2>5
  <1>2. ASSUME \A p \in Reqs : s \notin Rotated(p)  PROVE PendingToken(s) = None
    BY <1>2 DEF PendingToken, IInv, TypeOK
  <1> QED  BY <1>1, <1>2

LEMMA PendingIsNext == IInv' => PendingHeld'
  BY PendingIs, PTL

\* A row that a request has not written, or deleted, or only patched, is not in
\* replacement by it.
LEMMA NotRotated ==
  ASSUME IInv, CredInv, NEW p \in Reqs, NEW s \in Ids, s \notin req[p].wrote \/ req[p].kind = "write"
  PROVE  s \notin Rotated(p)
  BY DEF Rotated, CredInv, WroteTokens

\* A row that stays, with the replacement of its token if there is one.
LEMMA QuietRow ==
  ASSUME IInv, IInv', NEW s \in Ids, rows'[s] = rows[s],
         \A p \in Reqs : /\ s \in Rotated(p) <=> (s \in Rotated(p))'
                         /\ s \in Rotated(p) => req'[p].out[s].token = req[p].out[s].token
  PROVE  StoredToken(s)' = StoredToken(s) /\ PendingToken(s)' = PendingToken(s)
  <1>1. StoredToken(s)' = StoredToken(s)  BY DEF StoredToken
  <1>2. \A p \in Reqs : s \in Rotated(p) <=> (s \in Rotated(p))'  OBVIOUS
  <1>3. CASE \E p \in Reqs : s \in Rotated(p)
    <2>1. PICK p \in Reqs : s \in Rotated(p)  BY <1>3
    <2>2. PendingToken(s) = req[p].out[s].token  BY <2>1, PendingIs DEF PendingHeld
    <2>3. (s \in Rotated(p))'  BY <1>2, <2>1
    <2>4. PendingToken(s)' = req'[p].out[s].token  BY <2>3, PendingIsNext DEF PendingHeld
    <2> QED  BY <1>1, <2>1, <2>2, <2>4
  <1>4. CASE ~ \E p \in Reqs : s \in Rotated(p)
    <2>1. PendingToken(s) = None  BY <1>4, PendingIs DEF PendingHeld
    <2>2. \A p \in Reqs : ~(s \in Rotated(p))'  BY <1>2, <1>4
    <2>3. PendingToken(s)' = None  BY <2>2, PendingIsNext DEF PendingHeld
    <2> QED  BY <1>1, <2>1, <2>3
  <1> QED  BY <1>3, <1>4

\* What a step may make of a request and of the tokens.
NewTokens(q) ==
    /\ \A s \in q.wrote : q.out[s] # None =>
          /\ rows'[s].token <= q.out[s].token /\ q.out[s].token <= issued'[s]
          /\ q.kind = "write" => q.out[s].token = rows'[s].token
    /\ \A s \in Ids : q.loaded[s] # None =>
          /\ issued'[s] > 0
          /\ rows'[s] # None =>
               q.loaded[s].token <= IF s \in q.wrote /\ q.out[s] # None THEN q.out[s].token
                                                                       ELSE rows'[s].token
Grow(r) ==
    /\ \A s \in Ids : issued'[s] >= issued[s]
    /\ \A s \in Ids : rows'[s] # rows[s] => lock[s] = r
    /\ \A s \in Ids : rows'[s] # None /\ rows'[s] # rows[s] =>
          rows[s] # None /\ rows'[s].token >= rows[s].token /\ rows'[s].token <= issued'[s]

\* The tokens are numbers.
LEMMA TokenTypes ==
  ASSUME IInv
  PROVE  /\ \A s \in Ids : issued[s] \in Nat /\ (rows[s] # None => rows[s].token \in Nat)
         /\ \A p \in Reqs : /\ req[p].wrote \subseteq Ids
                            /\ \A s \in Ids : req[p].loaded[s] # None => req[p].loaded[s].token \in Nat
                            /\ \A s \in Ids : req[p].out[s] # None => req[p].out[s].token \in Nat
  <1>1. rows \in Versions /\ issued \in [Ids -> Nat]  BY DEF IInv, TypeOK
  <1>2. ASSUME NEW p \in Reqs
        PROVE  req[p].wrote \subseteq Ids /\ req[p].loaded \in Versions /\ req[p].out \in Versions
    BY DEF IInv, TypeOK, Requests
  <1>3. \A f \in Versions : \A s \in Ids : f[s] # None => f[s].token \in Nat
    BY DEF Versions, RowOf
  <1> QED  BY <1>1, <1>2, <1>3

LEMMA CredMove ==
  ASSUME IInv, IInv', CredInv, NEW r \in Reqs, NEW q \in Requests, req' = [req EXCEPT ![r] = q],
         Prepared(q), NewTokens(q), Grow(r)
  PROVE  CredInv'
  <1>1. req'[r] = q /\ \A p \in Reqs : p # r => req'[p] = req[p]  BY DEF IInv, TypeOK
  <1>2. RowTokens'
    <2>1. ASSUME NEW s \in Ids, rows'[s] # None  PROVE rows'[s].token <= issued'[s]
      <3>1. CASE rows'[s] # rows[s]  BY <2>1, <3>1 DEF Grow
      <3>2. CASE rows'[s] = rows[s]
        <4>1. /\ rows[s].token <= issued[s] /\ issued'[s] >= issued[s]
              /\ rows[s].token \in Nat /\ issued[s] \in Nat
          BY <2>1, <3>2, TokenTypes DEF CredInv, RowTokens, Grow
        <4>2. issued'[s] \in Nat  BY DEF IInv, TypeOK
        <4> QED  BY <3>2, <4>1, <4>2
      <3> QED  BY <3>1, <3>2
    <2> QED  BY <2>1 DEF RowTokens
  <1>3. ASSUME NEW p \in Reqs, p # r  PROVE (Prepared(req[p]) /\ WroteTokens(req[p]) /\ LoadedTokens(req[p]))'
    <2>1. req'[p] = req[p]  BY <1>1, <1>3
    <2>2. Prepared(req[p])'  BY <2>1 DEF CredInv, Prepared
    <2>3. WroteTokens(req[p])'
      <3>1. ASSUME NEW s \in Ids, s \in req[p].wrote, req[p].out[s] # None
            PROVE  /\ rows'[s].token <= req[p].out[s].token /\ req[p].out[s].token <= issued'[s]
                   /\ req[p].kind = "write" => req[p].out[s].token = rows'[s].token
        <4>1. lock[s] = p  BY <3>1 DEF IInv, WroteInv
        <4>2. rows'[s] = rows[s]  BY <1>3, <4>1 DEF Grow
        <4>3. /\ rows[s].token <= req[p].out[s].token /\ req[p].out[s].token <= issued[s]
              /\ req[p].kind = "write" => req[p].out[s].token = rows[s].token
          BY <3>1 DEF CredInv, WroteTokens
        <4>4. issued[s] \in Nat  BY TokenTypes
        <4>5. issued'[s] \in Nat /\ issued'[s] >= issued[s]  BY <4>1 DEF IInv, TypeOK, Grow
        <4>6. req[p].out[s].token \in Nat  BY <3>1, TokenTypes
        <4> QED  BY <4>2, <4>3, <4>4, <4>5, <4>6
      <3>2. req[p].wrote \subseteq Ids  BY TokenTypes
      <3> QED  BY <2>1, <3>1, <3>2 DEF WroteTokens
    <2>4. LoadedTokens(req[p])'
      <3>1. ASSUME NEW s \in Ids, req[p].loaded[s] # None
            PROVE  issued'[s] > 0 /\ (rows'[s] # None => req[p].loaded[s].token <= SeenToken(req[p], s)')
        <4>1. issued[s] > 0 /\ (rows[s] # None => req[p].loaded[s].token <= SeenToken(req[p], s))
          BY <3>1 DEF CredInv, LoadedTokens
        <4>2. issued'[s] \in Nat /\ issued[s] \in Nat /\ issued'[s] >= issued[s] /\ req[p].loaded[s].token \in Nat
          BY <3>1, TokenTypes DEF IInv, TypeOK, Grow
        <4>3. ASSUME rows'[s] # None, rows'[s] # rows[s]
              PROVE  rows[s] # None /\ rows'[s].token >= rows[s].token
          BY <4>3 DEF Grow
        <4>4. rows[s] # None => rows[s].token \in Nat  BY TokenTypes
        <4>5. rows'[s] # None => rows'[s].token \in Nat
          <5>1. rows' \in Versions  BY DEF IInv, TypeOK
          <5> QED  BY <5>1 DEF Versions, RowOf
        <4>6. CASE s \in req[p].wrote /\ req[p].out[s] # None
          <5>1. SeenToken(req[p], s)' = req[p].out[s].token /\ SeenToken(req[p], s) = req[p].out[s].token
            BY <2>1, <4>6 DEF SeenToken
          <5>2. rows[s] # None  BY <4>6 DEF IInv, WroteInv
          <5> QED  BY <4>1, <4>2, <5>1, <5>2
        <4>7. CASE ~(s \in req[p].wrote /\ req[p].out[s] # None)
          <5>1. SeenToken(req[p], s)' = rows'[s].token /\ SeenToken(req[p], s) = rows[s].token
            BY <2>1, <4>7 DEF SeenToken
          <5> QED  BY <4>1, <4>2, <4>3, <4>4, <4>5, <5>1
        <4> QED  BY <4>6, <4>7
      <3> QED  BY <2>1, <3>1 DEF LoadedTokens
    <2> QED  BY <2>2, <2>3, <2>4
  <1>4. (Prepared(req[r]) /\ WroteTokens(req[r]) /\ LoadedTokens(req[r]))'
    BY <1>1 DEF Prepared, WroteTokens, LoadedTokens, SeenToken, NewTokens
  <1> QED  BY <1>2, <1>3, <1>4 DEF CredInv

\* A step that writes nothing: what the request wrote stays, what it loaded is what it
\* saw, if it did not let go of it.
LEMMA QuietMove ==
  ASSUME IInv, IInv', CredInv, NEW r \in Reqs, NEW q \in Requests, req' = [req EXCEPT ![r] = q],
         \/ q.kind = req[r].kind /\ q.wrote = req[r].wrote /\ q.out = req[r].out
         \/ req[r].wrote = {} /\ q.wrote = {},
         Prepared(q),
         \A s \in Ids : q.loaded[s] # None =>
            \/ q.loaded[s] = req[r].loaded[s]
            \/ rows[s] # None /\ q.loaded[s].token = SeenToken(req[r], s),
         rows' = rows, \A s \in Ids : issued'[s] >= issued[s]
  PROVE  /\ CredInv'
         /\ \A s \in Ids : StoredToken(s)' = StoredToken(s) /\ PendingToken(s)' = PendingToken(s)
  <1>1. req'[r] = q /\ \A p \in Reqs : p # r => req'[p] = req[p]  BY DEF IInv, TypeOK
  <1>2. \A s \in Ids : issued[s] \in Nat /\ issued'[s] \in Nat  BY DEF IInv, TypeOK
  <1>3. Grow(r)  BY DEF Grow
  <1>4. NewTokens(q)
    <2>1. ASSUME NEW s \in Ids, q.loaded[s] # None
          PROVE  /\ issued'[s] > 0
                 /\ rows'[s] # None =>
                      q.loaded[s].token <= IF s \in q.wrote /\ q.out[s] # None THEN q.out[s].token
                                                                              ELSE rows'[s].token
      <3>1. (IF s \in q.wrote /\ q.out[s] # None THEN q.out[s].token ELSE rows'[s].token)
               = SeenToken(req[r], s)
        BY Zenon DEF SeenToken
      <3>2. CASE q.loaded[s] = req[r].loaded[s]
        <4>1. issued[s] > 0 /\ (rows[s] # None => q.loaded[s].token <= SeenToken(req[r], s))
          BY <2>1, <3>2 DEF CredInv, LoadedTokens
        <4> QED  BY <1>2, <3>1, <4>1
      <3>3. CASE rows[s] # None /\ q.loaded[s].token = SeenToken(req[r], s)
        <4>1. issued[s] > 0  BY <3>3 DEF IInv, IssuedInv
        <4>2. SeenToken(req[r], s) \in Nat  BY <3>3, TokenTypes DEF SeenToken
        <4> QED  BY <1>2, <3>1, <3>3, <4>1, <4>2
      <3> QED  BY <2>1, <3>2, <3>3
    <2>2. ASSUME NEW s \in Ids, s \in q.wrote, q.out[s] # None
          PROVE  /\ rows'[s].token <= q.out[s].token /\ q.out[s].token <= issued'[s]
                 /\ q.kind = "write" => q.out[s].token = rows'[s].token
      <3>1. /\ rows[s].token <= q.out[s].token /\ q.out[s].token <= issued[s]
            /\ q.kind = "write" => q.out[s].token = rows[s].token
        BY <2>2 DEF CredInv, WroteTokens
      <3>2. q.out[s].token \in Nat  BY <2>2, TokenTypes
      <3> QED  BY <1>2, <3>1, <3>2
    <2>3. q.wrote \subseteq Ids  BY DEF Requests
    <2> QED  BY <2>1, <2>2, <2>3 DEF NewTokens
  <1>5. CredInv'  BY <1>3, <1>4, CredMove
  <1>6. ASSUME NEW s \in Ids
        PROVE  StoredToken(s)' = StoredToken(s) /\ PendingToken(s)' = PendingToken(s)
    <2>1. \A p \in Reqs : /\ s \in Rotated(p) <=> (s \in Rotated(p))'
                          /\ s \in Rotated(p) => req'[p].out[s].token = req[p].out[s].token
      BY <1>1 DEF Rotated
    <2> QED  BY <2>1, QuietRow
  <1> QED  BY <1>5, <1>6

\* If the provider did nothing either, the credentials stay as they are.
LEMMA QuietRefines ==
  ASSUME UNCHANGED <<issued, lost>>,
         \A s \in Ids : StoredToken(s)' = StoredToken(s) /\ PendingToken(s)' = PendingToken(s)
  PROVE  Refines
  BY DEF Refines, RC!vars

\* A request that goes on with its next operation has it to load, and a refresh has
\* only one.
LEMMA OnwardPrepared ==
  ASSUME IInv, CredInv, NEW r \in Reqs, req[r].step \in Busy, NEW q \in Requests,
         q.step = IF Len(req[r].todo) = 1 THEN "finish" ELSE "resolve", q.kind = req[r].kind
  PROVE  Prepared(q)
  <1>1. req[r].kind = "refresh" => Len(req[r].todo) = 1  BY DEF CredInv, Prepared
  <1> QED  BY <1>1 DEF Prepared

\* What a request that refreshes has loaded, and what it has to do.
LEMMA FirstPrepared ==
  ASSUME IInv, CredInv, NEW r \in Reqs, req[r].step \in Busy, req[r].kind # "write"
  PROVE  /\ req[r].kind = "refresh" => req[r].wrote = {} /\ Len(req[r].todo) = 1
         /\ req[r].step # "resolve" => req[r].loaded[Id(r)] # None
  BY DEF CredInv, Prepared, Id

LEMMA OnwardQuiet ==
  ASSUME IInv, IInv', CredInv, NEW r \in Reqs, req[r].step \in Busy,
         req' = [req EXCEPT ![r] = Onward(@)], rows' = rows, \A s \in Ids : issued'[s] >= issued[s]
  PROVE  /\ CredInv'
         /\ \A s \in Ids : StoredToken(s)' = StoredToken(s) /\ PendingToken(s)' = PendingToken(s)
  <1> DEFINE q == Onward(req[r])
  <1>1. req' = [req EXCEPT ![r] = q]  OBVIOUS
  <1>2. /\ q \in Requests /\ q.kind = req[r].kind
        /\ q.loaded = [req[r].loaded EXCEPT ![Id(r)] = None]
        /\ q.wrote = req[r].wrote /\ q.out = req[r].out
        /\ q.step = IF Len(req[r].todo) = 1 THEN "finish" ELSE "resolve"
    BY OnwardType
  <1> HIDE DEF q
  <1>3. Prepared(q)  BY <1>2, OnwardPrepared
  <1>4. \A s \in Ids : q.loaded[s] # None => q.loaded[s] = req[r].loaded[s]
    BY <1>2 DEF IInv, TypeOK, Requests, Versions
  <1>5. \/ q.kind = req[r].kind /\ q.wrote = req[r].wrote /\ q.out = req[r].out
        \/ req[r].wrote = {} /\ q.wrote = {}
    BY <1>2
  <1>6. \A s \in Ids : q.loaded[s] # None =>
            \/ q.loaded[s] = req[r].loaded[s]
            \/ rows[s] # None /\ q.loaded[s].token = SeenToken(req[r], s)
    BY <1>4
  <1>7. q \in Requests  BY <1>2
  <1> QED  BY <1>1, <1>3, <1>5, <1>6, <1>7, QuietMove

LEMMA OnwardCred ==
  ASSUME IInv, IInv', CredInv, NEW r \in Reqs, req[r].step \in Busy,
         req' = [req EXCEPT ![r] = Onward(@)], UNCHANGED <<rows, issued, lost>>
  PROVE  CredInv' /\ Refines
  <1>1. \A s \in Ids : issued'[s] >= issued[s]  BY DEF IInv, TypeOK
  <1>2. /\ CredInv'
        /\ \A s \in Ids : StoredToken(s)' = StoredToken(s) /\ PendingToken(s)' = PendingToken(s)
    BY <1>1, OnwardQuiet
  <1> QED  BY <1>2, QuietRefines

LEMMA WaitCred ==
  ASSUME IInv, IInv', CredInv, NEW r \in Reqs, req[r].step = "resolve",
         req' = [req EXCEPT ![r] = [req[r] EXCEPT !.step = "locking", !.loaded[Id(r)] = Load(r, Id(r))]],
         Load(r, Id(r)) # None, UNCHANGED <<rows, issued, lost>>
  PROVE  CredInv' /\ Refines
  <1> DEFINE row == Load(r, Id(r))
             q == [req[r] EXCEPT !.step = "locking", !.loaded[Id(r)] = row]
  <1>1. req[r] \in Requests /\ Id(r) \in Ids /\ row \in RowOf \union {None}
    BY FirstOp, LoadType DEF IInv, TypeOK
  <1>2. [req[r].loaded EXCEPT ![Id(r)] = row] \in Versions  BY <1>1 DEF Requests, Versions
  <1> HIDE DEF row
  <1>3. /\ q \in Requests /\ q.step = "locking" /\ q.kind = req[r].kind /\ q.todo = req[r].todo
        /\ q.wrote = req[r].wrote /\ q.out = req[r].out
        /\ q.loaded = [req[r].loaded EXCEPT ![Id(r)] = row]
    <2> HIDE DEF Kinds
    <2> QED  BY <1>1, <1>2 DEF Requests
  <1>4. req' = [req EXCEPT ![r] = q]  BY DEF row
  <1> HIDE DEF q
  <1>5. /\ q.loaded[Id(r)] = row
        /\ \A s \in Ids : s # Id(r) => q.loaded[s] = req[r].loaded[s]
    BY <1>1, <1>3 DEF Requests, Versions
  <1>6. Prepared(q)
    <2>1. q.loaded[Head(q.todo).id] # None  BY <1>3, <1>5 DEF Id, row
    <2> QED  BY <1>3, <2>1 DEF CredInv, Prepared
  <1>7. \/ row = req[r].loaded[Id(r)]
        \/ rows[Id(r)] # None /\ row.token = SeenToken(req[r], Id(r))
    <2>1. CASE row = req[r].loaded[Id(r)]  BY <2>1
    <2>2. CASE row = Visible(r, Id(r))
      <3>1. Visible(r, Id(r)) # None  BY <2>2 DEF row
      <3>2. rows[Id(r)] # None  BY <3>1 DEF Visible, IInv, WroteInv
      <3> QED  BY <2>2, <3>1, <3>2 DEF Visible, SeenToken
    <2> QED  BY <2>1, <2>2 DEF row, Load
  <1>8. \A s \in Ids : issued'[s] >= issued[s]  BY DEF IInv, TypeOK
  <1>9. \A s \in Ids : q.loaded[s] # None =>
            \/ q.loaded[s] = req[r].loaded[s]
            \/ rows[s] # None /\ q.loaded[s].token = SeenToken(req[r], s)
    BY <1>5, <1>7
  <1>10. /\ CredInv'
         /\ \A s \in Ids : StoredToken(s)' = StoredToken(s) /\ PendingToken(s)' = PendingToken(s)
    BY <1>3, <1>4, <1>6, <1>8, <1>9, QuietMove
  <1> QED  BY <1>10, QuietRefines

LEMMA AskingCred ==
  ASSUME IInv, IInv', CredInv, NEW r \in Reqs, req[r].step = "locking",
         req' = [req EXCEPT ![r] = [req[r] EXCEPT !.step = "asking"]], UNCHANGED <<rows, issued, lost>>
  PROVE  CredInv' /\ Refines
  <1> DEFINE q == [req[r] EXCEPT !.step = "asking"]
  <1>1. req[r] \in Requests  BY DEF IInv, TypeOK
  <1>2. /\ q \in Requests /\ q.step = "asking" /\ q.kind = req[r].kind /\ q.todo = req[r].todo
        /\ q.wrote = req[r].wrote /\ q.out = req[r].out /\ q.loaded = req[r].loaded
    <2> HIDE DEF Kinds
    <2> QED  BY <1>1 DEF Requests
  <1>3. req' = [req EXCEPT ![r] = q]  OBVIOUS
  <1> HIDE DEF q
  <1>4. Prepared(q)  BY <1>2 DEF CredInv, Prepared
  <1>5. \A s \in Ids : issued'[s] >= issued[s]  BY DEF IInv, TypeOK
  <1>6. /\ CredInv'
        /\ \A s \in Ids : StoredToken(s)' = StoredToken(s) /\ PendingToken(s)' = PendingToken(s)
    BY <1>2, <1>3, <1>4, <1>5, QuietMove
  <1> QED  BY <1>6, QuietRefines

LEMMA BeginCred ==
  ASSUME IInv, IInv', CredInv, NEW r \in Reqs, NEW kind \in Kinds, NEW todo \in Todos(kind),
         NEW loaded \in Versions, Begin(r, kind, todo, loaded),
         kind = "refresh" => Len(todo) = 1,
         \A s \in Ids : loaded[s] # None => loaded[s] = rows[s]
  PROVE  CredInv' /\ Refines
  <1> DEFINE q == [NoReq EXCEPT !.kind = kind, !.step = "resolve", !.todo = todo, !.loaded = loaded]
  <1>1. req' = [req EXCEPT ![r] = q] /\ req[r].step = "idle" /\ UNCHANGED <<rows, issued, lost>>
    BY DEF Begin
  <1>2. /\ q \in Requests /\ q.step = "resolve" /\ q.kind = kind /\ q.todo = todo /\ q.wrote = {}
        /\ q.loaded = loaded
    <2> HIDE DEF Kinds
    <2> QED  BY NoReqType, TodosType DEF Requests, NoReq
  <1> HIDE DEF q
  <1>3. Prepared(q)  BY <1>2 DEF Prepared
  <1>4. req[r].wrote = {}  BY <1>1 DEF CredInv, Prepared
  <1>5. /\ \A s \in Ids : issued'[s] >= issued[s]
        /\ \A s \in Ids : q.loaded[s] # None =>
              rows[s] # None /\ q.loaded[s].token = SeenToken(req[r], s)
    BY <1>1, <1>2, <1>4 DEF IInv, TypeOK, SeenToken
  <1>6. /\ CredInv'
        /\ \A s \in Ids : StoredToken(s)' = StoredToken(s) /\ PendingToken(s)' = PendingToken(s)
    BY <1>1, <1>2, <1>3, <1>4, <1>5, QuietMove
  <1> QED  BY <1>1, <1>6, QuietRefines

LEMMA StartCred == ASSUME IInv, IInv', CredInv, NEW r \in Reqs, Start(r)  PROVE CredInv' /\ Refines
  <1>1. ASSUME NEW ids \in Seq(Ids)  PROVE DOMAIN OpsOn(ids, "refresh") = DOMAIN ids
    BY DEF OpsOn
  <1>2. NoRows \in Versions /\ \A s \in Ids : NoRows[s] = None  BY NoReqType DEF NoRows
  <1>3. CASE ReadSecrets(r)
    <2>1. PICK ids \in Reads : Begin(r, "read", OpsOn(ids, "read"), NoRows)
      BY <1>3 DEF ReadSecrets
    <2> DEFINE todo == OpsOn(ids, "read")
    <2>2. todo \in Todos("read")  BY OpsOnType
    <2> HIDE DEF todo
    <2>3. Begin(r, "read", todo, NoRows)  BY <2>1 DEF todo
    <2> QED  BY <1>2, <2>2, <2>3, BeginCred
  <1>4. CASE SearchSecrets(r)
    <2> DEFINE found == {s \in Ids : rows[s] # None}
    <2>1. PICK ids \in [1 .. Cardinality(found) -> found] :
             Begin(r, "read", OpsOn(ids, "read"), rows)
      BY <1>4 DEF SearchSecrets
    <2>2. Cardinality(found) \in Nat
      <3>1. IsFiniteSet(Ids)  BY FS_Interval DEF Ids
      <3> QED  BY <3>1, FS_Subset, FS_CardinalityType
    <2>3. ids \in Seq(Ids)
      <3> HIDE DEF found
      <3>1. ids \in Seq(found)  BY <2>2
      <3> QED  BY <3>1, SeqMonotonic DEF found
    <2> DEFINE todo == OpsOn(ids, "read")
    <2>4. todo \in Todos("read")  BY <2>3, OpsOnType
    <2>5. rows \in Versions  BY DEF IInv, TypeOK
    <2> HIDE DEF todo
    <2>6. Begin(r, "read", todo, rows)  BY <2>1 DEF todo
    <2> QED  BY <2>4, <2>5, <2>6, BeginCred
  <1>5. CASE RefreshSession(r)
    <2>1. PICK s \in Ids : Begin(r, "refresh", OpsOn(<<s>>, "refresh"), NoRows)
      BY <1>5 DEF RefreshSession
    <2> DEFINE todo == OpsOn(<<s>>, "refresh")
    <2>2. <<s>> \in Seq(Ids) /\ DOMAIN <<s>> = 1 .. 1  OBVIOUS
    <2>3. todo \in Todos("refresh") /\ DOMAIN todo = 1 .. 1  BY <1>1, <2>2, OpsOnType
    <2>4. Len(todo) = 1
      <3> HIDE DEF todo
      <3> QED  BY <2>3, LenProperties DEF Todos
    <2> HIDE DEF todo
    <2>5. Begin(r, "refresh", todo, NoRows)  BY <2>1 DEF todo
    <2> QED  BY <1>2, <2>3, <2>4, <2>5, BeginCred
  <1>6. CASE WriteSessions(r)
    <2>1. PICK ops \in Writes : Begin(r, "write", ops, NoRows)  BY <1>6 DEF WriteSessions
    <2>2. ops \in Todos("write")  BY DEF Todos, Ops
    <2> QED  BY <1>2, <2>1, <2>2, BeginCred
  <1> QED  BY <1>3, <1>4, <1>5, <1>6 DEF Start

\* The record of a request that ended.
LEMMA EndedType ==
  ASSUME IInv, NEW r \in Reqs, NEW step \in Ended
  PROVE  LET q == EndedReq(r, step)
         IN  /\ q \in Requests /\ q.step = step /\ q.wrote = {} /\ Prepared(q)
             /\ \A s \in Ids : q.loaded[s] = None
  <1> DEFINE q == EndedReq(r, step)
  <1>1. req[r].kind \in Kinds \union {None}  BY DEF IInv, TypeOK, Requests
  <1>2. q \in Requests /\ q.step = step /\ q.wrote = {} /\ q.loaded = NoRows
    <2> HIDE DEF Kinds
    <2> QED  BY <1>1, NoReqType DEF EndedReq, Requests, NoReq
  <1> HIDE DEF q
  <1>3. Prepared(q)  BY <1>2 DEF Prepared
  <1>4. \A s \in Ids : q.loaded[s] = None  BY <1>2 DEF NoRows
  <1> QED  BY <1>2, <1>3, <1>4 DEF q

LEMMA UnansweredQuiet ==
  ASSUME IInv, IInv', CredInv, NEW r \in Reqs, req[r].step = "asking", Unanswered(r),
         rows' = rows, \A s \in Ids : issued'[s] >= issued[s]
  PROVE  /\ CredInv'
         /\ \A s \in Ids : StoredToken(s)' = StoredToken(s) /\ PendingToken(s)' = PendingToken(s)
  <1>1. CASE Op(r) = "refresh"
    <2> DEFINE q == EndedReq(r, "failed")
    <2>1. req' = [req EXCEPT ![r] = q]  BY <1>1 DEF Unanswered
    <2>2. q \in Requests /\ q.wrote = {} /\ Prepared(q) /\ \A s \in Ids : q.loaded[s] = None
      BY EndedType
    <2>3. req[r].kind # "write" /\ Op(r) \in Ops(req[r].kind) /\ req[r].kind \in Kinds
      BY FirstOp DEF IInv, AskInv, TodoInv
    <2>4. req[r].wrote = {}  BY <1>1, <2>3, FirstPrepared DEF Ops
    <2> HIDE DEF q
    <2> QED  BY <2>1, <2>2, <2>4, QuietMove
  <1>2. CASE Op(r) # "refresh"
    <2>1. req' = [req EXCEPT ![r] = Onward(@)]  BY <1>2 DEF Unanswered
    <2> QED  BY <2>1, OnwardQuiet
  <1> QED  BY <1>1, <1>2

\* While the provider is asked about a row with the last token it gave out, that is
\* the token under way to the row, if there is one, and otherwise the row's.
LEMMA AskedRow ==
  ASSUME IInv, CredInv, NEW r \in Reqs, req[r].step = "asking", req[r].loaded[Id(r)].token = issued[Id(r)]
  PROVE  /\ Id(r) \in Ids /\ rows[Id(r)] # None /\ lock[Id(r)] = r
         /\ StoredToken(Id(r)) = rows[Id(r)].token /\ StoredToken(Id(r)) # None
         /\ issued[Id(r)] = IF PendingToken(Id(r)) = None THEN StoredToken(Id(r)) ELSE PendingToken(Id(r))
         /\ rows[Id(r)].token \in Nat /\ rows[Id(r)].token <= issued[Id(r)]
         /\ PendingToken(Id(r)) = IF issued[Id(r)] = rows[Id(r)].token THEN None ELSE issued[Id(r)]
         /\ Visible(r, Id(r)) \in RowOf /\ Visible(r, Id(r)).token = issued[Id(r)]
  <1>1. PICK s \in Ids : s = Id(r)  BY FirstOp
  <1>2. /\ req[r].kind # "write" /\ lock[s] = r /\ rows[s] # None /\ req[r].loaded[s] # None
    BY <1>1, FirstPrepared DEF IInv, AskInv
  <1>3. rows[s].token \in Nat /\ issued[s] \in Nat /\ rows[s].token <= issued[s]
    BY <1>2, TokenTypes DEF CredInv, RowTokens
  <1>4. Visible(r, s) # None /\ Visible(r, s).token = SeenToken(req[r], s)
    BY <1>2 DEF Visible, SeenToken, IInv, WroteInv
  <1>5. SeenToken(req[r], s) = issued[s]
    <2>1. req[r].loaded[s].token <= SeenToken(req[r], s)  BY <1>2 DEF CredInv, LoadedTokens
    <2>2. SeenToken(req[r], s) <= issued[s] /\ SeenToken(req[r], s) \in Nat
      BY <1>3, TokenTypes DEF SeenToken, CredInv, WroteTokens
    <2> QED  BY <1>1, <1>3, <2>1, <2>2
  <1>6. StoredToken(s) = rows[s].token /\ StoredToken(s) # None  BY <1>2, <1>3 DEF StoredToken
  <1>7. s \in Rotated(r) <=> issued[s] # rows[s].token
    BY <1>2, <1>5 DEF Rotated, SeenToken
  <1>8. PendingToken(s) = IF issued[s] = rows[s].token THEN None ELSE issued[s]
    <2>1. lock[s] # None  BY <1>2
    <2>2. s \in Rotated(r) => req[r].out[s].token = issued[s]  BY <1>5 DEF Rotated, SeenToken
    <2> QED  BY <1>2, <1>7, <2>1, <2>2 DEF PendingToken
  <1>9. Visible(r, s) \in RowOf  BY <1>4, LoadType
  <1> QED  BY <1>1, <1>2, <1>3, <1>4, <1>5, <1>6, <1>8, <1>9

LEMMA AnswerIsLostCred ==
  ASSUME IInv, IInv', CredInv, NEW r \in Reqs, AnswerIsLost(r)  PROVE CredInv' /\ Refines
  <1> DEFINE s == Id(r)
  <1>1. /\ req[r].step = "asking" /\ Unanswered(r) /\ rows' = rows
        /\ issued' = [issued EXCEPT ![s] = issued[s] + 1] /\ lost' = lost \union {s}
        /\ req[r].loaded[s].token = issued[s]
    BY DEF AnswerIsLost
  <1>2. /\ s \in Ids /\ StoredToken(s) # None
        /\ issued[s] = IF PendingToken(s) = None THEN StoredToken(s) ELSE PendingToken(s)
    BY <1>1, AskedRow
  <1>3. /\ issued'[s] = issued[s] + 1 /\ \A t \in Ids : t # s => issued'[t] = issued[t]
        /\ \A t \in Ids : issued'[t] >= issued[t]
    BY <1>1, <1>2 DEF IInv, TypeOK
  <1>4. /\ CredInv'
        /\ \A t \in Ids : StoredToken(t)' = StoredToken(t) /\ PendingToken(t)' = PendingToken(t)
    BY <1>1, <1>3, UnansweredQuiet
  <1>5. ASSUME NEW t \in Ids  PROVE [RC(t)!Next]_(RC(t)!vars)
    <2>1. CASE t = s
      <3>1. RC(t)!Rotate
        <4> HIDE DEF s
        <4> QED  BY <1>1, <1>2, <1>3, <1>4, <2>1 DEF RC!Rotate
      <3> QED  BY <3>1 DEF RC!Next
    <2>2. CASE t # s
      <3> HIDE DEF s
      <3> QED  BY <1>1, <1>3, <1>4, <2>2 DEF RC!vars
    <2> QED  BY <2>1, <2>2
  <1> QED  BY <1>4, <1>5 DEF Refines

LEMMA ProviderFailsCred ==
  ASSUME IInv, IInv', CredInv, NEW r \in Reqs, ProviderFails(r)  PROVE CredInv' /\ Refines
  <1>1. /\ req[r].step = "asking" /\ Unanswered(r) /\ UNCHANGED <<rows, issued, lost>>
        /\ \A s \in Ids : issued'[s] >= issued[s]
    BY DEF ProviderFails, IInv, TypeOK
  <1>2. /\ CredInv'
        /\ \A t \in Ids : StoredToken(t)' = StoredToken(t) /\ PendingToken(t)' = PendingToken(t)
    BY <1>1, UnansweredQuiet
  <1> QED  BY <1>1, <1>2, QuietRefines

\* A request that is rolled back drops the tokens that it was given.
LEMMA AbandonCred ==
  ASSUME IInv, IInv', CredInv, NEW r \in Reqs, NEW step \in Ended, Abandon(r, step), issued' = issued
  PROVE  CredInv' /\ Refines
  <1> DEFINE q == EndedReq(r, step)
  <1>1. q \in Requests /\ q.wrote = {} /\ Prepared(q) /\ \A s \in Ids : q.loaded[s] = None
    BY EndedType
  <1>2. /\ req' = [req EXCEPT ![r] = q] /\ rows' = rows /\ lost' = lost \union Rotated(r)
    BY DEF Abandon
  <1> HIDE DEF q
  <1>3. req'[r] = q /\ \A p \in Reqs : p # r => req'[p] = req[p]  BY <1>2 DEF IInv, TypeOK
  <1>4. NewTokens(q) /\ Grow(r)
    <2>1. \A s \in Ids : issued[s] \in Nat  BY TokenTypes
    <2> QED  BY <1>1, <1>2, <2>1 DEF NewTokens, Grow
  <1>5. CredInv'  BY <1>1, <1>2, <1>4, CredMove
  <1>6. ASSUME NEW s \in Ids  PROVE [RC(s)!Next]_(RC(s)!vars)
    <2>1. ~(s \in Rotated(r))'  BY <1>1, <1>3 DEF Rotated
    <2>2. \A p \in Reqs : p # r =>
             /\ s \in Rotated(p) <=> (s \in Rotated(p))'
             /\ s \in Rotated(p) => req'[p].out[s].token = req[p].out[s].token
      BY <1>2, <1>3 DEF Rotated
    <2>3. CASE s \in Rotated(r)
      <3>1. lock[s] = r /\ PendingToken(s) \in Nat  BY <2>3, PendingIs DEF PendingHeld
      <3>2. \A p \in Reqs : ~(s \in Rotated(p))'
        BY <2>1, <2>2, <3>1, PendingIs DEF PendingHeld
      <3>3. PendingToken(s)' = None  BY <3>2, PendingIsNext DEF PendingHeld
      <3>4. StoredToken(s)' = StoredToken(s)  BY <1>2 DEF StoredToken
      <3>5. RC(s)!Drop  BY <1>2, <2>3, <3>1, <3>3, <3>4 DEF RC!Drop
      <3> QED  BY <3>5 DEF RC!Next
    <2>4. CASE s \notin Rotated(r)
      <3>1. \A p \in Reqs : /\ s \in Rotated(p) <=> (s \in Rotated(p))'
                            /\ s \in Rotated(p) => req'[p].out[s].token = req[p].out[s].token
        BY <2>1, <2>2, <2>4
      <3>2. StoredToken(s)' = StoredToken(s) /\ PendingToken(s)' = PendingToken(s)
        BY <1>2, <3>1, QuietRow
      <3> QED  BY <1>2, <2>4, <3>2 DEF RC!vars
    <2> QED  BY <2>3, <2>4
  <1> QED  BY <1>5, <1>6 DEF Refines

\* A statement that writes a row puts its token on the way, if it is another one.
LEMMA WriteMove ==
  ASSUME IInv, IInv', CredInv, NEW r \in Reqs, req[r].step \in Busy, NEW s \in Ids, s = Id(r),
         NEW row \in RowOf \union {None},
         Write(r, row), lock[s] \in {None, r}, rows[s] # None, rows' = rows, lost' = lost,
         \A t \in Ids : issued'[t] >= issued[t], \A t \in Ids : t # s => issued'[t] = issued[t],
         row # None => /\ rows[s].token <= row.token /\ row.token <= issued'[s]
                       /\ req[r].kind = "write" => row.token = rows[s].token
  PROVE  /\ CredInv' /\ \A t \in Ids : t # s => UNCHANGED RC(t)!vars
         /\ StoredToken(s)' = StoredToken(s)
         /\ PendingToken(s)' = IF row # None /\ row.token # rows[s].token THEN row.token ELSE None
  <1>1. PICK q \in Requests :
            /\ req' = [req EXCEPT ![r] = q]
            /\ q.kind = req[r].kind /\ q.wrote = req[r].wrote \union {s}
            /\ q.out = [req[r].out EXCEPT ![s] = row]
            /\ q.loaded = [req[r].loaded EXCEPT ![s] = None]
            /\ q.step = IF Len(req[r].todo) = 1 THEN "finish" ELSE "resolve"
    BY WriteType
  <1>2. req[r].wrote \subseteq Ids /\ req[r].out \in Versions /\ req[r].loaded \in Versions
    BY DEF IInv, TypeOK, Requests
  <1>3. /\ q.out[s] = row /\ \A t \in Ids : t # s => q.out[t] = req[r].out[t]
        /\ q.loaded[s] = None /\ \A t \in Ids : t # s => q.loaded[t] = req[r].loaded[t]
    BY <1>1, <1>2 DEF Versions
  <1>4. req'[r] = q /\ \A p \in Reqs : p # r => req'[p] = req[p]  BY <1>1 DEF IInv, TypeOK
  <1>5. Prepared(q)  BY <1>1, OnwardPrepared
  <1>6. Grow(r)  BY DEF Grow
  <1>7. NewTokens(q)
    <2>1. ASSUME NEW t \in Ids, t \in q.wrote, q.out[t] # None
          PROVE  /\ rows'[t].token <= q.out[t].token /\ q.out[t].token <= issued'[t]
                 /\ q.kind = "write" => q.out[t].token = rows'[t].token
      <3>1. CASE t = s  BY <1>1, <1>3, <2>1, <3>1
      <3>2. CASE t # s
        <4>1. /\ rows[t].token <= q.out[t].token /\ q.out[t].token <= issued[t]
              /\ q.kind = "write" => q.out[t].token = rows[t].token
          BY <1>1, <1>3, <2>1, <3>2 DEF CredInv, WroteTokens
        <4> QED  BY <3>2, <4>1
      <3> QED  BY <3>1, <3>2
    <2>2. ASSUME NEW t \in Ids, q.loaded[t] # None
          PROVE  /\ issued'[t] > 0
                 /\ rows'[t] # None =>
                      q.loaded[t].token <= IF t \in q.wrote /\ q.out[t] # None THEN q.out[t].token
                                                                              ELSE rows'[t].token
      <3>1. t # s /\ q.loaded[t] = req[r].loaded[t] /\ q.out[t] = req[r].out[t]  BY <1>3, <2>2
      <3>2. issued[t] > 0 /\ (rows[t] # None => q.loaded[t].token <= SeenToken(req[r], t))
        BY <2>2, <3>1 DEF CredInv, LoadedTokens
      <3>3. (IF t \in q.wrote /\ q.out[t] # None THEN q.out[t].token ELSE rows'[t].token)
               = SeenToken(req[r], t)
        BY <1>1, <3>1 DEF SeenToken
      <3>4. issued'[t] = issued[t]  BY <3>1
      <3> QED  BY <3>2, <3>3, <3>4
    <2>3. q.wrote \subseteq Ids  BY <1>1, <1>2
    <2> QED  BY <2>1, <2>2, <2>3 DEF NewTokens
  <1>8. CredInv'  BY <1>1, <1>5, <1>6, <1>7, CredMove
  <1>9. ASSUME NEW t \in Ids, t # s  PROVE UNCHANGED RC(t)!vars
    <2>1. \A p \in Reqs : /\ t \in Rotated(p) <=> (t \in Rotated(p))'
                          /\ t \in Rotated(p) => req'[p].out[t].token = req[p].out[t].token
      <3>1. \A p \in Reqs : p # r => /\ t \in Rotated(p) <=> (t \in Rotated(p))'
                                     /\ req'[p].out[t].token = req[p].out[t].token
        BY <1>4 DEF Rotated
      <3>2. t \in q.wrote <=> t \in req[r].wrote  BY <1>1, <1>9
      <3>3. q.out[t] = req[r].out[t]  BY <1>3, <1>9
      <3>4. t \in Rotated(r) <=> (t \in Rotated(r))'  BY <1>4, <3>2, <3>3 DEF Rotated
      <3> QED  BY <1>4, <3>1, <3>3, <3>4
    <2>2. StoredToken(t)' = StoredToken(t) /\ PendingToken(t)' = PendingToken(t)
      BY <2>1, QuietRow
    <2> QED  BY <1>9, <2>2 DEF RC!vars
  <1>10. StoredToken(s)' = StoredToken(s)  BY DEF StoredToken
  <1>11. (s \in Rotated(r))' <=> row # None /\ row.token # rows[s].token
    BY <1>1, <1>3, <1>4 DEF Rotated
  <1>12. ASSUME NEW p \in Reqs, p # r  PROVE ~(s \in Rotated(p))'
    <2>1. s \notin Rotated(p)  BY <1>2, <1>12, PendingIs DEF PendingHeld
    <2> QED  BY <1>4, <1>12, <2>1 DEF Rotated
  <1>13. CASE row # None /\ row.token # rows[s].token
    <2>1. PendingToken(s)' = req'[r].out[s].token
      BY <1>2, <1>11, <1>13, PendingIsNext DEF PendingHeld
    <2> QED  BY <1>3, <1>4, <1>8, <1>9, <1>10, <1>13, <2>1
  <1>14. CASE ~(row # None /\ row.token # rows[s].token)
    <2>1. \A p \in Reqs : ~(s \in Rotated(p))'  BY <1>11, <1>12, <1>14
    <2>2. PendingToken(s)' = None  BY <1>2, <2>1, PendingIsNext DEF PendingHeld
    <2> QED  BY <1>8, <1>9, <1>10, <1>14, <2>2
  <1> QED  BY <1>13, <1>14

\* A batch write changes no token.
LEMMA BatchWriteCred ==
  ASSUME IInv, IInv', CredInv, NEW r \in Reqs, req[r].step = "locking", NEW row \in RowOf \union {None},
         Write(r, row), lock[Id(r)] \in {None, r}, rows[Id(r)] # None, UNCHANGED <<rows, issued, lost>>,
         req[r].kind = "write", row # None => row.token = rows[Id(r)].token
  PROVE  CredInv' /\ Refines
  <1>1. PICK s \in Ids : s = Id(r)  BY FirstOp
  <1>2. /\ \A t \in Ids : issued[t] \in Nat /\ issued'[t] >= issued[t]
        /\ rows[s].token \in Nat /\ rows[s].token <= issued'[s]
    BY <1>1, TokenTypes DEF CredInv, RowTokens
  <1>3. /\ CredInv' /\ \A t \in Ids : t # s => UNCHANGED RC(t)!vars
        /\ StoredToken(s)' = StoredToken(s)
        /\ PendingToken(s)' = IF row # None /\ row.token # rows[s].token THEN row.token ELSE None
    BY <1>1, <1>2, WriteMove
  <1>4. PendingToken(s) = None
    <2>1. ASSUME NEW p \in Reqs  PROVE s \notin Rotated(p)
      BY <1>1, <2>1, PendingIs, NotRotated DEF PendingHeld
    <2> QED  BY <1>1, <2>1, PendingIs DEF PendingHeld
  <1>5. UNCHANGED RC(s)!vars  BY <1>1, <1>3, <1>4 DEF RC!vars
  <1> QED  BY <1>3, <1>5 DEF Refines

LEMMA ResolveReadCred ==
  ASSUME IInv, IInv', CredInv, NEW r \in Reqs, ResolveRead(r)  PROVE CredInv' /\ Refines
  <1> DEFINE row == Load(r, Id(r))
             q == [req[r] EXCEPT !.step = "locking", !.loaded[Id(r)] = row]
  <1>1. req[r].step = "resolve" /\ Op(r) = "read" /\ UNCHANGED <<rows, issued, lost>>
    BY DEF ResolveRead
  <1>2. \/ req' = [req EXCEPT ![r] = q] /\ rows[Id(r)] # None
        \/ req' = [req EXCEPT ![r] = Onward(@)]
    BY Zenon DEF ResolveRead
  <1>3. CASE req' = [req EXCEPT ![r] = q] /\ rows[Id(r)] # None
    <2>1. req[r].kind # "write"  BY <1>1, OpKind DEF WriteOp
    <2>2. row # None  BY <1>3, <2>1 DEF Load, Visible, IInv, WroteInv
    <2> QED  BY <1>1, <1>3, <2>2, WaitCred
  <1>4. CASE req' = [req EXCEPT ![r] = Onward(@)]  BY <1>1, <1>4, OnwardCred
  <1> QED  BY <1>2, <1>3, <1>4

LEMMA ResolveCred ==
  ASSUME IInv, IInv', CredInv, NEW r \in Reqs, Resolve(r)  PROVE CredInv' /\ Refines
  <1> DEFINE row == Load(r, Id(r))
             q == [req[r] EXCEPT !.step = "locking", !.loaded[Id(r)] = row]
  <1>1. req[r].step = "resolve" /\ issued' = issued  BY DEF Resolve
  <1>2. \/ Abandon(r, "failed")
        \/ /\ Visible(r, Id(r)) # None /\ UNCHANGED <<rows, lost>>
           /\ \/ req' = [req EXCEPT ![r] = q]
              \/ req' = [req EXCEPT ![r] = Onward(@)]
    BY Zenon DEF Resolve
  <1>3. CASE Visible(r, Id(r)) # None /\ UNCHANGED <<rows, lost>> /\ req' = [req EXCEPT ![r] = q]
    <2>1. row # None  BY <1>3 DEF Load
    <2> QED  BY <1>1, <1>3, <2>1, WaitCred
  <1>4. CASE UNCHANGED <<rows, lost>> /\ req' = [req EXCEPT ![r] = Onward(@)]
    BY <1>1, <1>4, OnwardCred
  <1>5. CASE Abandon(r, "failed")  BY <1>1, <1>5, AbandonCred
  <1> QED  BY <1>2, <1>3, <1>4, <1>5

LEMMA LockForRefreshCred ==
  ASSUME IInv, IInv', CredInv, NEW r \in Reqs, LockForRefresh(r)  PROVE CredInv' /\ Refines
  <1>1. req[r].step = "locking" /\ issued' = issued  BY DEF LockForRefresh, MayLock
  <1>2. \/ Take(r, [req[r] EXCEPT !.step = "asking"]) /\ UNCHANGED <<rows, lost>>
        \/ Abandon(r, "failed")
        \/ req' = [req EXCEPT ![r] = Onward(@)] /\ UNCHANGED <<rows, lost>>
    BY DEF LockForRefresh
  <1>3. CASE Take(r, [req[r] EXCEPT !.step = "asking"]) /\ UNCHANGED <<rows, lost>>
    BY <1>1, <1>3, AskingCred DEF Take
  <1>4. CASE Abandon(r, "failed")  BY <1>1, <1>4, AbandonCred
  <1>5. CASE req' = [req EXCEPT ![r] = Onward(@)] /\ UNCHANGED <<rows, lost>>
    BY <1>1, <1>5, OnwardCred
  <1> QED  BY <1>2, <1>3, <1>4, <1>5

LEMMA PatchCred == ASSUME IInv, IInv', CredInv, NEW r \in Reqs, Patch(r)  PROVE CredInv' /\ Refines
  <1>1. PICK s \in Ids : s = Id(r)  BY FirstOp DEF Patch, MayLock
  <1>2. /\ req[r].step = "locking" /\ lock[s] \in {None, r} /\ Op(r) \in {"enable", "disable"}
        /\ issued' = issued
    BY <1>1 DEF Patch, MayLock
  <1>3. req[r].kind = "write"  BY <1>2, OpKind DEF WriteOp
  <1>4. CASE rows[s] = None  BY <1>1, <1>2, <1>4, AbandonCred DEF Patch
  <1>5. CASE rows[s] # None
    <2> DEFINE row == [Visible(r, s) EXCEPT !.enabled = (Op(r) = "enable")]
    <2>1. Write(r, row) /\ UNCHANGED <<rows, lost>>  BY <1>1, <1>5 DEF Patch
    <2>2. Visible(r, s) \in RowOf /\ Visible(r, s).token = rows[s].token
      <3>1. s \in req[r].wrote => req[r].out[s] # None  BY <1>1, <1>2, <1>3 DEF IInv, AskInv
      <3>2. s \in req[r].wrote => req[r].out[s].token = rows[s].token
        BY <1>3, <3>1 DEF CredInv, WroteTokens
      <3> QED  BY <1>5, <3>1, <3>2, LoadType DEF Visible
    <2>3. row \in RowOf /\ row.token = rows[s].token  BY <2>2 DEF RowOf
    <2> HIDE DEF row
    <2> QED  BY <1>1, <1>2, <1>3, <1>5, <2>1, <2>3, BatchWriteCred
  <1> QED  BY <1>4, <1>5

LEMMA DeleteCred == ASSUME IInv, IInv', CredInv, NEW r \in Reqs, Delete(r)  PROVE CredInv' /\ Refines
  <1>1. /\ req[r].step = "locking" /\ lock[Id(r)] \in {None, r} /\ Op(r) = "delete"
        /\ UNCHANGED <<rows, issued, lost>>
    BY DEF Delete, MayLock
  <1>2. req[r].kind = "write"  BY <1>1, OpKind DEF WriteOp
  <1>3. CASE rows[Id(r)] = None  BY <1>1, <1>3, OnwardCred DEF Delete
  <1>4. CASE rows[Id(r)] # None
    <2>1. Write(r, None)  BY <1>4 DEF Delete
    <2> QED  BY <1>1, <1>2, <1>4, <2>1, BatchWriteCred
  <1> QED  BY <1>3, <1>4

\* The answer replaces the token, or not.
LEMMA ProviderAnswersCred ==
  ASSUME IInv, IInv', CredInv, NEW r \in Reqs, ProviderAnswers(r)  PROVE CredInv' /\ Refines
  <1>1. PICK s \in Ids : s = Id(r)  BY FirstOp DEF ProviderAnswers
  <1>2. req[r].step = "asking" /\ req[r].loaded[s].token = issued[s] /\ UNCHANGED <<rows, lost>>
    BY <1>1 DEF ProviderAnswers
  <1>3. PICK rotates \in BOOLEAN, life \in AccessLife, rlife \in RefreshLife :
           LET token == IF rotates THEN issued[s] + 1 ELSE issued[s]
               until == IF rlife = None THEN Visible(r, s).until ELSE RefreshExpiry(rlife)
           IN  /\ issued' = [issued EXCEPT ![s] = token]
               /\ Write(r, [Visible(r, s) EXCEPT !.token = token, !.until = until,
                                                  !.access = Expiry(life)])
    BY <1>1 DEF ProviderAnswers
  <1> DEFINE token == IF rotates THEN issued[s] + 1 ELSE issued[s]
             until == IF rlife = None THEN Visible(r, s).until ELSE RefreshExpiry(rlife)
             row   == [Visible(r, s) EXCEPT !.token = token, !.until = until, !.access = Expiry(life)]
  <1>4. /\ rows[s] # None /\ lock[s] = r /\ StoredToken(s) # None
        /\ issued[s] = IF PendingToken(s) = None THEN StoredToken(s) ELSE PendingToken(s)
        /\ PendingToken(s) = IF issued[s] = rows[s].token THEN None ELSE issued[s]
    BY <1>1, <1>2, AskedRow
  <1>5. /\ Visible(r, s) \in RowOf /\ issued[s] \in Nat /\ now \in Nat
        /\ rows[s].token \in Nat /\ rows[s].token <= issued[s]
    BY <1>1, <1>2, AskedRow, TokenTypes DEF IInv, TypeOK
  <1>6. token \in Nat /\ token >= issued[s] /\ (rotates => token = issued[s] + 1)
        /\ (~rotates => token = issued[s])
    BY <1>5
  <1>7. Expiry(life) \in Nat /\ until \in Nat \union {None}
    BY <1>5 DEF Expiry, RefreshExpiry, Less, RowOf
  <1>8. Write(r, row) /\ issued' = [issued EXCEPT ![s] = token]  BY <1>3
  <1> HIDE DEF token, until
  <1>9. row \in RowOf /\ row.token = token  BY <1>5, <1>6, <1>7 DEF RowOf
  <1> HIDE DEF row
  <1>10. /\ issued'[s] = token /\ \A t \in Ids : t # s => issued'[t] = issued[t]
         /\ \A t \in Ids : issued'[t] >= issued[t]
    BY <1>6, <1>8 DEF IInv, TypeOK
  <1>11. req[r].kind # "write"  BY <1>2 DEF IInv, AskInv
  <1>12. row # None /\ rows[s].token <= row.token /\ row.token <= issued'[s]
    BY <1>5, <1>6, <1>9, <1>10
  <1>13. /\ CredInv' /\ \A t \in Ids : t # s => UNCHANGED RC(t)!vars
         /\ StoredToken(s)' = StoredToken(s)
         /\ PendingToken(s)' = IF row # None /\ row.token # rows[s].token THEN row.token ELSE None
    BY <1>1, <1>2, <1>4, <1>8, <1>9, <1>10, <1>11, <1>12, WriteMove
  <1>14. CASE rotates
    <2>1. PendingToken(s)' = issued[s] + 1 /\ issued'[s] = issued[s] + 1
      BY <1>5, <1>6, <1>9, <1>10, <1>12, <1>13, <1>14
    <2>2. RC(s)!Rotate  BY <1>2, <1>4, <1>13, <2>1 DEF RC!Rotate
    <2> QED  BY <1>13, <2>2 DEF Refines, RC!Next
  <1>15. CASE ~rotates
    <2>1. PendingToken(s)' = PendingToken(s) /\ issued'[s] = issued[s]
      BY <1>4, <1>5, <1>6, <1>9, <1>10, <1>12, <1>13, <1>15
    <2>2. UNCHANGED RC(s)!vars  BY <1>2, <1>4, <1>13, <2>1 DEF RC!vars
    <2> QED  BY <1>13, <2>2 DEF Refines
  <1> QED  BY <1>14, <1>15

\* The end of a request that commits: what it wrote is stored whole, a row it deleted
\* was not in replacement.
LEMMA FinishCred == ASSUME IInv, IInv', CredInv, NEW r \in Reqs, Finish(r)  PROVE CredInv' /\ Refines
  <1>1. UNCHANGED <<now, issued>>  BY DEF Finish
  <1>2. CASE req[r].kind = "read"  BY <1>1, <1>2, AbandonCred DEF Finish
  <1>3. CASE req[r].kind # "read"
    <2> DEFINE q == EndedReq(r, "ok")
    <2>1. /\ rows' = [s \in Ids |-> Visible(r, s)] /\ lost' = lost
          /\ req' = [req EXCEPT ![r] = q]
      BY <1>3 DEF Finish
    <2>2. q \in Requests /\ q.wrote = {} /\ Prepared(q) /\ \A s \in Ids : q.loaded[s] = None
      BY EndedType
    <2> HIDE DEF q
    <2>3. req'[r] = q /\ \A p \in Reqs : p # r => req'[p] = req[p]  BY <2>1 DEF IInv, TypeOK
    <2>4. \A s \in Ids : rows'[s] = IF s \in req[r].wrote THEN req[r].out[s] ELSE rows[s]
      BY <2>1 DEF Visible
    <2>5. \A s \in req[r].wrote : /\ s \in Ids /\ lock[s] = r /\ rows[s] # None
                                  /\ \A p \in Reqs : p # r => s \notin req[p].wrote
      BY TokenTypes DEF IInv, WroteInv
    <2>6. NewTokens(q) /\ Grow(r)
      <3>1. \A s \in Ids : issued'[s] >= issued[s]  BY <1>1, TokenTypes
      <3>2. \A s \in Ids : rows'[s] # rows[s] => s \in req[r].wrote  BY <2>4
      <3>3. ASSUME NEW s \in Ids, rows'[s] # None, rows'[s] # rows[s]
            PROVE  rows[s] # None /\ rows'[s].token >= rows[s].token /\ rows'[s].token <= issued'[s]
        <4>1. s \in req[r].wrote /\ rows'[s] = req[r].out[s]  BY <2>4, <3>3
        <4>2. rows[s].token <= req[r].out[s].token /\ req[r].out[s].token <= issued[s]
          BY <3>3, <4>1 DEF CredInv, WroteTokens
        <4>3. rows[s].token \in Nat /\ req[r].out[s].token \in Nat
          BY <2>5, <3>3, <4>1, TokenTypes
        <4> QED  BY <1>1, <2>5, <4>1, <4>2, <4>3
      <3>4. Grow(r)  BY <2>5, <3>1, <3>2, <3>3 DEF Grow
      <3> QED  BY <2>2, <3>4 DEF NewTokens
    <2>7. CredInv'  BY <2>1, <2>2, <2>6, CredMove
    <2>8. ASSUME NEW s \in Ids  PROVE [RC(s)!Next]_(RC(s)!vars)
      <3>1. ~(s \in Rotated(r))'  BY <2>2, <2>3 DEF Rotated
      <3>2. CASE s \notin req[r].wrote
        <4>1. rows'[s] = rows[s]  BY <2>4, <3>2
        <4>2. \A p \in Reqs : /\ s \in Rotated(p) <=> (s \in Rotated(p))'
                              /\ s \in Rotated(p) => req'[p].out[s].token = req[p].out[s].token
          BY <2>3, <3>1, <3>2, <4>1 DEF Rotated
        <4>3. StoredToken(s)' = StoredToken(s) /\ PendingToken(s)' = PendingToken(s)
          BY <4>1, <4>2, QuietRow
        <4> QED  BY <1>1, <2>1, <4>3 DEF RC!vars
      <3>3. CASE s \in req[r].wrote
        <4>1. \A p \in Reqs : ~(s \in Rotated(p))'  BY <2>3, <2>5, <3>1, <3>3 DEF Rotated
        <4>2. PendingToken(s)' = None  BY <4>1, PendingIsNext DEF PendingHeld
        <4>3. /\ lock[s] = r /\ rows[s] # None /\ rows'[s] = req[r].out[s]
              /\ rows[s].token \in Nat
          BY <2>4, <2>5, <3>3, TokenTypes
        <4>4. StoredToken(s) = rows[s].token /\ StoredToken(s) # None  BY <4>3 DEF StoredToken
        <4>5. StoredToken(s)' = IF req[r].out[s] = None THEN None ELSE req[r].out[s].token
          BY <4>3 DEF StoredToken
        <4>6. PendingToken(s) = IF s \in Rotated(r) THEN req[r].out[s].token ELSE None
          BY <4>3 DEF PendingToken
        <4>7. CASE req[r].out[s] = None
          <5>1. RC(s)!Forget  BY <1>1, <2>1, <4>2, <4>4, <4>5, <4>6, <4>7 DEF RC!Forget, Rotated
          <5> QED  BY <5>1 DEF RC!Next
        <4>8. CASE s \in Rotated(r)
          <5>1. req[r].out[s] # None  BY <4>8 DEF Rotated
          <5>2. req[r].out[s].token \in Nat  BY <5>1, TokenTypes
          <5>3. RC(s)!Store  BY <1>1, <2>1, <4>2, <4>5, <4>6, <4>8, <5>1, <5>2 DEF RC!Store
          <5> QED  BY <5>3 DEF RC!Next
        <4>9. CASE req[r].out[s] # None /\ s \notin Rotated(r)
          <5>1. req[r].out[s].token = rows[s].token  BY <3>3, <4>3, <4>9 DEF Rotated
          <5> QED  BY <1>1, <2>1, <4>2, <4>4, <4>5, <4>6, <4>9, <5>1 DEF RC!vars
        <4> QED  BY <4>7, <4>8, <4>9
      <3> QED  BY <3>2, <3>3
    <2> QED  BY <2>7, <2>8 DEF Refines
  <1> QED  BY <1>2, <1>3

LEMMA ProceedCred == ASSUME IInv, IInv', CredInv, NEW r \in Reqs, Proceed(r)  PROVE CredInv' /\ Refines
  <1>1. CASE DeadlockDetected(r)
    <2>1. Abandon(r, "error") /\ issued' = issued  BY <1>1 DEF DeadlockDetected
    <2> QED  BY <2>1, AbandonCred
  <1>2. CASE LockTimeout(r)
    <2>1. PICK step \in Ended : Abandon(r, step)  BY <1>2, Zenon DEF LockTimeout, Ended
    <2>2. issued' = issued  BY <1>2 DEF LockTimeout
    <2> QED  BY <2>1, <2>2, AbandonCred
  <1> QED  BY <1>1, <1>2, ResolveReadCred, ResolveCred, LockForRefreshCred, PatchCred, DeleteCred,
              ProviderAnswersCred, ProviderFailsCred, AnswerIsLostCred, FinishCred DEF Proceed

\* The callback stores the first token of a session that nobody has loaded or written.
LEMMA CallbackCred == ASSUME IInv, IInv', CredInv, NEW s \in Ids, Callback(s)  PROVE CredInv' /\ Refines
  <1>1. PICK life \in AccessLife, rlife \in RefreshLife :
           rows' = [rows EXCEPT ![s] = [token |-> 1, until |-> RefreshExpiry(rlife),
                                        access |-> Expiry(life), enabled |-> TRUE]]
    BY DEF Callback
  <1>2. issued[s] = 0 /\ issued' = [issued EXCEPT ![s] = 1] /\ UNCHANGED <<now, lock, req, lost>>
    BY DEF Callback
  <1>3. issued'[s] = 1 /\ \A t \in Ids : t # s => issued'[t] = issued[t]  BY <1>2 DEF IInv, TypeOK
  <1>4. rows'[s].token = 1 /\ \A t \in Ids : t # s => rows'[t] = rows[t]
    BY <1>1 DEF IInv, TypeOK, Versions
  <1>5. rows[s] = None /\ rows'[s] # None
    <2>1. issued[s] \in Nat  BY TokenTypes
    <2>2. rows[s] = None  BY <1>2, <2>1 DEF IInv, IssuedInv
    <2>3. rows'[s] = [token |-> 1, until |-> RefreshExpiry(rlife), access |-> Expiry(life), enabled |-> TRUE]
      BY <1>1 DEF IInv, TypeOK, Versions
    <2>4. now \in Nat  BY DEF IInv, TypeOK
    <2>5. Expiry(life) \in Nat /\ RefreshExpiry(rlife) \in Nat \union {None}
      BY <2>4 DEF Expiry, RefreshExpiry, Less
    <2>6. rows'[s] \in RowOf  BY <2>3, <2>5 DEF RowOf
    <2> QED  BY <2>2, <2>6
  <1>6. \A p \in Reqs : s \notin req[p].wrote /\ req[p].loaded[s] = None
    BY <1>2, <1>5 DEF IInv, WroteInv, CredInv, LoadedTokens
  <1>7. CredInv'
    <2>1. RowTokens'  BY <1>3, <1>4 DEF CredInv, RowTokens
    <2>2. ASSUME NEW p \in Reqs  PROVE (Prepared(req[p]) /\ WroteTokens(req[p]) /\ LoadedTokens(req[p]))'
      <3>1. Prepared(req[p])'  BY <1>2 DEF CredInv, Prepared
      <3>2. \A t \in req[p].wrote : t \in Ids /\ t # s  BY <1>6, TokenTypes
      <3>3. WroteTokens(req[p])'  BY <1>2, <1>3, <1>4, <3>2 DEF CredInv, WroteTokens
      <3>4. LoadedTokens(req[p])'
        BY <1>2, <1>3, <1>4, <1>6 DEF CredInv, LoadedTokens, SeenToken
      <3> QED  BY <3>1, <3>3, <3>4
    <2> QED  BY <2>1, <2>2 DEF CredInv
  <1>8. ASSUME NEW t \in Ids  PROVE [RC(t)!Next]_(RC(t)!vars)
    <2>1. CASE t # s
      <3>1. \A p \in Reqs : /\ t \in Rotated(p) <=> (t \in Rotated(p))'
                            /\ t \in Rotated(p) => req'[p].out[t].token = req[p].out[t].token
        BY <1>2, <1>4, <2>1 DEF Rotated
      <3>2. StoredToken(t)' = StoredToken(t) /\ PendingToken(t)' = PendingToken(t)
        BY <1>4, <2>1, <3>1, QuietRow
      <3> QED  BY <1>2, <1>3, <2>1, <3>2 DEF RC!vars
    <2>2. CASE t = s
      <3>1. \A p \in Reqs : s \notin Rotated(p) /\ ~(s \in Rotated(p))'
        BY <1>2, <1>6 DEF Rotated
      <3>2. PendingToken(s) = None  BY <3>1, PendingIs DEF PendingHeld
      <3>3. PendingToken(s)' = None  BY <3>1, PendingIsNext DEF PendingHeld
      <3>4. StoredToken(s)' = 1  BY <1>4, <1>5 DEF StoredToken
      <3>5. RC(s)!Issue  BY <1>2, <1>3, <3>2, <3>3, <3>4 DEF RC!Issue
      <3> QED  BY <2>2, <3>5 DEF RC!Next
    <2> QED  BY <2>1, <2>2
  <1> QED  BY <1>7, <1>8 DEF Refines

LEMMA NextCred == IInv /\ IInv' /\ CredInv /\ [Next]_vars => CredInv' /\ Refines
  <1> SUFFICES ASSUME IInv, IInv', CredInv, [Next]_vars  PROVE CredInv' /\ Refines  OBVIOUS
  <1>1. ASSUME Tick \/ UNCHANGED vars  PROVE CredInv' /\ Refines
    <2>1. UNCHANGED <<rows, lock, req, issued, lost>>  BY <1>1 DEF Tick, vars
    <2>2. CredInv'  BY <2>1 DEF CredInv, RowTokens, Prepared, WroteTokens, LoadedTokens, SeenToken
    <2>3. \A s \in Ids : StoredToken(s)' = StoredToken(s) /\ PendingToken(s)' = PendingToken(s)
      BY <2>1 DEF StoredToken, PendingToken, Rotated
    <2> QED  BY <2>1, <2>2, <2>3, QuietRefines
  <1>2. ASSUME NEW r \in Reqs, Crash(r)  PROVE CredInv' /\ Refines
    <2>1. Abandon(r, "error") /\ issued' = issued  BY <1>2 DEF Crash
    <2> QED  BY <2>1, AbandonCred
  <1> QED  BY <1>1, <1>2, CallbackCred, StartCred, ProceedCred DEF Next

\* A session is a rotating credential: the token the provider takes is stored whole or
\* lost, at most one request replaces it, and nobody deletes the row meanwhile.
THEOREM SessionsAreRotatingCredentials == Spec => Credentials
  <1>1. IInv /\ IInv' /\ CredInv /\ [Next]_vars
           => CredInv' /\ [\A s \in Ids : [RC(s)!Next]_(RC(s)!vars)]_vars
    BY NextCred DEF Refines
  <1> QED  BY <1>1, InitInv, NextInv, CredInit, PTL DEF Spec, Credentials
=============================================================================
