------------------------------ MODULE Resources ------------------------------
(***************************************************************************)
(* The request cycle that the resources of module Entities share.  A write *)
(* route resolves what its caller may do, runs one operation or a batch of *)
(* them in one transaction of the request's session and commits at the     *)
(* end; any failure answers with a status and rolls everything back.  A    *)
(* search route reads one page and gives the cursor of the next.           *)
(*                                                                         *)
(* The database runs at READ COMMITTED: a statement sees what others have  *)
(* committed and what its own transaction wrote, and waits for a           *)
(* transaction that holds a row, a parent or a key it needs.  A scene is a *)
(* set of tables in play; the parents of other tables are there and stay.  *)
(***************************************************************************)
EXTENDS Entities

CONSTANTS
    Requests,   \* write or read requests
    Callers,    \* who may send them
    Scenes,     \* sets of tables in play
    Crowded,    \* scenes in which requests overlap
    Batched,    \* scenes in which a request is a batch of several operations
    MaxOps,     \* bound: operations of a batch
    Seeded,     \* bound: rows of a table at the start
    Paged,      \* tables a client pages through
    PageSize    \* the limit the client asks for

VARIABLES
    scene,      \* the tables in play
    db,         \* committed rows: table -> id -> row
    tx,         \* per request: what its open transaction wrote, by <<table, id>>
    req,        \* per request: where it is and what it holds in memory
    reader      \* a client that walks the pages of a search

vars == <<scene, db, tx, req, reader>>

Actions == {"CREATE", "READ", "UPDATE", "DELETE", "SEARCH"}
ActionOf == [create |-> "CREATE", update |-> "UPDATE", delete |-> "DELETE"]
Nobody == [user |-> Null, grants |-> [a \in Actions |-> "none"]]

ASSUME ResourcesAssumption ==
    /\ Scenes \subseteq SUBSET Tables /\ Crowded \cup Batched \subseteq Scenes /\ Paged \subseteq Managed
    /\ \A c \in Callers : DOMAIN c.grants = Actions
    /\ Seeded \in 0..MaxId /\ PageSize \in Nat \ {0} /\ MaxOps \in Nat \ {0}

(* Callers are users; a scene has the tables that a service of another of  *)
(* its tables reads or writes without being asked for them.                *)
ASSUME ScenesAssumption ==
    /\ \A c \in Callers : c.user \in Ids \cup {Null}
    /\ \A S \in Scenes :
         /\ "oauth_clients" \in S => "oauth_client_redirect_uris" \in S
         /\ "llms" \in S => "provider_connections" \in S

-----------------------------------------------------------------------------
(* Rows as a transaction sees them.                                        *)

Gone == [refs |-> <<>>, name |-> 0, val |-> 2]
Nothing == <<>>
One(k, row) == [n \in {k} |-> row]
Over(f, g) == [k \in DOMAIN f \cup DOMAIN g |-> IF k \in DOMAIN f THEN f[k] ELSE g[k]]

Overlay(base, delta) ==
    [t \in DOMAIN base |->
        LET written == {i \in Ids : <<t, i>> \in DOMAIN delta}
            gone == {i \in written : delta[<<t, i>>] = Gone}
        IN [i \in (DOMAIN base[t] \cup written) \ gone |->
                IF i \in written THEN delta[<<t, i>>] ELSE base[t][i]]]
View(r) == Overlay(db, tx[r])

SeedRow(t, i) == [refs |-> [c \in DOMAIN Refs(t) |-> i], name |-> i, val |-> 0]
Seeds(S) ==
    {[t \in S |-> [i \in 1..(IF t \in Managed \/ n = 0 THEN n ELSE 1) |-> SeedRow(t, i)]] :
        n \in 0..Seeded}

Column(row, c) == IF c = "name" THEN row.name ELSE row.refs[c]
SameKey(t, row, other) ==
    Schema[t].unique # NoColumns /\ \A c \in Schema[t].unique : Column(row, c) = Column(other, c)

(* What a delete takes along, and what forbids it.                         *)
Keys(v) == UNION {{t} \X DOMAIN v[t] : t \in DOMAIN v}
Points(v, k, c, S) == <<Refs(k[1])[c].to, v[k[1]][k[2]].refs[c]>> \in S
Held(v, S, kind) ==
    {k \in Keys(v) : \E c \in DOMAIN Refs(k[1]) : Refs(k[1])[c].del = kind /\ Points(v, k, c, S)}
Cascade(v, S) == S \cup Held(v, S, "cascade")
Doomed(v, k) == Cascade(v, Cascade(v, Cascade(v, {k})))
Restricted(v, k) == Held(v, Doomed(v, k), "restrict") # {}
Delete(v, k) ==
    LET doomed == Doomed(v, k)
        nulled == Held(v, doomed, "null") \ doomed
        Unlink(n) == LET row == v[n[1]][n[2]]
                     IN [row EXCEPT !.refs = [c \in DOMAIN row.refs |->
                            IF Points(v, n, c, doomed) THEN Null ELSE row.refs[c]]]
    IN [n \in doomed \cup nulled |-> IF n \in doomed THEN Gone ELSE Unlink(n)]

(* An UPDATE carries the columns whose value differs from the loaded one   *)
(* and those that are always written.                                      *)
MergeAll(old, out, now) == out.row  \* Mutant: the whole loaded row is written

Merge(old, out, now) ==
    [name |-> IF out.row.name # old.name THEN out.row.name ELSE now.name,
     val |-> IF out.row.val # old.val \/ "val" \in out.rewrites THEN out.row.val ELSE now.val,
     refs |-> [c \in DOMAIN now.refs |->
                 IF out.row.refs[c] # old.refs[c] THEN out.row.refs[c] ELSE now.refs[c]]]

-----------------------------------------------------------------------------
(* Requests.                                                               *)

New == [pc |-> "new", caller |-> Nobody, table |-> "", left |-> 0, verb |-> "", id |-> Null,
        old |-> NoRow, out |-> Refuse(0), asked |-> {}, alone |-> TRUE, ans |-> 0]
Answered(q, status) ==
    [New EXCEPT !.pc = "done", !.table = q.table, !.verb = q.verb, !.alone = q.alone, !.ans = status]
InProgress(r) == req[r].pc \in {"op", "flush", "commit"}

(* Ids are drawn at random: a new row gets one that no row has, committed  *)
(* or not, and that no request in flight holds or names in a payload.      *)
PointsAt(row, t, k) == row # Gone /\ \E c \in DOMAIN row.refs : <<Refs(t)[c].to, row.refs[c]>> = k
Holds(q, k) == <<q.table, q.id>> = k \/ k \in q.out.drop \/ PointsAt(q.out.row, q.table, k)
FreeIds(t) ==
    {i \in Ids \ DOMAIN db[t] :
        \A r \in Requests : <<t, i>> \notin DOMAIN tx[r] /\ ~Holds(req[r], <<t, i>>)}

(* The statement a request is about to run, as the rows it leaves.  Rows   *)
(* added next to a new row point at it where their payload says Null.      *)
Attach(a, i) == [a.row EXCEPT !.refs = [c \in DOMAIN @ |->
                    IF @[c] = Null /\ Refs(a.table)[c].del # "null" THEN i ELSE @[c]]]
HasRoom(q) == \A a \in q.out.add : FreeIds(a.table) # {}
Added(q) ==
    IF q.out.add = {} \/ ~HasRoom(q) THEN Nothing
    ELSE LET a == CHOOSE a \in q.out.add : TRUE
         IN One(<<a.table, Min(FreeIds(a.table))>>, Attach(a, q.id))
Stale(r) == req[r].verb = "update" /\ req[r].id \notin DOMAIN View(r)[req[r].table]
Writes(r) ==
    LET q == req[r]
        v == View(r)
        k == <<q.table, q.id>>
        here == q.id \in DOMAIN v[q.table]
        extra == Over(Added(q), [n \in q.out.drop |-> Gone])
    IN CASE q.verb = "create" -> Over(One(k, q.out.row), extra)
         [] q.verb = "update" /\ here -> Over(One(k, Merge(q.old, q.out, v[q.table][q.id])), extra)
         [] q.verb = "delete" /\ here -> Delete(v, k)
         [] OTHER -> Nothing

Dangling(v, w, k) ==
    w[k] # Gone /\ \E c \in DOMAIN w[k].refs :
        LET p == Refs(k[1])[c].to
        IN p \in DOMAIN v /\ w[k].refs[c] # Null /\ w[k].refs[c] \notin DOMAIN v[p]
Collides(v, w, k) ==
    w[k] # Gone /\ \E i \in DOMAIN v[k[1]] \ {k[2]} : SameKey(k[1], w[k], v[k[1]][i])

(* r waits for s: the same row, a parent that s deletes, a child that s    *)
(* wrote under a row r deletes, or a unique key whose fate s decides.      *)
Waits(r, s) ==
    LET w == Writes(r)
    IN \E k \in DOMAIN w, n \in DOMAIN tx[s] :
         \/ k = n
         \/ tx[s][n] = Gone /\ PointsAt(w[k], k[1], n)
         \/ w[k] = Gone /\ PointsAt(tx[s][n], n[1], k)
         \/ /\ w[k] # Gone /\ n[1] = k[1]
            /\ \/ tx[s][n] # Gone /\ SameKey(k[1], w[k], tx[s][n])
               \/ n[2] \in DOMAIN db[n[1]] /\ SameKey(k[1], w[k], db[n[1]][n[2]])
Blocked(r) == \E s \in Requests \ {r} : Waits(r, s)

-----------------------------------------------------------------------------
(* Steps.                                                                  *)

Pages(view) == [reader EXCEPT !.stable = @ \cap
                  (IF reader.pc = "paging" THEN Rows(reader.table, reader.who, "SEARCH", view) ELSE {})]

End(r, status) ==
    /\ tx' = [tx EXCEPT ![r] = Nothing]
    /\ req' = [req EXCEPT ![r] = Answered(@, status)]
    /\ UNCHANGED <<scene, db, reader>>

Next1(r, q) == req' = [req EXCEPT ![r] = q] /\ UNCHANGED <<scene, db, tx, reader>>

MaySend(c) == c.user # Null /\ ("users" \in scene => c.user \in DOMAIN db.users)

(* A write route, or the batch route with n operations.                    *)
Receive(r, c, t, n) ==
    LET others == {s \in Requests \ {r} : InProgress(s)}
    IN /\ req[r].pc = "new" /\ MaySend(c)
       /\ n = 1 \/ scene \in Batched
       /\ others = {} \/ scene \in Crowded
       /\ req' = [s \in Requests |->
             IF s = r THEN [New EXCEPT !.pc = "op", !.caller = c, !.table = t, !.left = n,
                                       !.alone = (others = {})]
             ELSE IF s \in others THEN [req[s] EXCEPT !.alone = FALSE] ELSE req[s]]
       /\ UNCHANGED <<scene, db, tx, reader>>

(* Without credentials no policy applies: a single route answers 403.      *)
Anonymous(r, t) ==
    /\ req[r].pc = "new"
    /\ \E status \in {403, ReadRoutes[t].anonymous} :
          Next1(r, Answered([New EXCEPT !.table = t], status))

(* A read route; not every resource has a count or a get of one row.       *)
Read(r, c, t) ==
    /\ req[r].pc = "new" /\ MaySend(c)
    /\ \E route \in DOMAIN ReadRoutes[t] \ {"anonymous"}, i \in Ids :
          LET action == ReadRoutes[t][route]
              status == CASE Scope(c, t, action) = "none" -> 403
                          [] route = "get" /\ i \notin Rows(t, c, action, View(r)) -> 404
                          [] OTHER -> 200
          IN Next1(r, Answered([New EXCEPT !.table = t], status))

(* The checks of a create; a row that passes them is ready to be flushed.  *)
Create(r) ==
    LET q == [req[r] EXCEPT !.verb = "create"]
        t == q.table
    IN /\ req[r].pc = "op" /\ "create" \in Verbs[t]
       /\ IF Scope(q.caller, t, "CREATE") = "none" THEN End(r, 403)
          ELSE \E o \in Creates(t, q.caller, View(r)) :
                 CASE o.refuse # 0 -> End(r, o.refuse)
                   [] o.refuse = 0 /\ ~Matches(q.caller, t, "CREATE", o.row) /\ ~IgnoresFilter(t) ->
                        End(r, WriteErrors[t].scope)
                   [] OTHER -> \E i \in FreeIds(t) :
                        Next1(r, [q EXCEPT !.pc = "flush", !.id = i, !.old = NoRow, !.out = o])

(* An update or delete first selects the row among those its caller may    *)
(* change; what it loaded may be old when it is flushed.                   *)
Changes(old, o) == {c \in {"name", "val"} : o.row[c] # old[c]} \cup
                   {c \in DOMAIN old.refs : o.row.refs[c] # old.refs[c]}
Select(r, verb) ==
    LET q == [req[r] EXCEPT !.verb = verb]
        t == q.table
        v == View(r)
        action == ActionOf[verb]
    IN /\ req[r].pc = "op" /\ verb \in Verbs[t]
       /\ IF Scope(q.caller, t, action) = "none" THEN End(r, 403)
          ELSE \E i \in Ids :
                 IF i \notin Rows(t, q.caller, action, v) THEN End(r, WriteErrors[t].missing)
                 ELSE LET ready == [q EXCEPT !.pc = "flush", !.id = i, !.old = v[t][i]]
                      IN IF verb = "delete" THEN Next1(r, [ready EXCEPT !.out = Write(NoRow)])
                         ELSE \E o \in Patches(t, q.caller, v, i) :
                                IF o.refuse # 0 THEN End(r, o.refuse)
                                ELSE Next1(r, [ready EXCEPT !.out = o,
                                         !.asked = @ \cup ({i} \X Changes(v[t][i], o))])

(* The statement runs.  A key that is taken, a parent that is missing and  *)
(* a child that forbids a delete fail the request with the status its      *)
(* routes know for it.                                                     *)
Flush(r) ==
    LET q == req[r]
        w == Writes(r)
        after == Overlay(View(r), w)
        errors == WriteErrors[q.table]
    IN /\ q.pc = "flush" /\ HasRoom(q) /\ ~Blocked(r)
       /\ CASE Stale(r) -> End(r, 500)
            [] q.verb # "delete" /\ \E k \in DOMAIN w : Collides(after, w, k) -> End(r, errors.unique)
            [] q.verb # "delete" /\ \E k \in DOMAIN w : Dangling(after, w, k) -> End(r, errors.fk)
            [] q.verb = "delete" /\ w # Nothing /\ Restricted(View(r), <<q.table, q.id>>) ->
                  End(r, errors.restrict)
            [] OTHER ->
                  /\ tx' = [tx EXCEPT ![r] = Over(w, @)]
                  /\ req' = [req EXCEPT ![r] =
                        [q EXCEPT !.pc = IF q.left = 1 THEN "commit" ELSE "op", !.left = q.left - 1,
                                  !.id = Null, !.old = NoRow, !.out = Refuse(0)]]
                  /\ UNCHANGED <<scene, db, reader>>

Commit(r) ==
    /\ req[r].pc = "commit"
    /\ db' = View(r)
    /\ tx' = [tx EXCEPT ![r] = Nothing]
    /\ req' = [req EXCEPT ![r] = Answered(@, 200)]
    /\ reader' = Pages(View(r))
    /\ UNCHANGED scene

(* The process or its connection is lost before the commit.                *)
Lost(r) == InProgress(r) /\ End(r, 0)

(* Two requests that wait for each other: the database fails one.          *)
Deadlock(r) ==
    /\ req[r].pc = "flush"
    /\ \E s \in Requests \ {r} : req[s].pc = "flush" /\ Waits(r, s) /\ Waits(s, r)
    /\ End(r, 500)

(* A client pages through a search: rows by id, after the cursor, up to    *)
(* the limit.  Most searches give a cursor when the page is full; that of  *)
(* the origins fetches one row more to know whether there is another page. *)
NoReader == [pc |-> "idle", table |-> "", who |-> Nobody, cursor |-> 0, got |-> {}, stable |-> {}]
StartPaging(c, t) ==
    /\ reader.pc = "idle" /\ MaySend(c) /\ Scope(c, t, ReadRoutes[t].search) # "none"
    /\ reader' = [NoReader EXCEPT !.pc = "paging", !.table = t, !.who = c,
                                  !.stable = Rows(t, c, "SEARCH", db)]
    /\ UNCHANGED <<scene, db, tx, req>>

FirstOf(S, n) == {i \in S : Cardinality({j \in S : j < i}) < n}

(* Mutant: the cursor names the first row that was not shown.              *)
NextCursorAfter(t, found) ==
    LET page == FirstOf(found, PageSize)
        more == IF t = "allowed_origins" THEN found # page ELSE Cardinality(page) = PageSize
    IN IF ~more THEN Null ELSE IF found = page THEN Max(page) ELSE Min(found \ page)

NextCursor(t, found) ==
    LET page == FirstOf(found, PageSize)
        more == IF t = "allowed_origins" THEN found # page ELSE Cardinality(page) = PageSize
    IN IF more THEN Max(page) ELSE Null

ReadPage ==
    LET found == {i \in Rows(reader.table, reader.who, "SEARCH", db) : i > reader.cursor}
        next == NextCursor(reader.table, found)
    IN /\ reader.pc = "paging"
       /\ reader' = [reader EXCEPT !.got = @ \cup FirstOf(found, PageSize), !.cursor = next,
                                   !.pc = IF next = Null THEN "done" ELSE "paging"]
       /\ UNCHANGED <<scene, db, tx, req>>

(* Everyone has had an answer.                                             *)
Finished == (\A r \in Requests : req[r].pc = "done") /\ UNCHANGED vars

Init ==
    /\ scene \in Scenes
    /\ db \in Seeds(scene)
    /\ tx = [r \in Requests |-> Nothing]
    /\ req = [r \in Requests |-> New]
    /\ reader = NoReader

Step(r) ==
    \/ \E t \in scene \cap Managed :
         \/ Anonymous(r, t)
         \/ \E c \in Callers : Read(r, c, t) \/ \E n \in 1..MaxOps : Receive(r, c, t, n)
    \/ Create(r) \/ Select(r, "update") \/ Select(r, "delete")
    \/ Flush(r) \/ Commit(r) \/ Lost(r) \/ Deadlock(r)

Next ==
    \/ \E r \in Requests : Step(r)
    \/ \E c \in Callers, t \in Paged \cap scene : StartPaging(c, t)
    \/ ReadPage
    \/ Finished

Spec == Init /\ [][Next]_vars

-----------------------------------------------------------------------------
(* Properties.                                                             *)

IsRow(t, row) ==
    /\ DOMAIN row = {"refs", "name", "val"}
    /\ row.name \in Names \cup {0} \cup Ids /\ row.val \in {0, 1}
    /\ DOMAIN row.refs = DOMAIN Refs(t)
    /\ \A c \in DOMAIN row.refs :
         row.refs[c] \in Ids \cup {NoSuchId} \cup (IF Refs(t)[c].del = "null" THEN {Null} ELSE {})

(* Every row has the columns of its table, with values of their domains,   *)
(* and a request holds what its phase needs.                               *)
TypeOK ==
    /\ scene \in Scenes /\ DOMAIN db = scene
    /\ \A t \in scene : DOMAIN db[t] \subseteq Ids /\ (\A i \in DOMAIN db[t] : IsRow(t, db[t][i]))
    /\ \A r \in Requests :
         /\ req[r].pc \in {"new", "op", "flush", "commit", "done"}
         /\ req[r].left \in 0..MaxOps /\ (req[r].pc = "commit" => req[r].left = 0)
         /\ req[r].ans \in {0, 200, 401, 403, 404, 409, 422, 500}
         /\ ~InProgress(r) => tx[r] = Nothing
         /\ \A k \in DOMAIN tx[r] : k[1] \in scene /\ (tx[r][k] = Gone \/ IsRow(k[1], tx[r][k]))
    /\ reader.got \cup reader.stable \subseteq Ids

(* An LLM profile runs on a connection of its own creator: whatever        *)
(* creates, updates, deletes and batches are interleaved, no profile ever  *)
(* bills or uses another user's credentials (llm_service.py, _get_owned_   *)
(* connection of create and update).                                       *)
LlmsUseOwnConnections ==
    {"llms", "provider_connections"} \subseteq scene =>
        \A i \in DOMAIN db.llms :
            OwnConnection(db, db.llms[i].refs.provider_connection_id, db.llms[i].refs.creator_id)

Vanished == {k \in Keys(db) : k[1] \in scene' /\ k[2] \notin DOMAIN db'[k[1]]}
Appeared == {k \in Keys(db') : k[2] \notin DOMAIN db[k[1]]}
Changed == {k \in Keys(db) \ Vanished : db[k[1]][k[2]] # db'[k[1]][k[2]]}
Attachments ==
    {<<"oauth_clients", "oauth_client_redirect_uris">>, <<"sandbox_configs", "api_keys">>}
Committing(r) == req[r].pc = "commit" /\ req'[r].ans = 200
Unlinked(k) ==
    LET old == db[k[1]][k[2]]
        new == db'[k[1]][k[2]]
    IN /\ old.name = new.name /\ old.val = new.val
       /\ \A c \in DOMAIN old.refs :
            old.refs[c] = new.refs[c] \/ (new.refs[c] = Null /\ Points(db, k, c, Vanished))

(* What a request commits is covered by its caller's grants, row by row:   *)
(* a new row by CREATE, a changed one by UPDATE (or it only lost its       *)
(* pointer to a deleted row), a vanished one by DELETE or by the cascade   *)
(* from a vanished parent.  Rows a service writes beside the resource (the *)
(* redirect URIs of a client, the system key of a config) follow it.  The  *)
(* routes of the origins do not look at rows (see module Access for what   *)
(* that lets through).                                                     *)
EffectsAreGranted == [][
    \A r \in Requests : Committing(r) =>
        LET q == req[r]
            With(k) == <<q.table, k[1]>> \in Attachments
            Granted(k, action, row) ==
                /\ k[1] = q.table
                /\ IgnoresFilter(k[1]) \/ Matches(q.caller, k[1], action, row)
        IN /\ \A k \in Appeared : With(k) \/ Granted(k, "CREATE", db'[k[1]][k[2]])
           /\ \A k \in Changed : Unlinked(k) \/ Granted(k, "UPDATE", db[k[1]][k[2]])
           /\ \A k \in Vanished :
                \/ With(k) \/ Granted(k, "DELETE", db[k[1]][k[2]])
                \/ \E c \in DOMAIN Refs(k[1]) : Points(db, k, c, Vanished)]_vars

(* An update of a resource overwrites no column its caller did not ask to  *)
(* change, even when others changed the row after it was loaded (partial   *)
(* updates write what differs from the loaded row).  The configurations of *)
(* MCP servers are the exception: their encrypted columns are rewritten.   *)
RewritingTables == {"mcp_server_configs"}
PatchesKeepOtherColumns == [][
    \A r \in Requests : Committing(r) =>
        \A k \in Changed : k[1] \in RewritingTables \/ Unlinked(k) \/
            Changes(db[k[1]][k[2]], Write(db'[k[1]][k[2]])) \subseteq
                {a[2] : a \in {a \in req[r].asked : a[1] = k[2]}}]_vars

(* The failures that no route classifies: a user or a config that RESTRICT *)
(* keeps alive, and the foreign keys and unique keys of the services that  *)
(* flush without catching IntegrityError.                                  *)
Unclassified ==
    {<<"users", "delete">>, <<"sandbox_configs", "delete">>, <<"api_keys", "create">>,
     <<"api_keys", "update">>, <<"conversation_records", "create">>}

(* A request that nobody overlaps never ends in an internal error, outside *)
(* the listed operations: whatever a payload names (a taken name, a parent *)
(* that is gone, a row that children hold), the routes have a status.      *)
AloneNeverFails ==
    \A r \in Requests : req[r].ans = 500 /\ req[r].alone =>
        <<req[r].table, req[r].verb>> \in Unclassified

(* A client that follows the cursors to the end has been shown every row   *)
(* that was there, and visible to it, from the first page to the last, no  *)
(* matter what was inserted and deleted meanwhile.                         *)
PagesCoverStableRows == reader.pc = "done" => reader.stable \subseteq reader.got
=============================================================================
