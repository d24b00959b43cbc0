------------------------------ MODULE EventLog -------------------------------
(***************************************************************************)
(* The events of one conversation: their rows in the daily-partitioned     *)
(* table, their full bodies in the backing store (files or S3), and the    *)
(* conversation record with the metrics that webhook calls report.         *)
(*                                                                         *)
(* Calls are transactions: what they write is committed or rolled back as  *)
(* a whole, while a body is in the store at once.  The partition sweep     *)
(* commits before it cleans the store, and backfill turns stored bodies    *)
(* that have no row into rows.                                             *)
(***************************************************************************)
EXTENDS Integers, FiniteSets

CONSTANTS
    Events,        \* bound: the event ids that may be given out
    Big,           \* those whose payload is over body_cap_bytes
    Calls,         \* bound: the requests
    MaxDay,        \* bound: the clock, in days
    Preallocate,   \* preallocate_days
    Retention,     \* retention_days
    Default,       \* the DEFAULT partition
    None

ASSUME EventAssumption ==
    /\ MaxDay \in Nat /\ Preallocate \in Nat \ {0} /\ Retention \in Nat \ {0}
    /\ Big \subseteq Events

VARIABLES
    today,        \* the clock
    partitions,   \* the dated partitions
    row,          \* row[e]: the row of event e
    bodies,       \* the events whose body is in the store, under the day of the event
    conv,         \* the committed row of the conversation
    call,         \* call[r]: a request
    clean,        \* days whose partition the sweep dropped and whose bodies it deletes next
    fill,         \* the backfill script
    unstored      \* events whose body the store did not take (history)

vars == <<today, partitions, row, bodies, conv, call, clean, fill, unstored>>

Days    == 0 .. MaxDay
Columns == {"cost", "tokens"}
\* The metrics an agent server reports, one after the other; a report of a model that
\* is not priced leaves the cost as it was.
Reports == {[cost |-> 0, tokens |-> 1], [cost |-> 1, tokens |-> 2]}
Zero    == [c \in Columns |-> 0]

NoRow  == [step |-> "none", day |-> None, part |-> None]
NoCall == [kind |-> None, step |-> "idle", events |-> {}, loaded |-> None, wrote |-> {}]
NoFill == [step |-> "idle", todo |-> {}, waits |-> None, restored |-> {}]

-----------------------------------------------------------------------------
Target(day) == IF day \in partitions THEN day ELSE Default
Inserted(day) == [step |-> "flushed", day |-> day, part |-> Target(day)]
\* An event whose row is gone keeps its day: its body's key holds it.
Gone(e, step) == [row[e] EXCEPT !.step = step, !.part = None]
Visible(e)  == row[e].step = "committed"
Flushed     == {e \in Events : row[e].step = "flushed"}
\* Whoever wrote the conversation's row and has not ended keeps it locked.
Unlocked(r) == \A q \in Calls \ {r} : call[q].wrote = {}

Init ==
    /\ today = 0 /\ partitions = {} /\ row = [e \in Events |-> NoRow] /\ bodies = {}
    /\ conv = [live |-> TRUE, metrics |-> Zero] /\ call = [r \in Calls |-> NoCall]
    /\ clean = {} /\ fill = NoFill /\ unstored = {}

-----------------------------------------------------------------------------
\* A request begins; ingest_events, upsert_conversation_record and update load the
\* conversation, and the session keeps what they loaded.
Begin(r, kind) ==
    /\ call[r] = NoCall
    /\ call' = [call EXCEPT ![r] = [NoCall EXCEPT !.kind = kind, !.step = "open",
                                    !.loaded = IF kind \in {"create", "batch"} THEN None
                                               ELSE conv.metrics]]
    /\ UNCHANGED <<today, partitions, row, bodies, conv, clean, fill, unstored>>

CreateEvent(r)      == conv.live /\ Begin(r, "create")
WriteEventsBatch(r) == conv.live /\ Begin(r, "batch")
\* The conversation must exist and be backed by the URL's sandbox config.
OnEvent(r)          == conv.live /\ Begin(r, "ingest")
\* POST /webhooks/.../conversation_records of a conversation that exists,
OnConversationUpdate(r)    == conv.live /\ Begin(r, "upsert")
\* and PATCH /conversation_records/{id}.
UpdateConversation(r)      == conv.live /\ Begin(r, "patch")

StoreBody(e, day) == bodies' = bodies \union {e}

\* One EventService.create: the conversation is looked up, the row is inserted (its
\* foreign key holds the conversation's key) and then the body is stored, or is not.
\* A webhook's event has the time its sender gives it; others are stamped by the clock.
AppendEvent(r, e, day) ==
    /\ call[r].step = "open" /\ call[r].kind \in {"create", "batch", "ingest"}
    /\ call[r].kind = "create" => call[r].events = {}
    /\ call[r].kind # "ingest" => day = today
    /\ conv.live /\ row[e] = NoRow
    /\ row' = [row EXCEPT ![e] = Inserted(day)]
    /\ call' = [call EXCEPT ![r].events = @ \union {e}]
    /\ \/ StoreBody(e, day) /\ UNCHANGED unstored
       \/ unstored' = unstored \union {e} /\ UNCHANGED bodies
    /\ UNCHANGED <<today, partitions, conv, clean, fill>>

\* The columns of a report that differ from what the session loaded.
Changed(loaded, report) == {c \in Columns : report[c] # loaded[c]}

\* The metrics of a stats event or of a conversation's stats, set on the loaded object;
\* its flush updates the columns that changed and waits for the row.
FoldStats(r, report) ==
    /\ call[r].step = "open" /\ call[r].kind \in {"ingest", "upsert", "patch"}
    /\ call[r].kind = "ingest" => call[r].events # {}
    /\ LET new == Changed(call[r].loaded, report)
       IN  /\ new # {} => conv.live /\ Unlocked(r)
           /\ call' = [call EXCEPT ![r] =
                  [@ EXCEPT !.loaded = report, !.wrote = call[r].wrote \union new]]
    /\ UNCHANGED <<today, partitions, row, bodies, conv, clean, fill, unstored>>

Ended(r, step) ==
    call' = [call EXCEPT ![r] = [@ EXCEPT !.step = step, !.loaded = None, !.wrote = {}]]

\* The one commit at the end of each handler.
Commit(r) ==
    /\ call[r].step = "open" /\ (call[r].kind = "create" => call[r].events # {})
    /\ row' = [e \in Events |-> IF e \in call[r].events THEN [row[e] EXCEPT !.step = "committed"]
                                                        ELSE row[e]]
    /\ conv' = [conv EXCEPT !.metrics = [c \in Columns |->
                    IF c \in call[r].wrote THEN call[r].loaded[c] ELSE conv.metrics[c]]]
    /\ Ended(r, "done")
    /\ UNCHANGED <<today, partitions, bodies, clean, fill, unstored>>

Undone(gone) == [e \in Events |-> IF e \in gone THEN Gone(e, "undone") ELSE row[e]]

\* An operation that fails (the conversation is gone, a create is out of scope, the
\* database or the process stops) undoes the rows; the bodies stay.
Fails(r) ==
    /\ call[r].step = "open"
    /\ row' = Undone(call[r].events)
    /\ Ended(r, "failed")
    /\ UNCHANGED <<today, partitions, bodies, conv, clean, fill, unstored>>

\* Mutant of DeleteConversation: the foreign key does not cascade.
DeleteConversationOnly ==
    /\ conv.live /\ Flushed = {} /\ \A r \in Calls : call[r].wrote = {}
    /\ conv' = [live |-> FALSE, metrics |-> Zero]
    /\ UNCHANGED <<today, partitions, row, bodies, call, clean, fill, unstored>>

\* DELETE of the conversation waits for whoever holds its key or its row, then
\* cascades to the rows of its events.  The bodies stay.
DeleteConversation ==
    /\ conv.live /\ Flushed = {} /\ \A r \in Calls : call[r].wrote = {}
    /\ conv' = [live |-> FALSE, metrics |-> Zero]
    /\ row' = [e \in Events |-> IF Visible(e) THEN Gone(e, "deleted") ELSE row[e]]
    /\ UNCHANGED <<today, partitions, bodies, call, clean, fill, unstored>>

\* Metadata of a conversation that has no row (any more) makes one, in one flush.
UpsertCreates(r) ==
    /\ call[r] = NoCall /\ ~conv.live
    /\ \E report \in Reports \union {Zero} : conv' = [live |-> TRUE, metrics |-> report]
    /\ call' = [call EXCEPT ![r] = [NoCall EXCEPT !.kind = "upsert", !.step = "done"]]
    /\ UNCHANGED <<today, partitions, row, bodies, clean, fill, unstored>>

-----------------------------------------------------------------------------
Window == today .. today + Preallocate - 1
Expired == {d \in partitions : d < today - Retention}
\* The days of rows in DEFAULT, for which no partition can be created.
InDefault == {row[e].day : e \in {x \in Events : Visible(x) /\ row[x].part = Default}}

\* ensure_partitions, up to its commit.  DDL waits for the open transactions.
\* The expired days are left to be cleaned.
EnsurePartitions ==
    /\ clean = {} /\ Flushed = {} /\ (Window \ partitions) \intersect InDefault = {}
    /\ partitions' = (partitions \union Window) \ Expired
    /\ row' = [e \in Events |-> IF Visible(e) /\ row[e].part \in Expired
                                THEN Gone(e, "deleted") ELSE row[e]]
    /\ clean' = Expired
    /\ UNCHANGED <<today, bodies, conv, call, fill, unstored>>

\* Mutant of CleanStore: the days that are about to expire are deleted with them.
CleanStoreEarly ==
    /\ clean # {}
    /\ bodies' = {e \in bodies : \A d \in clean : row[e].day \notin {d, d + 1}}
    /\ clean' = {}
    /\ UNCHANGED <<today, partitions, row, conv, call, fill, unstored>>

\* _delete_store_prefix of each dropped day; a failure is logged.
CleanStore ==
    /\ clean # {}
    /\ \/ bodies' = {e \in bodies : row[e].day \notin clean}
       \/ UNCHANGED bodies
    /\ clean' = {}
    /\ UNCHANGED <<today, partitions, row, conv, call, fill, unstored>>

-----------------------------------------------------------------------------
\* backfill lists the stored envelopes,
BackfillBegins ==
    /\ fill.step = "idle"
    /\ fill' = [NoFill EXCEPT !.step = "open", !.todo = bodies]
    /\ UNCHANGED <<today, partitions, row, bodies, conv, call, clean, unstored>>

Next1(e) == fill' = [fill EXCEPT !.todo = @ \ {e}, !.waits = None]
\* passes over those that have a row (or were cleaned),
BackfillSkips(e) ==
    /\ e \in fill.todo /\ fill.waits = None /\ (Visible(e) \/ e \notin bodies)
    /\ Next1(e)
    /\ UNCHANGED <<today, partitions, row, bodies, conv, call, clean, unstored>>

\* and inserts the others, whose conversation must exist.  An insert waits for the
\* request that inserted the event and has not ended,
BackfillWaits(e) ==
    /\ e \in fill.todo /\ fill.waits = None /\ e \in bodies /\ row[e].step = "flushed"
    /\ fill' = [fill EXCEPT !.waits = e]
    /\ UNCHANGED <<today, partitions, row, bodies, conv, call, clean, unstored>>

\* and goes on if that was undone.
BackfillInserts(e) ==
    /\ e \in fill.todo /\ fill.waits \in {None, e} /\ e \in bodies
    /\ row[e].step \in {"undone", "deleted"} /\ conv.live
    /\ row' = [row EXCEPT ![e] = Inserted(row[e].day)]
    /\ fill' = [fill EXCEPT !.todo = @ \ {e}, !.waits = None, !.restored = @ \union {e}]
    /\ UNCHANGED <<today, partitions, bodies, conv, call, clean, unstored>>

\* One commit for all; one failure (the request it waited for committed, a conversation
\* is gone, an object vanished, a crash) undoes all.
BackfillCommits ==
    /\ fill.step = "open" /\ fill.todo = {}
    /\ row' = [e \in Events |-> IF e \in fill.restored THEN [row[e] EXCEPT !.step = "committed"]
                                                      ELSE row[e]]
    /\ fill' = NoFill
    /\ UNCHANGED <<today, partitions, bodies, conv, call, clean, unstored>>
BackfillFails ==
    /\ fill.step = "open"
    /\ row' = Undone(fill.restored) /\ fill' = NoFill
    /\ UNCHANGED <<today, partitions, bodies, conv, call, clean, unstored>>

Tick == /\ today < MaxDay /\ today' = today + 1
        /\ UNCHANGED <<partitions, row, bodies, conv, call, clean, fill, unstored>>

Request(r) ==
    \/ CreateEvent(r) \/ WriteEventsBatch(r) \/ OnEvent(r)
    \/ OnConversationUpdate(r) \/ UpdateConversation(r) \/ UpsertCreates(r)
    \/ \E e \in Events, day \in Days : AppendEvent(r, e, day)
    \/ \E report \in Reports : FoldStats(r, report)
    \/ Commit(r) \/ Fails(r)
Backfill ==
    \/ BackfillBegins \/ BackfillCommits \/ BackfillFails
    \/ \E e \in Events : BackfillSkips(e) \/ BackfillWaits(e) \/ BackfillInserts(e)

Next == \/ \E r \in Calls : Request(r)
        \/ DeleteConversation \/ EnsurePartitions \/ CleanStore \/ Backfill \/ Tick

Spec == Init /\ [][Next]_vars

-----------------------------------------------------------------------------
\* The full body of a truncated event can be read as long as its row is there: the
\* store and the sweep never lose one, unless the store failed to take it.  (Rows in
\* DEFAULT are not kept so: their day may be swept under them.)
RetainedBodiesAreStored ==
    \A e \in Big : Visible(e) /\ row[e].part # Default => e \in bodies \union unstored

\* No event outlives its conversation, whatever appends or backfills while it is deleted.
EventsHaveParents == \A e \in Events : Visible(e) => conv.live

\* Refuted by TLC, and checked by no configuration.
\* write_events_batch: "Append events atomically": the events of a request that failed
\* are not in the log.
BatchesAreAtomic ==
    \A r \in Calls : call[r].step = "failed" => \A e \in call[r].events : ~Visible(e)
=============================================================================
