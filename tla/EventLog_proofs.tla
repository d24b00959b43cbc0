--------------------------- MODULE EventLog_proofs ---------------------------
(***************************************************************************)
(* Proofs about EventLog, for any number of events, requests and days: no  *)
(* event outlives its conversation, and neither the sweep nor a request    *)
(* that fails takes the body of a row that stays.                          *)
(***************************************************************************)
EXTENDS EventLog, TLAPS

RowSteps == {"none", "flushed", "committed", "undone", "deleted"}
Rows     == [step: RowSteps, day: Days \union {None}, part: Int \union {Default, None}]
Kinds    == {None, "create", "batch", "ingest", "upsert", "patch"}
CallsOf(loaded) == [kind: Kinds, step: {"idle", "open", "done", "failed"},
                    events: SUBSET Events, loaded: {loaded}, wrote: SUBSET Columns]
Fills    == [step: {"idle", "open"}, todo: SUBSET Events, waits: Events \union {None},
             restored: SUBSET Events]

\* What the metrics are is left open: nothing below depends on them.
TypeOK ==
    /\ today \in Nat /\ partitions \subseteq Int
    /\ row \in [Events -> Rows] /\ bodies \subseteq Events
    /\ conv \in [live: BOOLEAN, metrics: {conv.metrics}]
    /\ call = [r \in Calls |-> call[r]] /\ \A r \in Calls : call[r] \in CallsOf(call[r].loaded)
    /\ fill \in Fills

\* A row that is there, for its transaction or for all, has its conversation.
RowInv == \A e \in Events : row[e].step \in {"flushed", "committed"} => conv.live

\* Such a row is in the partition of its day or in DEFAULT, its body was stored if it
\* could be, and what the sweep is about to clean is the day of no partition.
StoreInv ==
    /\ \A e \in Events : row[e].step \in {"flushed", "committed"} /\ row[e].part # Default =>
          /\ row[e].part = row[e].day /\ row[e].day \in partitions
          /\ e \in bodies \union unstored
    /\ clean \intersect partitions = {}

Open(r) == call[r].step = "open"

\* The rows that a transaction may yet commit or undo are its own, and flushed.
OwnInv ==
    /\ \A r \in Calls : Open(r) => \A e \in call[r].events : row[e].step = "flushed"
    /\ \A e \in fill.restored : row[e].step = "flushed"
    /\ \A r, q \in Calls : Open(r) /\ Open(q) /\ r # q => call[r].events \intersect call[q].events = {}
    /\ \A r \in Calls : Open(r) => call[r].events \intersect fill.restored = {}

IInv == TypeOK /\ RowInv /\ StoreInv /\ OwnInv

USE EventAssumption DEF Days, Columns, RowSteps, Kinds, Open

LEMMA InitInv == Init => IInv
  <1> SUFFICES ASSUME Init PROVE IInv  OBVIOUS
  <1>1. NoRow \in Rows  BY DEF NoRow, Rows
  <1>2. NoCall \in CallsOf(NoCall.loaded)  BY DEF NoCall, CallsOf
  <1>3. NoFill \in Fills  BY DEF NoFill, Fills
  <1>4. [live |-> TRUE, metrics |-> Zero] \in [live: BOOLEAN, metrics: {Zero}]  OBVIOUS
  <1>5. TypeOK
    <2>1. conv \in [live: BOOLEAN, metrics: {conv.metrics}]  BY <1>4 DEF Init
    <2> QED  BY <1>1, <1>2, <1>3, <2>1 DEF Init, TypeOK
  <1>6. RowInv /\ StoreInv  BY DEF Init, RowInv, StoreInv, NoRow
  <1>7. OwnInv  BY DEF Init, OwnInv, NoCall, NoFill
  <1> QED  BY <1>5, <1>6, <1>7 DEF IInv

\* A request begins with no events of its own.
LEMMA BeginInv == ASSUME IInv, NEW r \in Calls, NEW kind \in Kinds, Begin(r, kind) PROVE IInv'
  <1> DEFINE loaded == IF kind \in {"create", "batch"} THEN None ELSE conv.metrics
  <1> DEFINE new == [NoCall EXCEPT !.kind = kind, !.step = "open", !.loaded = loaded]
  <1>1. call' = [call EXCEPT ![r] = new] /\ call[r] = NoCall  BY Zenon DEF Begin
  <1> HIDE DEF loaded
  <1>2. new \in CallsOf(new.loaded) /\ new.step = "open" /\ new.events = {}
    <2>1. NoCall \in CallsOf(None)  BY DEF NoCall, CallsOf
    <2> DEFINE first == [NoCall EXCEPT !.kind = kind]
    <2>2. first \in CallsOf(None) /\ first.events = {}  BY <2>1 DEF CallsOf, NoCall
    <2> DEFINE second == [first EXCEPT !.step = "open"]
    <2> HIDE DEF first
    <2>3. second \in CallsOf(None) /\ second.events = {} /\ second.step = "open"
      BY <2>2 DEF CallsOf
    <2> DEFINE third == [second EXCEPT !.loaded = loaded]
    <2> HIDE DEF second
    <2>4. third \in CallsOf(third.loaded) /\ third.events = {} /\ third.step = "open"
      BY <2>3 DEF CallsOf
    <2>5. new = third  BY DEF first, second
    <2> QED  BY <2>4, <2>5
  <1> HIDE DEF new
  <1>3. /\ call'[r] = new /\ \A q \in Calls : q # r => call'[q] = call[q]
        /\ call' = [q \in Calls |-> call'[q]]
    BY <1>1 DEF IInv, TypeOK
  <1>4. UNCHANGED <<today, partitions, row, bodies, conv, clean, fill, unstored>>  BY DEF Begin
  <1>5. TypeOK'  BY <1>2, <1>3, <1>4 DEF IInv, TypeOK
  <1>6. RowInv' /\ StoreInv'  BY <1>4 DEF IInv, RowInv, StoreInv
  <1>7. OwnInv'  BY <1>2, <1>3, <1>4 DEF IInv, OwnInv
  <1> QED  BY <1>5, <1>6, <1>7 DEF IInv

\* An appended event is new: no other transaction has it.
LEMMA AppendInv ==
  ASSUME IInv, NEW r \in Calls, NEW e \in Events, NEW day \in Days, AppendEvent(r, e, day)
  PROVE  IInv'
  <1>1. /\ Inserted(day) \in Rows /\ Inserted(day).step = "flushed"
        /\ Inserted(day).part # Default => Inserted(day).part = day /\ day \in partitions
        /\ Inserted(day).day = day
    BY DEF IInv, TypeOK, Inserted, Target, Rows
  <1>2. row'[e] = Inserted(day) /\ \A x \in Events : x # e => row'[x] = row[x]
    BY DEF IInv, TypeOK, AppendEvent
  <1>3. row' \in [Events -> Rows]  BY <1>1 DEF IInv, TypeOK, AppendEvent
  <1> DEFINE new == [call[r] EXCEPT !.events = @ \union {e}]
  <1>4. call' = [call EXCEPT ![r] = new]  BY DEF AppendEvent
  <1>5. /\ new \in CallsOf(new.loaded) /\ new.step = "open"
        /\ new.events = call[r].events \union {e}
    BY DEF IInv, TypeOK, CallsOf, AppendEvent
  <1> HIDE DEF new
  <1>6. /\ call'[r] = new /\ \A q \in Calls : q # r => call'[q] = call[q]
        /\ call' = [q \in Calls |-> call'[q]]
    BY <1>4 DEF IInv, TypeOK
  <1>7. row[e].step = "none" /\ conv.live /\ Open(r)  BY DEF AppendEvent, NoRow
  <1>8. /\ e \in bodies' \union unstored' /\ bodies \subseteq bodies' /\ unstored \subseteq unstored'
        /\ bodies' \subseteq Events
    BY DEF AppendEvent, StoreBody, IInv, TypeOK
  <1>9. UNCHANGED <<today, partitions, conv, clean, fill>>  BY DEF AppendEvent
  <1>10. TypeOK'  BY <1>3, <1>5, <1>6, <1>8, <1>9 DEF IInv, TypeOK
  <1>11. RowInv'  BY <1>2, <1>7, <1>9 DEF IInv, RowInv
  <1>12. StoreInv'  BY <1>1, <1>2, <1>8, <1>9 DEF IInv, StoreInv
  <1>13. OwnInv'
    <2>1. /\ \A q \in Calls : Open(q) => e \notin call[q].events /\ call[q].events \subseteq Events
          /\ e \notin fill.restored /\ fill.restored \subseteq Events
      BY <1>7 DEF IInv, OwnInv, TypeOK, CallsOf, Fills
    <2> QED  BY <1>1, <1>2, <1>5, <1>6, <1>7, <1>9, <2>1 DEF IInv, OwnInv
  <1> QED  BY <1>10, <1>11, <1>12, <1>13 DEF IInv

\* A fold of metrics touches no event.
LEMMA FoldInv ==
  ASSUME IInv, NEW r \in Calls, NEW report, FoldStats(r, report)  PROVE IInv'
  <1> DEFINE diff == Changed(call[r].loaded, report)
  <1>1. call' = [call EXCEPT ![r] =
                    [@ EXCEPT !.loaded = report, !.wrote = call[r].wrote \union diff]]
    BY Zenon DEF FoldStats
  <1>2. diff \subseteq Columns  BY DEF Changed
  <1> HIDE DEF diff
  <1> DEFINE wrote == call[r].wrote \union diff
  <1> DEFINE new == [call[r] EXCEPT !.loaded = report, !.wrote = wrote]
  <1>3. call = [q \in Calls |-> call[q]] /\ call[r] \in CallsOf(call[r].loaded)  BY DEF IInv, TypeOK
  <1>4. call'[r] = new  BY <1>1, <1>3
  <1>5. /\ call' = [q \in Calls |-> call'[q]] /\ \A q \in Calls : q # r => call'[q] = call[q]
    BY <1>1, <1>3
  <1>6. wrote \in SUBSET Columns  BY <1>2, <1>3 DEF CallsOf
  <1> HIDE DEF wrote
  <1>7. /\ call'[r].step = call[r].step /\ call'[r].events = call[r].events
        /\ call'[r] \in CallsOf(call'[r].loaded)
    BY <1>3, <1>4, <1>6 DEF CallsOf
  <1>8. UNCHANGED <<today, partitions, row, bodies, conv, clean, fill, unstored>>  BY DEF FoldStats
  <1>9. TypeOK'  BY <1>7, <1>5, <1>8 DEF IInv, TypeOK
  <1>10. RowInv' /\ StoreInv'  BY <1>8 DEF IInv, RowInv, StoreInv
  <1>11. OwnInv'  BY <1>7, <1>5, <1>8 DEF IInv, OwnInv
  <1> QED  BY <1>9, <1>10, <1>11 DEF IInv

\* The end of a request leaves every other as it is.
LEMMA EndedCalls ==
  ASSUME IInv, NEW r \in Calls, NEW step \in {"done", "failed"}, Ended(r, step)
  PROVE  /\ call' = [q \in Calls |-> call'[q]] /\ \A q \in Calls : q # r => call'[q] = call[q]
         /\ call'[r].step = step /\ call'[r] \in CallsOf(call'[r].loaded)
  <1>1. call = [q \in Calls |-> call[q]] /\ call[r] \in CallsOf(call[r].loaded)  BY DEF IInv, TypeOK
  <1> DEFINE first == [call[r] EXCEPT !.step = step]
  <1> DEFINE new == [call[r] EXCEPT !.step = step, !.loaded = None, !.wrote = {}]
  <1>2. call' = [call EXCEPT ![r] = new]  BY Zenon DEF Ended
  <1>3. first \in CallsOf(call[r].loaded) /\ first.step = step  BY <1>1 DEF CallsOf
  <1>4. new = [first EXCEPT !.loaded = None, !.wrote = {}]  OBVIOUS
  <1> HIDE DEF first, new
  <1>5. {} \in SUBSET Columns  OBVIOUS
  <1>6. new \in CallsOf(new.loaded) /\ new.step = step  BY <1>3, <1>4, <1>5 DEF CallsOf
  <1> QED  BY <1>1, <1>2, <1>6

\* A commit shows the events of its request only, which were flushed.
LEMMA CommitInv == ASSUME IInv, NEW r \in Calls, Commit(r)  PROVE IInv'
  <1>1. /\ call' = [q \in Calls |-> call'[q]] /\ \A q \in Calls : q # r => call'[q] = call[q]
        /\ call'[r].step = "done" /\ call'[r] \in CallsOf(call'[r].loaded)
    BY EndedCalls DEF Commit
  <1>2. \A e \in call[r].events : e \in Events /\ row[e].step = "flushed"
    BY DEF IInv, TypeOK, CallsOf, OwnInv, Commit
  <1>3. /\ row' \in [Events -> Rows]
        /\ \A e \in Events : /\ row'[e].day = row[e].day /\ row'[e].part = row[e].part
                             /\ row'[e].step # row[e].step =>
                                   e \in call[r].events /\ row[e].step = "flushed"
                             /\ row'[e].step = "flushed" => row[e].step = "flushed"
    BY <1>2 DEF Commit, IInv, TypeOK, Rows
  <1>4. conv' \in [live: BOOLEAN, metrics: {conv'.metrics}] /\ conv'.live = conv.live
    BY DEF Commit, IInv, TypeOK
  <1>5. UNCHANGED <<today, partitions, bodies, clean, fill, unstored>>  BY DEF Commit
  <1>6. TypeOK'  BY <1>1, <1>3, <1>4, <1>5 DEF IInv, TypeOK
  <1>7. RowInv'  BY <1>3, <1>4 DEF IInv, RowInv
  <1>8. StoreInv'  BY <1>3, <1>5 DEF IInv, StoreInv
  <1>9. OwnInv'
    <2>1. \A q \in Calls : Open(q)' => q # r /\ Open(q) /\ call'[q] = call[q]  BY <1>1
    <2>2. Open(r)  BY DEF Commit
    <2>3. \A q \in Calls : Open(q)' => \A e \in call[q].events : e \in Events /\ row'[e].step = "flushed"
      BY <1>3, <2>1, <2>2 DEF IInv, OwnInv, TypeOK, CallsOf
    <2>4. \A e \in fill.restored : e \in Events /\ row'[e].step = "flushed"
      BY <1>3, <2>2 DEF IInv, OwnInv, TypeOK, Fills
    <2> QED  BY <1>5, <2>1, <2>3, <2>4 DEF IInv, OwnInv
  <1> QED  BY <1>6, <1>7, <1>8, <1>9 DEF IInv

\* What undoing some events does to the rows.
LEMMA UndoneRows ==
  ASSUME TypeOK, NEW gone \in SUBSET Events, row' = Undone(gone)
  PROVE  /\ row' \in [Events -> Rows]
         /\ \A e \in Events : IF e \in gone THEN row'[e].step = "undone" ELSE row'[e] = row[e]
  <1>1. \A e \in Events : Gone(e, "undone") \in Rows /\ Gone(e, "undone").step = "undone"
    BY DEF TypeOK, Rows, Gone
  <1> QED  BY <1>1 DEF TypeOK, Undone

\* A request that fails undoes no event of another.
LEMMA FailsInv == ASSUME IInv, NEW r \in Calls, Fails(r)  PROVE IInv'
  <1>1. /\ call' = [q \in Calls |-> call'[q]] /\ \A q \in Calls : q # r => call'[q] = call[q]
        /\ call'[r].step = "failed" /\ call'[r] \in CallsOf(call'[r].loaded)
    BY EndedCalls DEF Fails
  <1>2. call[r].events \in SUBSET Events  BY DEF IInv, TypeOK, CallsOf
  <1>3. /\ row' \in [Events -> Rows]
        /\ \A e \in Events : IF e \in call[r].events THEN row'[e].step = "undone"
                                                     ELSE row'[e] = row[e]
    BY <1>2, UndoneRows DEF Fails, IInv
  <1>4. UNCHANGED <<today, partitions, bodies, conv, clean, fill, unstored>>  BY DEF Fails
  <1>5. TypeOK'  BY <1>1, <1>3, <1>4 DEF IInv, TypeOK
  <1>6. RowInv'  BY <1>3, <1>4 DEF IInv, RowInv
  <1>7. StoreInv'  BY <1>3, <1>4 DEF IInv, StoreInv
  <1>8. OwnInv'
    <2>1. \A q \in Calls : Open(q)' => q # r /\ Open(q) /\ call'[q] = call[q]  BY <1>1
    <2>2. Open(r)  BY DEF Fails
    <2>3. \A q \in Calls : Open(q)' => \A e \in call[q].events : e \in Events /\ row'[e].step = "flushed"
      BY <1>3, <2>1, <2>2 DEF IInv, OwnInv, TypeOK, CallsOf
    <2>4. \A e \in fill.restored : e \in Events /\ row'[e].step = "flushed"
      BY <1>3, <2>2 DEF IInv, OwnInv, TypeOK, Fills
    <2> QED  BY <1>4, <2>1, <2>3, <2>4 DEF IInv, OwnInv
  <1> QED  BY <1>5, <1>6, <1>7, <1>8 DEF IInv

\* The foreign key: no flushed row is there, and the committed ones go too.
LEMMA DeleteInv == ASSUME IInv, DeleteConversation  PROVE IInv'
  <1>1. \A e \in Events : row[e].step # "flushed"  BY DEF DeleteConversation, Flushed
  <1>2. \A e \in Events : Gone(e, "deleted") \in Rows /\ Gone(e, "deleted").step = "deleted"
    BY DEF IInv, TypeOK, Rows, Gone
  <1>3. /\ row' \in [Events -> Rows]
        /\ \A e \in Events : row'[e].step \notin {"flushed", "committed"}
    BY <1>1, <1>2 DEF DeleteConversation, Visible, IInv, TypeOK, Rows
  <1>4. conv' \in [live: BOOLEAN, metrics: {conv'.metrics}]  BY DEF DeleteConversation
  <1>5. UNCHANGED <<today, partitions, bodies, call, clean, fill, unstored>>  BY DEF DeleteConversation
  <1>6. TypeOK'  BY <1>3, <1>4, <1>5 DEF IInv, TypeOK
  <1>7. RowInv' /\ StoreInv'  BY <1>3, <1>5 DEF IInv, RowInv, StoreInv
  <1>8. OwnInv'
    <2>1. /\ \A r \in Calls : Open(r) => call[r].events = {}
          /\ fill.restored = {}
      BY <1>1 DEF IInv, OwnInv, TypeOK, CallsOf, Fills
    <2> QED  BY <1>5, <2>1 DEF OwnInv
  <1> QED  BY <1>6, <1>7, <1>8 DEF IInv

\* A conversation that is made (again) has no rows to start with.
LEMMA UpsertInv == ASSUME IInv, NEW r \in Calls, UpsertCreates(r)  PROVE IInv'
  <1> DEFINE first == [NoCall EXCEPT !.kind = "upsert"]
  <1> DEFINE new == [NoCall EXCEPT !.kind = "upsert", !.step = "done"]
  <1>1. call' = [call EXCEPT ![r] = new]  BY Zenon DEF UpsertCreates
  <1>2. first \in CallsOf(None)  BY DEF NoCall, CallsOf
  <1>3. new = [first EXCEPT !.step = "done"]  OBVIOUS
  <1> HIDE DEF first, new
  <1>4. new \in CallsOf(new.loaded) /\ new.step = "done"  BY <1>2, <1>3 DEF CallsOf
  <1>5. /\ call'[r] = new /\ \A q \in Calls : q # r => call'[q] = call[q]
        /\ call' = [q \in Calls |-> call'[q]]
    BY <1>1 DEF IInv, TypeOK
  <1>6. conv'.live /\ conv' \in [live: BOOLEAN, metrics: {conv'.metrics}]  BY DEF UpsertCreates
  <1>7. UNCHANGED <<today, partitions, row, bodies, clean, fill, unstored>>  BY DEF UpsertCreates
  <1>8. TypeOK'  BY <1>4, <1>5, <1>6, <1>7 DEF IInv, TypeOK
  <1>9. RowInv' /\ StoreInv'  BY <1>6, <1>7 DEF IInv, RowInv, StoreInv
  <1>10. OwnInv'  BY <1>4, <1>5, <1>7 DEF IInv, OwnInv
  <1> QED  BY <1>8, <1>9, <1>10 DEF IInv

\* The rows of the partitions that go are gone before their days are cleaned.
LEMMA EnsureInv == ASSUME IInv, EnsurePartitions  PROVE IInv'
  <1>1. \A e \in Events : row[e].step # "flushed"  BY DEF EnsurePartitions, Flushed
  <1>2. \A e \in Events : Gone(e, "deleted") \in Rows /\ Gone(e, "deleted").step = "deleted"
    BY DEF IInv, TypeOK, Rows, Gone
  <1>3. /\ row' \in [Events -> Rows]
        /\ \A e \in Events : /\ row'[e].step # "flushed"
                             /\ row'[e].step = "committed" =>
                                   row'[e] = row[e] /\ row[e].part \notin Expired
    BY <1>1, <1>2 DEF EnsurePartitions, Visible, IInv, TypeOK, Rows
  <1>4. UNCHANGED <<today, bodies, conv, call, fill, unstored>>  BY DEF EnsurePartitions
  <1>5. partitions' = (partitions \union Window) \ Expired /\ clean' = Expired
    BY DEF EnsurePartitions
  <1>6. Window \subseteq Int  BY DEF Window, IInv, TypeOK
  <1>7. TypeOK'  BY <1>3, <1>4, <1>5, <1>6 DEF IInv, TypeOK
  <1>8. RowInv'  BY <1>3, <1>4 DEF IInv, RowInv
  <1>9. StoreInv'  BY <1>3, <1>4, <1>5 DEF IInv, StoreInv
  <1>10. OwnInv'
    <2>1. /\ \A r \in Calls : Open(r) => call[r].events = {}
          /\ fill.restored = {}
      BY <1>1 DEF IInv, OwnInv, TypeOK, CallsOf, Fills
    <2> QED  BY <1>4, <2>1 DEF OwnInv
  <1> QED  BY <1>7, <1>8, <1>9, <1>10 DEF IInv

\* The bodies that are cleaned are of days that no partition holds.
LEMMA CleanInv == ASSUME IInv, CleanStore  PROVE IInv'
  <1>1. UNCHANGED <<today, partitions, row, conv, call, fill, unstored>> /\ clean' = {}
    BY DEF CleanStore
  <1>2. bodies' \subseteq bodies /\ \A e \in bodies : row[e].day \notin clean => e \in bodies'
    BY DEF CleanStore
  <1>3. TypeOK'  BY <1>1, <1>2 DEF IInv, TypeOK
  <1>4. StoreInv'  BY <1>1, <1>2 DEF IInv, StoreInv
  <1>5. RowInv' /\ OwnInv'  BY <1>1 DEF IInv, RowInv, OwnInv
  <1> QED  BY <1>3, <1>4, <1>5 DEF IInv

\* What backfill notes in its own state changes nothing else.
LEMMA NoteInv ==
  ASSUME IInv, fill' \in Fills, fill'.restored = fill.restored,
         UNCHANGED <<today, partitions, row, bodies, conv, call, clean, unstored>>
  PROVE  IInv'
  BY DEF IInv, TypeOK, RowInv, StoreInv, OwnInv

LEMMA BeginsInv == ASSUME IInv, BackfillBegins  PROVE IInv'
  <1> DEFINE first == [NoFill EXCEPT !.step = "open"]
  <1>1. first \in Fills /\ first.restored = {}  BY DEF NoFill, Fills
  <1> DEFINE new == [NoFill EXCEPT !.step = "open", !.todo = bodies]
  <1>2. new = [first EXCEPT !.todo = bodies]  OBVIOUS
  <1> HIDE DEF first
  <1>3. new \in Fills /\ new.restored = {}  BY <1>1, <1>2 DEF IInv, TypeOK, Fills
  <1>4. fill' = new  BY Zenon DEF BackfillBegins
  <1> HIDE DEF new
  <1> QED  BY <1>3, <1>4 DEF BackfillBegins, IInv, TypeOK, RowInv, StoreInv, OwnInv

LEMMA SkipsInv == ASSUME IInv, NEW e \in Events, BackfillSkips(e)  PROVE IInv'
  <1>1. fill' \in Fills /\ fill'.restored = fill.restored
    BY DEF BackfillSkips, Next1, IInv, TypeOK, Fills
  <1> QED  BY <1>1, NoteInv DEF BackfillSkips

LEMMA WaitsInv == ASSUME IInv, NEW e \in Events, BackfillWaits(e)  PROVE IInv'
  <1>1. fill' \in Fills /\ fill'.restored = fill.restored
    BY DEF BackfillWaits, IInv, TypeOK, Fills
  <1> QED  BY <1>1, NoteInv DEF BackfillWaits

\* What backfill inserts was no one's, and has its body.
LEMMA InsertsInv == ASSUME IInv, NEW e \in Events, BackfillInserts(e)  PROVE IInv'
  <1> DEFINE day == row[e].day
  <1> DEFINE new == Inserted(day)
  <1>1. day \in Days \union {None}  BY DEF IInv, TypeOK, Rows
  <1>2. /\ new \in Rows /\ new.step = "flushed" /\ new.day = day
        /\ new.part # Default => new.part = day /\ day \in partitions
    BY <1>1 DEF IInv, TypeOK, Inserted, Target, Rows
  <1>3. row' = [row EXCEPT ![e] = new]  BY DEF BackfillInserts
  <1> HIDE DEF new
  <1>4. /\ row' \in [Events -> Rows] /\ row'[e] = new
        /\ \A x \in Events : x # e => row'[x] = row[x]
    BY <1>2, <1>3 DEF IInv, TypeOK
  <1>5. fill' \in Fills /\ fill'.restored = fill.restored \union {e}
    BY DEF BackfillInserts, IInv, TypeOK, Fills
  <1>6. row[e].step \in {"undone", "deleted"} /\ conv.live /\ e \in bodies  BY DEF BackfillInserts
  <1>7. UNCHANGED <<today, partitions, bodies, conv, call, clean, unstored>>  BY DEF BackfillInserts
  <1>8. TypeOK'  BY <1>4, <1>5, <1>7 DEF IInv, TypeOK
  <1>9. RowInv'  BY <1>4, <1>6, <1>7 DEF IInv, RowInv
  <1>10. StoreInv'  BY <1>2, <1>4, <1>6, <1>7 DEF IInv, StoreInv
  <1>11. OwnInv'
    <2>1. /\ \A r \in Calls : Open(r) => e \notin call[r].events /\ call[r].events \subseteq Events
          /\ fill.restored \subseteq Events
      BY <1>6 DEF IInv, OwnInv, TypeOK, CallsOf, Fills
    <2> QED  BY <1>2, <1>4, <1>5, <1>7, <2>1 DEF IInv, OwnInv
  <1> QED  BY <1>8, <1>9, <1>10, <1>11 DEF IInv

LEMMA BackfillCommitsInv == ASSUME IInv, BackfillCommits  PROVE IInv'
  <1>1. \A e \in fill.restored : e \in Events /\ row[e].step = "flushed"
    BY DEF IInv, TypeOK, Fills, OwnInv
  <1>2. /\ row' \in [Events -> Rows]
        /\ \A e \in Events : /\ row'[e].day = row[e].day /\ row'[e].part = row[e].part
                             /\ row'[e].step # row[e].step =>
                                   e \in fill.restored /\ row[e].step = "flushed"
    BY <1>1 DEF BackfillCommits, IInv, TypeOK, Rows
  <1>3. fill' \in Fills /\ fill'.restored = {}  BY DEF BackfillCommits, NoFill, Fills
  <1>4. UNCHANGED <<today, partitions, bodies, conv, call, clean, unstored>>  BY DEF BackfillCommits
  <1>5. TypeOK'  BY <1>2, <1>3, <1>4 DEF IInv, TypeOK
  <1>6. RowInv' /\ StoreInv'  BY <1>2, <1>4 DEF IInv, RowInv, StoreInv
  <1>7. OwnInv'
    <2>1. \A r \in Calls : Open(r) => \A e \in call[r].events : e \in Events /\ row'[e].step = "flushed"
      BY <1>2 DEF IInv, OwnInv, TypeOK, CallsOf
    <2> QED  BY <1>3, <1>4, <2>1 DEF IInv, OwnInv
  <1> QED  BY <1>5, <1>6, <1>7 DEF IInv

LEMMA BackfillFailsInv == ASSUME IInv, BackfillFails  PROVE IInv'
  <1>1. fill.restored \in SUBSET Events  BY DEF IInv, TypeOK, Fills
  <1>2. /\ row' \in [Events -> Rows]
        /\ \A e \in Events : IF e \in fill.restored THEN row'[e].step = "undone"
                                                    ELSE row'[e] = row[e]
    BY <1>1, UndoneRows DEF BackfillFails, IInv
  <1>3. fill' \in Fills /\ fill'.restored = {}  BY DEF BackfillFails, NoFill, Fills
  <1>4. UNCHANGED <<today, partitions, bodies, conv, call, clean, unstored>>  BY DEF BackfillFails
  <1>5. TypeOK'  BY <1>2, <1>3, <1>4 DEF IInv, TypeOK
  <1>6. RowInv' /\ StoreInv'  BY <1>2, <1>4 DEF IInv, RowInv, StoreInv
  <1>7. OwnInv'
    <2>1. \A r \in Calls : Open(r) => \A e \in call[r].events : e \in Events /\ row'[e].step = "flushed"
      BY <1>2 DEF IInv, OwnInv, TypeOK, CallsOf
    <2> QED  BY <1>3, <1>4, <2>1 DEF IInv, OwnInv
  <1> QED  BY <1>5, <1>6, <1>7 DEF IInv

LEMMA StepInv == IInv /\ [Next]_vars => IInv'
  <1> SUFFICES ASSUME IInv, [Next]_vars PROVE IInv'  OBVIOUS
  <1>1. CASE \E r \in Calls : Request(r)
    <2> PICK r \in Calls : Request(r)  BY <1>1
    <2>1. \A kind \in Kinds : Begin(r, kind) => IInv'  BY BeginInv
    <2>2. CASE CreateEvent(r) \/ WriteEventsBatch(r) \/ OnEvent(r) \/ OnConversationUpdate(r)
               \/ UpdateConversation(r)
      BY <2>1, <2>2 DEF CreateEvent, WriteEventsBatch, OnEvent, OnConversationUpdate,
                        UpdateConversation
    <2>3. CASE UpsertCreates(r)  BY <2>3, UpsertInv
    <2>4. CASE \E e \in Events, day \in Days : AppendEvent(r, e, day)  BY <2>4, AppendInv
    <2>5. CASE \E report \in Reports : FoldStats(r, report)  BY <2>5, FoldInv
    <2>6. CASE Commit(r) \/ Fails(r)  BY <2>6, CommitInv, FailsInv
    <2> QED  BY <2>2, <2>3, <2>4, <2>5, <2>6 DEF Request
  <1>2. CASE DeleteConversation  BY <1>2, DeleteInv
  <1>3. CASE EnsurePartitions  BY <1>3, EnsureInv
  <1>4. CASE CleanStore  BY <1>4, CleanInv
  <1>5. CASE Backfill
    <2>1. CASE BackfillBegins \/ BackfillCommits \/ BackfillFails
      BY <2>1, BeginsInv, BackfillCommitsInv, BackfillFailsInv
    <2>2. CASE \E e \in Events : BackfillSkips(e) \/ BackfillWaits(e) \/ BackfillInserts(e)
      BY <2>2, SkipsInv, WaitsInv, InsertsInv
    <2> QED  BY <1>5, <2>1, <2>2 DEF Backfill
  <1>6. CASE Tick \/ UNCHANGED vars
    <2>1. today' \in Nat /\ UNCHANGED <<partitions, row, bodies, conv, call, clean, fill, unstored>>
      BY <1>6 DEF Tick, vars, IInv, TypeOK
    <2> QED  BY <2>1 DEF IInv, TypeOK, RowInv, StoreInv, OwnInv
  <1> QED  BY <1>1, <1>2, <1>3, <1>4, <1>5, <1>6 DEF Next

\* The invariant, in every reachable state.
THEOREM InvCorrect == Spec => []IInv
  BY InitInv, StepInv, PTL DEF Spec

\* No event outlives its conversation: an append, a backfill and the deletion of the
\* conversation keep the foreign key, however they interleave.
THEOREM ParentsCorrect == Spec => []EventsHaveParents
  <1>1. IInv => EventsHaveParents  BY DEF IInv, RowInv, EventsHaveParents, Visible
  <1> QED  BY InvCorrect, <1>1, PTL

\* The body of a row in a dated partition is there as long as the row is, unless the
\* store did not take it: neither the sweep of another day nor a failure takes it.
THEOREM BodiesCorrect == Spec => []RetainedBodiesAreStored
  <1>1. IInv => RetainedBodiesAreStored
    BY DEF IInv, StoreInv, RetainedBodiesAreStored, Visible
  <1> QED  BY InvCorrect, <1>1, PTL
=============================================================================
