------------------------ MODULE UsageMetering_proofs -------------------------
(***************************************************************************)
(* Proofs about UsageMetering, for any clock, retention, preallocation,    *)
(* lag and number of processes: what the partition sweep drops, which days *)
(* it shields from DEFAULT, and that a settled minute stays exact.         *)
(***************************************************************************)
EXTENDS UsageMetering, TLAPS

Steps    == {"idle", "served", "inserted", "recorded", "expired", "lost"}
CallRows == [step: Steps, kind: {None, "plain", "stream", "sse"},
             minute: Times \union {None}, part: Int \union {Default, None}]
Sums     == [target: Times \union {None}, rows: SUBSET Calls, quiet: BOOLEAN]

TypeOK ==
    /\ now \in Times /\ partitions \subseteq Int
    /\ call \in [Calls -> CallRows]
    /\ projection \in [Times -> SUBSET Calls] /\ agg \in [Procs -> Sums]
    /\ swept \in Int \union {None} /\ settled \subseteq Times

\* A row that is in the table, uncommitted or not, and one that was.
Live(c)   == call[c].step \in {"inserted", "recorded"}
Placed(c) == Live(c) \/ call[c].step = "expired"
DayOf(c)  == Day(call[c].minute)

\* A row is in the partition of its day or in DEFAULT, and the rows of one day are
\* together: DEFAULT holds them only as long as their day has no partition.
PlaceInv ==
    /\ \A c \in Calls : Placed(c) => /\ call[c].minute \in Times /\ call[c].minute <= now
                                     /\ call[c].part \in {Default, DayOf(c)}
    /\ \A c \in Calls : call[c].minute # None => Placed(c)
    /\ \A c \in Calls : Live(c) =>
          /\ call[c].part = Default => DayOf(c) \notin partitions
          /\ call[c].part # Default /\ DayOf(c) = Day(now) => DayOf(c) \in partitions
    /\ \A c, d \in Calls : Live(c) /\ Live(d) /\ DayOf(c) = DayOf(d) => call[c].part = call[d].part
    /\ \A c \in Calls : call[c].step = "expired" =>
          DayOf(c) < Day(now) /\ \A d \in Calls : Live(d) => DayOf(d) # DayOf(c)

\* The days that the last sweep allocated are still there.
WindowInv ==
    swept # None => /\ swept <= Day(now)
                    /\ Window(swept) \subseteq partitions

\* The rows that were ever committed for a minute.
Full(m)   == {c \in Calls : call[c].minute = m /\ call[c].step \in {"recorded", "expired"}}
\* A minute whose exact sum was written, or is about to be.
Sealed(m) == m \in settled \/ \E p \in Procs : agg[p].target = m /\ agg[p].quiet

\* Whatever is summed for a minute was committed; once the minute is sealed, a process
\* sums all of it or, when its rows are dropped, nothing.
SumInv ==
    /\ \A p \in Procs : agg[p].target # None =>
          /\ agg[p].rows \subseteq Full(agg[p].target)
          /\ agg[p].quiet => agg[p].rows = Full(agg[p].target)
    /\ \A m \in Times : projection[m] \subseteq Full(m)
    /\ \A m \in settled : projection[m] = Full(m)
    /\ \A m \in Times : Sealed(m) =>
          /\ m < now /\ \A c \in Calls : call[c].minute = m => call[c].step # "inserted"
          /\ \A p \in Procs : agg[p].target = m => agg[p].rows \in {Full(m), {}}

IInv == TypeOK /\ PlaceInv /\ WindowInv /\ SumInv

USE MeteringAssumption, NoneAssumption

\* Days do not run backwards.
LEMMA DayType == \A m \in Times : Day(m) \in Nat
  BY DEF Times, Day
LEMMA DayMonotone == \A m, n \in Times : m <= n => Day(m) <= Day(n)
  BY DEF Times, Day

LEMMA InitInv == Init => IInv
  <1> SUFFICES ASSUME Init PROVE IInv  OBVIOUS
  <1>1. NoCall \in CallRows /\ NoCall.minute = None /\ NoCall.step = "idle"
    BY DEF NoCall, CallRows, Steps
  <1>2. NoSweep \in Sums /\ NoSweep.target = None /\ NoSweep.quiet = FALSE  BY DEF NoSweep, Sums
  <1>3. TypeOK  BY <1>1, <1>2 DEF Init, TypeOK, Times
  <1>4. /\ \A c \in Calls : call[c].minute = None /\ call[c].step = "idle"
        /\ \A p \in Procs : agg[p].target = None
    BY <1>1, <1>2 DEF Init
  <1>5. PlaceInv  BY <1>4 DEF PlaceInv, Live, Placed
  <1>6. WindowInv  BY DEF Init, WindowInv
  <1>7. SumInv
    <2>1. \A m \in Times : ~Sealed(m)  BY <1>4 DEF Init, Sealed, Times
    <2>2. \A m \in Times : projection[m] = {}  BY DEF Init
    <2> QED  BY <1>4, <2>1, <2>2 DEF Init, SumInv
  <1> QED  BY <1>3, <1>5, <1>6, <1>7 DEF IInv

\* The sums do not notice a step in which no row is committed, no committed row is
\* lost, and an insert is stamped by the clock.
LEMMA SumsKept ==
  ASSUME TypeOK, SumInv, now' \in Times, now <= now', UNCHANGED <<projection, agg, settled>>,
         \A c \in Calls : \/ /\ call'[c].minute = call[c].minute
                             /\ call'[c].step \in {"recorded", "expired"} <=>
                                call[c].step \in {"recorded", "expired"}
                             /\ call'[c].step = "inserted" => call[c].step = "inserted"
                          \/ /\ call[c].step \notin {"recorded", "expired"}
                             /\ call'[c].step \notin {"recorded", "expired"}
                             /\ call'[c].step = "inserted" => call'[c].minute = now
  PROVE  SumInv'
  <1>1. \A m : Full(m)' = Full(m)  BY DEF Full
  <1>2. \A m \in Times : Sealed(m)' <=> Sealed(m)  BY DEF Sealed
  <1>3. \A m \in Times : Sealed(m)' => /\ m < now'
                                       /\ \A c \in Calls : call'[c].minute = m => call'[c].step # "inserted"
    BY <1>2 DEF SumInv, Times, TypeOK
  <1>4. \A p \in Procs : agg[p].target # None => agg[p].target \in Times  BY DEF TypeOK, Sums
  <1> QED  BY <1>1, <1>2, <1>3, <1>4 DEF SumInv

\* Nor do the partitions when rows that were not in the table stay out of it, or rows
\* that were not yet committed leave it.
LEMMA PlacesKept ==
  ASSUME PlaceInv, UNCHANGED <<now, partitions>>,
         \A c \in Calls : \/ /\ call'[c].minute = call[c].minute /\ call'[c].part = call[c].part
                             /\ Placed(c)' <=> Placed(c)
                             /\ Live(c)' <=> Live(c)
                          \/ call'[c].minute = None /\ ~Placed(c)'
  PROVE  PlaceInv'
  <1>1. \A c \in Calls : Placed(c)' => /\ Placed(c) /\ DayOf(c)' = DayOf(c)
                                       /\ call'[c].minute = call[c].minute
                                       /\ call'[c].part = call[c].part
                                       /\ Live(c)' <=> Live(c)
    BY DEF DayOf, PlaceInv, Placed
  <1>2. \A c \in Calls : Live(c)' => Placed(c)'  BY DEF Placed
  <1>3. \A c \in Calls : call'[c].step = "expired" => Placed(c)' /\ call[c].step = "expired"
    BY <1>1 DEF Placed, Live
  <1>4. \A c \in Calls : call'[c].minute # None => Placed(c)'  BY DEF PlaceInv
  <1> QED  BY <1>1, <1>2, <1>3, <1>4 DEF PlaceInv

LEMMA ServeInv ==
  ASSUME IInv, NEW c \in Calls, NEW kind \in {"plain", "stream", "sse"}, Serve(c, kind)
  PROVE  IInv'
  <1> DEFINE new == [call[c] EXCEPT !.step = "served", !.kind = kind]
  <1>1. call' = [call EXCEPT ![c] = new] /\ call[c].step = "idle"  BY DEF Serve
  <1>2. call[c] \in CallRows  BY DEF IInv, TypeOK
  <1>3. /\ new \in CallRows /\ new.step = "served"
        /\ new.minute = call[c].minute /\ new.part = call[c].part
    BY <1>2 DEF CallRows, Steps
  <1> HIDE DEF new
  <1>4. /\ call' \in [Calls -> CallRows] /\ call'[c] = new
        /\ \A d \in Calls : d # c => call'[d] = call[d]
    BY <1>1, <1>3 DEF IInv, TypeOK
  <1>5. UNCHANGED <<table, now, partitions, projection, agg, swept, settled>>  BY DEF Serve
  <1>6. TypeOK'  BY <1>4, <1>5 DEF IInv, TypeOK
  <1>7. PlaceInv'
    <2>1. \A d \in Calls : (Live(d)' <=> Live(d)) /\ (Placed(d)' <=> Placed(d))
      BY <1>1, <1>3, <1>4 DEF Live, Placed
    <2>2. \A d \in Calls : call'[d].minute = call[d].minute /\ call'[d].part = call[d].part
      BY <1>3, <1>4
    <2> QED  BY <1>5, <2>1, <2>2, PlacesKept DEF IInv
  <1>8. WindowInv'  BY <1>5 DEF IInv, WindowInv, Window
  <1>9. SumInv'
    <2>1. now \in Times /\ now <= now'  BY <1>5 DEF IInv, TypeOK, Times
    <2> QED  BY <1>1, <1>3, <1>4, <1>5, <2>1, SumsKept DEF IInv
  <1> QED  BY <1>6, <1>7, <1>8, <1>9 DEF IInv

\* A call whose row was not committed is lost without a trace.
LEMMA LoseInv ==
  ASSUME IInv, NEW c \in Calls, Lose(c), call[c].step \in {"served", "inserted"}
  PROVE  IInv'
  <1> DEFINE new == [NoCall EXCEPT !.step = "lost"]
  <1>1. call' = [call EXCEPT ![c] = new]  BY DEF Lose
  <1>2. new \in CallRows /\ new.step = "lost" /\ new.minute = None
    BY DEF NoCall, CallRows, Steps
  <1> HIDE DEF new
  <1>3. /\ call' \in [Calls -> CallRows] /\ call'[c] = new
        /\ \A d \in Calls : d # c => call'[d] = call[d]
    BY <1>1, <1>2 DEF IInv, TypeOK
  <1>4. UNCHANGED <<table, now, partitions, projection, agg, swept, settled>>  BY DEF Lose
  <1>5. TypeOK'  BY <1>3, <1>4 DEF IInv, TypeOK
  <1>6. PlaceInv'
    <2>1. call'[c].minute = None /\ ~Placed(c)'  BY <1>2, <1>3 DEF Placed, Live
    <2>2. \A d \in Calls : d # c => (Live(d)' <=> Live(d)) /\ (Placed(d)' <=> Placed(d))
      BY <1>3 DEF Live, Placed
    <2> QED  BY <1>3, <1>4, <2>1, <2>2, PlacesKept DEF IInv
  <1>7. WindowInv'  BY <1>4 DEF IInv, WindowInv, Window
  <1>8. SumInv'
    <2>1. now \in Times /\ now <= now'  BY <1>4 DEF IInv, TypeOK, Times
    <2> QED  BY <1>2, <1>3, <1>4, <2>1, SumsKept DEF IInv
  <1> QED  BY <1>5, <1>6, <1>7, <1>8 DEF IInv

\* A row is stamped and routed by the clock: it joins the rows of its day.
LEMMA InsertInv == ASSUME IInv, NEW c \in Calls, Insert(c)  PROVE IInv'
  <1> DEFINE today == Day(now)
  <1> DEFINE new == [call[c] EXCEPT !.step = "inserted", !.minute = now, !.part = Target(today)]
  <1>1. call' = [call EXCEPT ![c] = new] /\ call[c].step = "served"  BY DEF Insert
  <1>2. call[c] \in CallRows /\ now \in Times  BY DEF IInv, TypeOK
  <1>3. /\ today \in Nat
        /\ Target(today) = IF today \in partitions THEN today ELSE Default
    BY <1>2, DayType DEF Target
  <1>4. new \in CallRows /\ new.step = "inserted" /\ new.minute = now /\ new.part = Target(today)
    <2> DEFINE part == Target(today)
    <2> DEFINE first == [call[c] EXCEPT !.step = "inserted", !.minute = now]
    <2>1. part \in Int \union {Default}  BY <1>3
    <2> HIDE DEF part
    <2>2. first \in CallRows /\ first.step = "inserted" /\ first.minute = now
      BY <1>2 DEF CallRows, Steps
    <2>3. new = [first EXCEPT !.part = part]  BY DEF part
    <2> HIDE DEF first, new
    <2>4. new \in CallRows /\ new.step = "inserted" /\ new.minute = now /\ new.part = part
      BY <2>1, <2>2, <2>3 DEF CallRows
    <2> QED  BY <2>4 DEF part
  <1> HIDE DEF new
  <1>5. /\ call' \in [Calls -> CallRows] /\ call'[c] = new
        /\ \A d \in Calls : d # c => call'[d] = call[d]
    BY <1>1, <1>4 DEF IInv, TypeOK
  <1>6. UNCHANGED <<table, now, partitions, projection, agg, swept, settled>>  BY DEF Insert
  <1>7. TypeOK'  BY <1>5, <1>6 DEF IInv, TypeOK
  <1>8. PlaceInv'
    <2>1. /\ Live(c)' /\ Placed(c)' /\ DayOf(c)' = today /\ call'[c].step # "expired"
          /\ call'[c].minute = now /\ call'[c].part = Target(today)
      BY <1>4, <1>5 DEF Live, Placed, DayOf
    <2>2. \A d \in Calls : d # c => /\ Live(d)' <=> Live(d)
                                    /\ Placed(d)' <=> Placed(d)
                                    /\ DayOf(d)' = DayOf(d)
      BY <1>5 DEF Live, Placed, DayOf
    <2>3. \A d \in Calls : Live(d) /\ DayOf(d) = today => call[d].part = Target(today)
      BY <1>3 DEF IInv, PlaceInv, Placed
    <2>4. \A d \in Calls : call[d].step = "expired" => DayOf(d) # today
      BY <1>2, <1>3, DayType DEF IInv, PlaceInv, Placed, DayOf
    <2>5. now' = now /\ partitions' = partitions /\ now <= now  BY <1>2, <1>6 DEF Times
    <2>6. \A d \in Calls : Placed(d)' => /\ call'[d].minute \in Times /\ call'[d].minute <= now
                                         /\ call'[d].part \in {Default, DayOf(d)'}
      BY <1>2, <1>3, <1>5, <2>1, <2>2, <2>5 DEF IInv, PlaceInv
    <2>7. \A d \in Calls : call'[d].minute # None => Placed(d)'
      BY <1>5, <2>1, <2>2 DEF IInv, PlaceInv
    <2>8. \A d \in Calls : Live(d)' =>
             /\ call'[d].part = Default => DayOf(d)' \notin partitions
             /\ call'[d].part # Default /\ DayOf(d)' = today => DayOf(d)' \in partitions
      BY <1>3, <1>5, <2>1, <2>2 DEF IInv, PlaceInv
    <2>9. \A d, e \in Calls : Live(d)' /\ Live(e)' /\ DayOf(d)' = DayOf(e)' =>
                                 call'[d].part = call'[e].part
      BY <1>5, <2>1, <2>2, <2>3 DEF IInv, PlaceInv
    <2>10. \A d \in Calls : call'[d].step = "expired" =>
              DayOf(d)' < today /\ \A e \in Calls : Live(e)' => DayOf(e)' # DayOf(d)'
      BY <1>5, <2>1, <2>2, <2>4 DEF IInv, PlaceInv
    <2> QED  BY <2>5, <2>6, <2>7, <2>8, <2>9, <2>10 DEF PlaceInv
  <1>9. WindowInv'  BY <1>6 DEF IInv, WindowInv, Window
  <1>10. SumInv'
    <2>1. now <= now' /\ now' \in Times  BY <1>2, <1>6 DEF Times
    <2> QED  BY <1>1, <1>4, <1>5, <1>6, <2>1, SumsKept DEF IInv
  <1> QED  BY <1>7, <1>8, <1>9, <1>10 DEF IInv

\* A commit makes a row one of its minute: no sum of that minute was sealed.
LEMMA CommitInv == ASSUME IInv, NEW c \in Calls, Commit(c)  PROVE IInv'
  <1> DEFINE new == [call[c] EXCEPT !.step = "recorded", !.kind = None]
  <1>1. call' = [call EXCEPT ![c] = new] /\ call[c].step = "inserted"  BY DEF Commit
  <1>2. call[c] \in CallRows /\ now \in Times  BY DEF IInv, TypeOK
  <1>3. /\ new \in CallRows /\ new.step = "recorded"
        /\ new.minute = call[c].minute /\ new.part = call[c].part
    BY <1>2 DEF CallRows, Steps
  <1> HIDE DEF new
  <1>4. /\ call' \in [Calls -> CallRows] /\ call'[c] = new
        /\ \A d \in Calls : d # c => call'[d] = call[d]
    BY <1>1, <1>3 DEF IInv, TypeOK
  <1>5. UNCHANGED <<table, now, partitions, projection, agg, swept, settled>>  BY DEF Commit
  <1>6. TypeOK'  BY <1>4, <1>5 DEF IInv, TypeOK
  <1>7. PlaceInv'
    <2>1. \A d \in Calls : (Live(d)' <=> Live(d)) /\ (Placed(d)' <=> Placed(d))
      BY <1>1, <1>3, <1>4 DEF Live, Placed
    <2>2. \A d \in Calls : call'[d].minute = call[d].minute /\ call'[d].part = call[d].part
      BY <1>3, <1>4
    <2> QED  BY <1>5, <2>1, <2>2, PlacesKept DEF IInv
  <1>8. WindowInv'  BY <1>5 DEF IInv, WindowInv, Window
  <1>9. SumInv'
    <2>1. \A m \in Times : /\ Full(m) \subseteq Full(m)'
                           /\ m # call[c].minute => Full(m)' = Full(m)
      BY <1>1, <1>3, <1>4 DEF Full
    <2>2. \A m \in Times : (Sealed(m)' <=> Sealed(m)) /\ (Sealed(m) => m # call[c].minute)
      BY <1>1, <1>5 DEF Sealed, IInv, SumInv
    <2>3. \A m \in Times : Sealed(m) =>
             /\ m < now /\ \A d \in Calls : call'[d].minute = m => call'[d].step # "inserted"
             /\ \A p \in Procs : agg[p].target = m => agg[p].rows \in {Full(m)', {}}
      BY <1>3, <1>4, <2>1, <2>2 DEF IInv, SumInv
    <2>4. \A p \in Procs : agg[p].target # None =>
             /\ agg[p].target \in Times
             /\ agg[p].rows \subseteq Full(agg[p].target)'
             /\ agg[p].quiet => agg[p].rows = Full(agg[p].target)'
      <3> SUFFICES ASSUME NEW p \in Procs, agg[p].target # None
                   PROVE  /\ agg[p].target \in Times
                          /\ agg[p].rows \subseteq Full(agg[p].target)'
                          /\ agg[p].quiet => agg[p].rows = Full(agg[p].target)'
        OBVIOUS
      <3>1. agg[p].target \in Times  BY DEF IInv, TypeOK, Sums
      <3>2. agg[p].quiet => Sealed(agg[p].target)  BY DEF Sealed
      <3> QED  BY <1>5, <2>1, <2>2, <3>1, <3>2 DEF IInv, SumInv
    <2>5. \A m \in Times : /\ projection[m] \subseteq Full(m)'
                           /\ m \in settled => projection[m] = Full(m)'
      BY <2>1, <2>2 DEF IInv, SumInv, Sealed
    <2>6. settled \subseteq Times  BY DEF IInv, TypeOK
    <2> QED  BY <1>5, <2>2, <2>3, <2>4, <2>5, <2>6 DEF SumInv
  <1> QED  BY <1>6, <1>7, <1>8, <1>9 DEF IInv

LEMMA TickInv == ASSUME IInv, Tick  PROVE IInv'
  <1>1. now \in Times /\ now' \in Times /\ now' = now + 1  BY DEF IInv, TypeOK, Times, Tick
  <1>2. now <= now' /\ Day(now) <= Day(now') /\ Day(now) \in Nat /\ Day(now') \in Nat
    BY <1>1, DayType, DayMonotone DEF Times
  <1>3. UNCHANGED <<table, partitions, call, projection, agg, swept, settled>>  BY DEF Tick
  <1>4. TypeOK'  BY <1>1, <1>3 DEF IInv, TypeOK
  <1>5. PlaceInv'
    <2>1. \A c \in Calls : /\ Live(c)' <=> Live(c)
                           /\ Placed(c)' <=> Placed(c)
                           /\ DayOf(c)' = DayOf(c)
      BY <1>3 DEF Live, Placed, DayOf
    <2>2. \A c \in Calls : Placed(c) => /\ call[c].minute \in Times /\ call[c].minute <= now
                                        /\ DayOf(c) \in Nat /\ DayOf(c) <= Day(now)
      BY <1>1, DayType, DayMonotone DEF IInv, PlaceInv, DayOf
    <2>3. \A c \in Calls : Placed(c) => call[c].minute <= now'  BY <1>1, <2>2 DEF Times
    <2>4. \A c \in Calls : Live(c) /\ DayOf(c) = Day(now') => DayOf(c) = Day(now)
      BY <1>2, <2>2 DEF Placed
    <2>5. \A c \in Calls : call[c].step = "expired" => DayOf(c) < Day(now')
      BY <1>2, <2>2 DEF IInv, PlaceInv, Placed
    <2> QED  BY <1>3, <2>1, <2>3, <2>4, <2>5 DEF IInv, PlaceInv
  <1>6. WindowInv'  BY <1>2, <1>3 DEF IInv, TypeOK, WindowInv, Window
  <1>7. SumInv'  BY <1>1, <1>2, <1>3, SumsKept DEF IInv
  <1> QED  BY <1>4, <1>5, <1>6, <1>7 DEF IInv

\* The sweep: the rows of an expired day go together, and none of a day that is not over.
LEMMA SweepFacts ==
  ASSUME IInv, NEW today \in Days, EnsurePartitions(today)
  PROVE  /\ today \in Nat /\ today <= Day(now) /\ Day(now) \in Nat
         /\ \A d \in Expired(today) : d \in Int /\ d < today - Retention
         /\ call' \in [Calls -> CallRows]
         /\ \A c \in Calls :
               /\ call'[c].minute = call[c].minute /\ call'[c].part = call[c].part
               /\ IF call[c].step = "recorded" /\ call[c].part \in Expired(today)
                  THEN call'[c].step = "expired" ELSE call'[c].step = call[c].step
  <1>1. now \in Times /\ Day(now) \in Nat  BY DayType DEF IInv, TypeOK
  <1>2. today \in Nat /\ today <= Day(now)  BY <1>1, DayType DEF EnsurePartitions, Days
  <1>3. \A d \in Expired(today) : d \in Int /\ d < today - Retention
    BY DEF Expired, IInv, TypeOK
  <1>4. \A c \in Calls : call[c] \in CallRows  BY DEF IInv, TypeOK
  <1>5. \A f \in CallRows : /\ [f EXCEPT !.step = "expired"] \in CallRows
                            /\ [f EXCEPT !.step = "expired"].step = "expired"
                            /\ [f EXCEPT !.step = "expired"].minute = f.minute
                            /\ [f EXCEPT !.step = "expired"].part = f.part
    BY DEF CallRows, Steps
  <1>6. call' = [c \in Calls |-> IF call[c].step = "recorded" /\ call[c].part \in Expired(today)
                                 THEN [call[c] EXCEPT !.step = "expired"] ELSE call[c]]
    BY DEF EnsurePartitions
  <1>7. call' \in [Calls -> CallRows]  BY <1>4, <1>5, <1>6
  <1>8. \A c \in Calls :
           /\ call'[c].minute = call[c].minute /\ call'[c].part = call[c].part
           /\ IF call[c].step = "recorded" /\ call[c].part \in Expired(today)
              THEN call'[c].step = "expired" ELSE call'[c].step = call[c].step
    BY <1>4, <1>5, <1>6
  <1> QED  BY <1>1, <1>2, <1>3, <1>7, <1>8

\* What the sweep leaves in DEFAULT has no partition, and its locks let no row in between.
LEMMA SweepPlaces ==
  ASSUME IInv, NEW today \in Days, EnsurePartitions(today)  PROVE PlaceInv'
  <1> USE SweepFacts
  <1>1. \A c \in Calls : Live(c)' => Live(c)  BY DEF Live
  <1>2. \A c \in Calls : /\ Placed(c)' <=> Placed(c)
                         /\ DayOf(c)' = DayOf(c)
    BY DEF Live, Placed, DayOf
  <1>3. now' = now /\ partitions' = (partitions \union Window(today)) \ Expired(today)
    BY DEF EnsurePartitions
  <1>4. Day(now) \notin Expired(today)  OBVIOUS
  <1>5. ASSUME NEW c \in Calls, Live(c)', call[c].part = Default  PROVE DayOf(c) \notin partitions'
    <2>1. DayOf(c) \notin partitions  BY <1>1, <1>5 DEF IInv, PlaceInv
    <2>2. CASE call[c].step = "inserted"
      <3>1. c \in InFlight  BY <2>2 DEF InFlight
      <3>2. Missing(today) = {}  BY <3>1 DEF EnsurePartitions
      <3> QED  BY <1>3, <2>1, <3>2 DEF Missing
    <2>3. CASE call[c].step = "recorded"
      <3>1. DayOf(c) \in InDefault  BY <1>5, <2>3 DEF InDefault, DayOf
      <3>2. DayOf(c) \notin Missing(today)  BY <3>1 DEF EnsurePartitions, Blocked
      <3> QED  BY <1>3, <2>1, <3>2 DEF Missing
    <2> QED  BY <1>1, <1>5, <2>2, <2>3 DEF Live
  <1>6. ASSUME NEW c \in Calls, Live(c)', call[c].part # Default, DayOf(c) = Day(now)
        PROVE  DayOf(c) \in partitions'
    BY <1>1, <1>3, <1>4, <1>6 DEF IInv, PlaceInv
  <1>7. ASSUME NEW c \in Calls, call'[c].step = "expired"
        PROVE  DayOf(c) < Day(now) /\ \A d \in Calls : Live(d)' => DayOf(d) # DayOf(c)
    <2>1. CASE call[c].step = "expired"  BY <1>1, <2>1 DEF IInv, PlaceInv
    <2>2. CASE call[c].step = "recorded" /\ call[c].part \in Expired(today)
      <3>1. DayOf(c) = call[c].part  BY <2>2 DEF IInv, PlaceInv, Placed, Live
      <3>2. InFlight = {}  BY <2>2 DEF EnsurePartitions
      <3>3. ASSUME NEW d \in Calls, Live(d)', DayOf(d) = DayOf(c)  PROVE FALSE
        <4>1. Live(d) /\ Live(c)  BY <1>1, <2>2, <3>3 DEF Live
        <4>2. call[d].part = call[c].part  BY <3>3, <4>1 DEF IInv, PlaceInv
        <4>3. call[d].step = "recorded"  BY <3>2, <4>1 DEF InFlight, Live
        <4> QED  BY <2>2, <3>3, <4>2, <4>3 DEF Live
      <3> QED  BY <2>2, <3>1, <3>3
    <2> QED  BY <1>7, <2>1, <2>2
  <1>8. \A c \in Calls : Placed(c)' => /\ call'[c].minute \in Times /\ call'[c].minute <= now'
                                       /\ call'[c].part \in {Default, DayOf(c)'}
    BY <1>2, <1>3 DEF IInv, PlaceInv
  <1>9. \A c \in Calls : call'[c].minute # None => Placed(c)'  BY <1>2 DEF IInv, PlaceInv
  <1>10. \A c, d \in Calls : Live(c)' /\ Live(d)' /\ DayOf(c)' = DayOf(d)' =>
                                call'[c].part = call'[d].part
    BY <1>1, <1>2 DEF IInv, PlaceInv
  <1> QED  BY <1>2, <1>3, <1>5, <1>6, <1>7, <1>8, <1>9, <1>10 DEF PlaceInv

LEMMA SweepInv == ASSUME IInv, NEW today \in Days, EnsurePartitions(today)  PROVE IInv'
  <1> USE SweepFacts
  <1>1. UNCHANGED <<table, now, projection, agg, settled>>  BY DEF EnsurePartitions
  <1>2. partitions' = (partitions \union Window(today)) \ Expired(today)  BY DEF EnsurePartitions
  <1>3. swept' = IF swept = None \/ swept < today THEN today ELSE swept  BY DEF EnsurePartitions
  <1>4. TypeOK'
    <2>1. partitions' \subseteq Int
      <3>1. Window(today) \subseteq Int  BY DEF Window
      <3>2. partitions \subseteq Int  BY DEF IInv, TypeOK
      <3> QED  BY <1>2, <3>1, <3>2
    <2>2. swept' \in Int \union {None}  BY <1>3 DEF IInv, TypeOK
    <2>3. call' \in [Calls -> CallRows]  OBVIOUS
    <2> QED  BY <1>1, <2>1, <2>2, <2>3 DEF IInv, TypeOK
  <1>5. PlaceInv'  BY SweepPlaces
  <1>6. WindowInv'
    <2>1. swept' \in Int /\ swept' <= Day(now) /\ today <= swept'
      BY <1>3 DEF IInv, TypeOK, WindowInv
    <2>2. Window(swept') \subseteq partitions \union Window(today)
      BY <1>3 DEF IInv, WindowInv
    <2>3. \A d \in Window(swept') : d \notin Expired(today)  BY <2>1 DEF Window
    <2>4. Window(swept') \subseteq partitions'  BY <1>2, <2>2, <2>3
    <2> QED  BY <1>1, <2>1, <2>4 DEF WindowInv, Window
  <1>7. SumInv'
    <2>1. now \in Times /\ now <= now'  BY <1>1 DEF IInv, TypeOK, Times
    <2> QED  BY <1>1, <2>1, SumsKept DEF IInv
  <1> QED  BY <1>4, <1>5, <1>6, <1>7 DEF IInv

\* The rows of a minute without uncommitted ones are all there, or all dropped.
LEMMA RowsOfMinute ==
  ASSUME IInv, NEW m \in Times, \A c \in Calls : call[c].minute = m => call[c].step # "inserted"
  PROVE  Rows(m) \in {Full(m), {}}
  <1> SUFFICES ASSUME NEW c \in Full(m), NEW d \in Full(m),
                      call[c].step = "recorded", call[d].step # "recorded"
               PROVE  FALSE
    BY DEF Rows, Full
  <1>1. DayOf(c) = DayOf(d)  BY DEF DayOf, Full
  <1>2. Live(c) /\ call[d].step = "expired"  BY DEF Full, Live
  <1> QED  BY <1>1, <1>2 DEF IInv, PlaceInv, Full

\* A read that nothing disturbs has all the rows of its minute.
LEMMA ReadInv ==
  ASSUME IInv, NEW p \in Procs, NEW m \in Times, AggregateReads(p, m)  PROVE IInv'
  <1> DEFINE quiet == Quiet(p, m)
  <1> DEFINE new == [target |-> m, rows |-> Rows(m), quiet |-> quiet]
  <1>1. agg' = [agg EXCEPT ![p] = new]  BY Zenon DEF AggregateReads
  <1>2. quiet \in BOOLEAN  BY Zenon DEF Quiet
  <1>3. quiet => /\ m < now /\ \A c \in Calls : call[c].minute = m => call[c].step = "recorded"
                 /\ \A q \in Procs : q # p => (agg[q].target = m => agg[q].quiet)
    BY DEF Quiet
  <1>4. Rows(m) \subseteq Full(m) /\ Rows(m) \in SUBSET Calls  BY DEF Rows, Full
  <1>5. quiet => Rows(m) = Full(m)  BY <1>3 DEF Rows, Full
  <1> HIDE DEF quiet
  <1>6. new \in Sums /\ new.target = m /\ new.rows = Rows(m) /\ (new.quiet <=> quiet)
    BY <1>2, <1>4 DEF Sums
  <1> HIDE DEF new
  <1>7. /\ agg' \in [Procs -> Sums] /\ agg'[p] = new
        /\ \A q \in Procs : q # p => agg'[q] = agg[q]
    BY <1>1, <1>6 DEF IInv, TypeOK
  <1>8. UNCHANGED <<table, now, partitions, call, projection, swept, settled>>
    BY DEF AggregateReads
  <1>9. TypeOK'  BY <1>7, <1>8 DEF IInv, TypeOK
  <1>10. PlaceInv' /\ WindowInv'
    BY <1>8 DEF IInv, PlaceInv, WindowInv, Live, Placed, DayOf, Window
  <1>11. SumInv'
    <2>1. \A n \in Times : Full(n)' = Full(n)  BY <1>8 DEF Full
    <2>2. agg[p].target = None /\ None \notin Times  BY DEF AggregateReads, Times
    <2>3. \A n \in Times : Sealed(n)' => Sealed(n) \/ (n = m /\ quiet)
      BY <1>6, <1>7, <1>8 DEF Sealed
    <2>4. ASSUME NEW n \in Times, Sealed(n)'
          PROVE  /\ n < now /\ \A c \in Calls : call[c].minute = n => call[c].step # "inserted"
                 /\ \A q \in Procs : agg'[q].target = n => agg'[q].rows \in {Full(n), {}}
      <3>1. CASE Sealed(n)
        <4>1. n < now /\ \A c \in Calls : call[c].minute = n => call[c].step # "inserted"
          BY <3>1 DEF IInv, SumInv
        <4>2. Rows(n) \in {Full(n), {}}  BY <4>1, RowsOfMinute
        <4> QED  BY <1>6, <1>7, <3>1, <4>1, <4>2 DEF IInv, SumInv
      <3>2. CASE n = m /\ quiet
        <4>1. \A q \in Procs : q # p /\ agg[q].target = m => agg[q].rows = Full(m)
          BY <1>3, <2>2, <3>2 DEF IInv, SumInv
        <4> QED  BY <1>3, <1>5, <1>6, <1>7, <3>2, <4>1
      <3> QED  BY <2>3, <2>4, <3>1, <3>2
    <2>5. ASSUME NEW q \in Procs, agg'[q].target # None
          PROVE  /\ agg'[q].target \in Times
                 /\ agg'[q].rows \subseteq Full(agg'[q].target)
                 /\ agg'[q].quiet => agg'[q].rows = Full(agg'[q].target)
      <3>1. CASE q = p  BY <1>4, <1>5, <1>6, <1>7, <3>1
      <3>2. CASE q # p  BY <1>7, <2>5, <3>2 DEF IInv, SumInv, TypeOK, Sums
      <3> QED  BY <3>1, <3>2
    <2>6. \A n \in Times : /\ projection[n] \subseteq Full(n)
                           /\ n \in settled => projection[n] = Full(n)
      BY DEF IInv, SumInv
    <2>7. settled \subseteq Times  BY DEF IInv, TypeOK
    <2> QED  BY <1>8, <2>1, <2>4, <2>5, <2>6, <2>7 DEF SumInv
  <1> QED  BY <1>9, <1>10, <1>11 DEF IInv

\* An aggregation that ends without a write leaves fewer minutes sealed.
LEMMA DoneAgg ==
  ASSUME IInv, NEW p \in Procs, agg' = [agg EXCEPT ![p] = NoSweep]
  PROVE  /\ agg' \in [Procs -> Sums] /\ agg'[p].target = None
         /\ \A q \in Procs : q # p => agg'[q] = agg[q]
  <1>1. NoSweep \in Sums /\ NoSweep.target = None  BY DEF NoSweep, Sums
  <1> HIDE DEF NoSweep
  <1> QED  BY <1>1 DEF IInv, TypeOK

LEMMA AggregateFailsInv == ASSUME IInv, NEW p \in Procs, AggregateFails(p)  PROVE IInv'
  <1>1. /\ agg' \in [Procs -> Sums] /\ agg'[p].target = None
        /\ \A q \in Procs : q # p => agg'[q] = agg[q]
    BY DoneAgg DEF AggregateFails
  <1>2. UNCHANGED <<table, now, partitions, call, projection, swept, settled>>
    BY DEF AggregateFails
  <1>3. TypeOK'  BY <1>1, <1>2 DEF IInv, TypeOK
  <1>4. PlaceInv' /\ WindowInv'
    BY <1>2 DEF IInv, PlaceInv, WindowInv, Live, Placed, DayOf, Window
  <1>5. SumInv'
    <2>1. \A n : Full(n)' = Full(n)  BY <1>2 DEF Full
    <2>2. \A n \in Times : Sealed(n)' => Sealed(n)  BY <1>1, <1>2 DEF Sealed, Times
    <2>3. \A n \in Times, q \in Procs : agg'[q].target = n => q # p /\ agg'[q] = agg[q]
      BY <1>1 DEF Times
    <2>4. \A q \in Procs : agg'[q].target # None => q # p /\ agg'[q] = agg[q]  BY <1>1
    <2> QED  BY <1>2, <2>1, <2>2, <2>3, <2>4 DEF IInv, SumInv
  <1> QED  BY <1>3, <1>4, <1>5 DEF IInv

\* What is written for a sealed minute is exact, and over an exact sum it changes nothing.
LEMMA AggregateInv == ASSUME IInv, NEW p \in Procs, AggregateMinute(p)  PROVE IInv'
  <1> DEFINE m == agg[p].target
  <1> DEFINE rows == agg[p].rows
  <1>1. /\ agg' \in [Procs -> Sums] /\ agg'[p].target = None
        /\ \A q \in Procs : q # p => agg'[q] = agg[q]
    BY DoneAgg DEF AggregateMinute
  <1>2. m \in Times /\ rows \in SUBSET Calls  BY DEF AggregateMinute, IInv, TypeOK, Sums
  <1>3. projection' = [projection EXCEPT ![m] = Upsert(projection[m], rows)]
    BY DEF AggregateMinute
  <1>4. settled' = IF agg[p].quiet THEN settled \union {m} ELSE settled  BY DEF AggregateMinute
  <1>5. UNCHANGED <<table, now, partitions, call, swept>>  BY DEF AggregateMinute
  <1>6. /\ rows \subseteq Full(m) /\ projection[m] \subseteq Full(m)
        /\ agg[p].quiet => rows = Full(m)
        /\ Sealed(m) => rows \in {Full(m), {}}
    BY <1>2 DEF IInv, SumInv, AggregateMinute
  <1>7. Upsert(projection[m], rows) \subseteq Full(m)  BY <1>6 DEF Upsert
  <1>8. rows = Full(m) => Upsert(projection[m], rows) = Full(m)  BY <1>6 DEF Upsert
  <1>9. rows = {} => Upsert(projection[m], rows) = projection[m]  BY DEF Upsert
  <1> HIDE DEF rows, m
  <1>10. /\ projection' \in [Times -> SUBSET Calls]
         /\ projection'[m] = Upsert(projection[m], rows)
         /\ \A n \in Times : n # m => projection'[n] = projection[n]
    <2>1. Upsert(projection[m], rows) \in SUBSET Calls  BY <1>7 DEF Full
    <2> QED  BY <1>2, <1>3, <2>1 DEF IInv, TypeOK
  <1>11. TypeOK'  BY <1>1, <1>2, <1>4, <1>5, <1>10 DEF IInv, TypeOK
  <1>12. PlaceInv' /\ WindowInv'
    BY <1>5 DEF IInv, PlaceInv, WindowInv, Live, Placed, DayOf, Window
  <1>13. SumInv'
    <2>1. \A n : Full(n)' = Full(n)  BY <1>5 DEF Full
    <2>2. \A n \in Times : Sealed(n)' => Sealed(n)
      BY <1>1, <1>4 DEF Sealed, Times, m
    <2>3. \A n \in Times, q \in Procs : agg'[q].target = n => q # p /\ agg'[q] = agg[q]
      BY <1>1 DEF Times
    <2>4. \A q \in Procs : agg'[q].target # None => q # p /\ agg'[q] = agg[q]  BY <1>1
    <2>5. \A n \in Times : projection'[n] \subseteq Full(n)
      BY <1>7, <1>10 DEF IInv, SumInv
    <2>6. \A n \in settled' : projection'[n] = Full(n)
      <3>1. \A n \in settled : n # m => projection'[n] = Full(n)
        BY <1>10 DEF IInv, SumInv, TypeOK
      <3>2. m \in settled => projection'[m] = Full(m)
        BY <1>2, <1>6, <1>8, <1>9, <1>10 DEF IInv, SumInv, Sealed
      <3>3. agg[p].quiet => projection'[m] = Full(m)  BY <1>6, <1>8, <1>10
      <3> QED  BY <1>4, <3>1, <3>2, <3>3
    <2> QED  BY <1>5, <2>1, <2>2, <2>3, <2>4, <2>5, <2>6 DEF IInv, SumInv
  <1> QED  BY <1>11, <1>12, <1>13 DEF IInv

LEMMA StepInv == IInv /\ [Next]_vars => IInv'
  <1> SUFFICES ASSUME IInv, [Next]_vars PROVE IInv'  OBVIOUS
  <1>1. CASE \E c \in Calls : Serving(c) \/ Recording(c)
    <2> PICK c \in Calls : Serving(c) \/ Recording(c)  BY <1>1
    <2>1. CASE Serving(c)
      BY <2>1, ServeInv DEF Serving, Completion, Forward, StreamCompletion, ForwardStream,
                            McpCall, McpStream, SandboxPoll, CreateJob
    <2>2. CASE RecordLlm(c) \/ RecordMcp(c) \/ RecordSandbox(c) \/ InsertJob(c)
      BY <2>2, InsertInv DEF RecordLlm, RecordMcp, RecordSandbox, InsertJob
    <2>3. CASE RecordFails(c) \/ Disconnect(c) \/ NoToolCallSeen(c) \/ Crash(c)
      BY <2>3, LoseInv DEF RecordFails, Disconnect, NoToolCallSeen, Crash
    <2>4. CASE Commit(c)  BY <2>4, CommitInv
    <2> QED  BY <2>1, <2>2, <2>3, <2>4 DEF Recording
  <1>2. CASE LlmPartitions \/ McpPartitions \/ SandboxPartitions \/ JobPartitions
    BY <1>2, SweepInv DEF LlmPartitions, McpPartitions, SandboxPartitions, JobPartitions
  <1>3. CASE \E p \in Procs : Aggregate(p)
    BY <1>3, ReadInv, AggregateInv, AggregateFailsInv DEF Aggregate, LlmAggregate, McpAggregate
  <1>4. CASE Tick  BY <1>4, TickInv
  <1>5. CASE UNCHANGED vars
    BY <1>5 DEF vars, IInv, TypeOK, PlaceInv, WindowInv, SumInv, Live, Placed, DayOf, Window,
                Full, Sealed
  <1> QED  BY <1>1, <1>2, <1>3, <1>4, <1>5 DEF Next

\* The invariant, in every reachable state.
THEOREM InvCorrect == Spec => []IInv
  BY InitInv, StepInv, PTL DEF Spec

\* A minute whose last row was committed before it was summed stays exact, however many
\* processes sum it again, and before and after its rows are dropped.
THEOREM SettledCorrect == Spec => []SettledMinutesAreExact
  <1>1. IInv => SettledMinutesAreExact
    BY DEF IInv, SumInv, Full, SettledMinutesAreExact
  <1> QED  BY InvCorrect, <1>1, PTL

\* Which of the operations of a request moves a row, and to where.
LEMMA RequestSteps ==
  ASSUME TypeOK, NEW d \in Calls, Serving(d) \/ Recording(d)
  PROVE  \A c \in Calls : \/ call'[c] = call[c]
                          \/ call'[c].step \in {"served", "lost", "recorded"}
                          \/ /\ call'[c].step = "inserted" /\ Insert(d)
                             /\ call'[c].part = Target(Day(now))
  <1>1. call[d] \in CallRows /\ call = [c \in Calls |-> call[c]]  BY DEF TypeOK
  <1>2. CASE \E kind : Serve(d, kind)
    <2> PICK kind : Serve(d, kind)  BY <1>2
    <2> DEFINE new == [call[d] EXCEPT !.step = "served", !.kind = kind]
    <2>1. call' = [call EXCEPT ![d] = new]  BY DEF Serve
    <2>2. new.step = "served"  BY <1>1 DEF CallRows
    <2> HIDE DEF new
    <2> QED  BY <1>1, <2>1, <2>2
  <1>3. CASE Commit(d)
    <2> DEFINE new == [call[d] EXCEPT !.step = "recorded", !.kind = None]
    <2>1. call' = [call EXCEPT ![d] = new]  BY <1>3 DEF Commit
    <2>2. new.step = "recorded"  BY <1>1 DEF CallRows
    <2> HIDE DEF new
    <2> QED  BY <1>1, <2>1, <2>2
  <1>4. CASE Lose(d)
    <2> DEFINE new == [NoCall EXCEPT !.step = "lost"]
    <2>1. call' = [call EXCEPT ![d] = new]  BY <1>4 DEF Lose
    <2>2. new.step = "lost"  BY DEF NoCall
    <2> HIDE DEF new
    <2> QED  BY <1>1, <2>1, <2>2
  <1>5. CASE Insert(d)
    <2> DEFINE part == Target(Day(now))
    <2> DEFINE new == [call[d] EXCEPT !.step = "inserted", !.minute = now, !.part = part]
    <2>1. call' = [call EXCEPT ![d] = new]  BY <1>5 DEF Insert
    <2> HIDE DEF part
    <2>2. new.step = "inserted" /\ new.part = part  BY <1>1 DEF CallRows
    <2> HIDE DEF new
    <2> QED  BY <1>1, <1>5, <2>1, <2>2 DEF part
  <1> QED
    BY <1>2, <1>3, <1>4, <1>5
    DEF Serving, Recording, Completion, Forward, StreamCompletion, ForwardStream, McpCall,
        McpStream, SandboxPoll, CreateJob, RecordLlm, RecordMcp, RecordSandbox, InsertJob,
        RecordFails, Disconnect, NoToolCallSeen, Crash

\* The steps that no request takes: only the sweep drops rows, and it inserts none.
LEMMA OtherSteps ==
  ASSUME IInv, Next, ~\E d \in Calls : Serving(d) \/ Recording(d), NEW c \in Calls
  PROVE  \/ call'[c] = call[c]
         \/ \E today \in Days : EnsurePartitions(today)
  BY DEF Next, LlmPartitions, McpPartitions, SandboxPartitions, JobPartitions, Aggregate,
         AggregateReads, LlmAggregate, McpAggregate, AggregateMinute, AggregateFails, Tick

\* The sweep drops no row whose day is within retention_days of the clock.
THEOREM RetentionCorrect == Spec => NothingYoungIsDropped
  <1>1. IInv /\ [Next]_vars =>
          [\A c \in Calls : call[c].step = "recorded" /\ call'[c].step = "expired"
              => Day(call[c].minute) < Day(now) - Retention]_vars
    <2> SUFFICES ASSUME IInv, Next, NEW c \in Calls,
                        call[c].step = "recorded", call'[c].step = "expired"
                 PROVE  Day(call[c].minute) < Day(now) - Retention
      OBVIOUS
    <2>1. PICK today \in Days : EnsurePartitions(today)
      BY RequestSteps, OtherSteps DEF IInv
    <2>2. call[c].part \in Expired(today)  BY <2>1, SweepFacts
    <2>3. call[c].part \in Int /\ call[c].part < today - Retention  BY <2>1, <2>2, SweepFacts
    <2>4. call[c].part = Day(call[c].minute)  BY <2>3 DEF IInv, PlaceInv, Placed, Live, DayOf
    <2> QED  BY <2>1, <2>3, <2>4, SweepFacts
  <1> QED  BY InvCorrect, <1>1, PTL DEF Spec, NothingYoungIsDropped

\* A successful sweep shields the table from DEFAULT for the days it preallocated.
THEOREM PreallocationCorrect == Spec => PreallocationShields
  <1>1. IInv /\ [Next]_vars =>
          [\A c \in Calls : call[c].step = "served" /\ call'[c].step = "inserted"
                            /\ call'[c].part = Default
              => swept = None \/ Day(now) >= swept + Preallocate]_vars
    <2> SUFFICES ASSUME IInv, Next, NEW c \in Calls, call[c].step = "served",
                        call'[c].step = "inserted", call'[c].part = Default, swept # None
                 PROVE  Day(now) >= swept + Preallocate
      OBVIOUS
    <2>1. PICK d \in Calls : Serving(d) \/ Recording(d)  BY OtherSteps, SweepFacts
    <2>2. Target(Day(now)) = Default  BY <2>1, RequestSteps DEF IInv
    <2>3. Day(now) \in Nat  BY DayType DEF IInv, TypeOK
    <2>4. Day(now) \notin partitions  BY <2>2, <2>3 DEF Target
    <2> QED  BY <2>3, <2>4 DEF IInv, TypeOK, WindowInv, Window
  <1> QED  BY InvCorrect, <1>1, PTL DEF Spec, PreallocationShields
=============================================================================
