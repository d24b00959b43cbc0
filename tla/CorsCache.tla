------------------------------ MODULE CorsCache ------------------------------
(***************************************************************************)
(* The cache of allowed origins that one process keeps for its CORS        *)
(* middleware, over the request cycle of module Resources.  A cross-origin *)
(* request that finds the cache younger than the TTL answers from it;      *)
(* otherwise it reads the table in a session of its own and replaces the   *)
(* cache, stamped with the time the lookup began.  The service drops the   *)
(* cache when the statement of a create or delete has run, before its      *)
(* request commits.                                                        *)
(***************************************************************************)
EXTENDS Resources

CONSTANTS
    Lookups,        \* cross-origin requests in flight
    OtherProcesses, \* TRUE: other processes serve the API as well
    Ttl,            \* _CACHE_TTL_SECONDS in ticks
    MaxTime         \* bound: the clock

ASSUME CorsAssumption == Ttl \in Nat \ {0} /\ MaxTime \in Nat /\ OtherProcesses \in BOOLEAN

VARIABLES
    cache,          \* _cache: the origins and the time they are stamped with
    lookup,         \* per lookup: its phase, its start time, what it read
    clock,          \* time.monotonic()
    changed         \* per origin: when a commit last added or removed it

corsVars == <<cache, lookup, clock, changed>>

NoCache == [valid |-> FALSE, origins |-> {}, at |-> 0]
NoLookup == [pc |-> "idle", at |-> 0, origins |-> {}]
Origins(v) == {v.allowed_origins[i].name : i \in DOMAIN v.allowed_origins}
InPlay == "allowed_origins" \in scene
Fresh == cache.valid /\ clock - cache.at < Ttl

(* A lookup that misses remembers the time before it reads.                *)
Miss(l) ==
    /\ InPlay /\ ~Fresh /\ lookup[l].pc = "idle"
    /\ lookup' = [lookup EXCEPT ![l] = [NoLookup EXCEPT !.pc = "missed", !.at = clock]]
    /\ UNCHANGED <<cache, clock, changed>>

ReadOrigins(l) ==
    /\ lookup[l].pc = "missed"
    /\ lookup' = [lookup EXCEPT ![l] = [@ EXCEPT !.pc = "read", !.origins = Origins(db)]]
    /\ UNCHANGED <<cache, clock, changed>>

(* Mutant: the cache is stamped with the time it is stored.                *)
FillNow(l) ==
    /\ lookup[l].pc = "read"
    /\ cache' = [valid |-> TRUE, origins |-> lookup[l].origins, at |-> clock]
    /\ lookup' = [lookup EXCEPT ![l] = NoLookup]
    /\ UNCHANGED <<clock, changed>>

Fill(l) ==
    /\ lookup[l].pc = "read"
    /\ cache' = [valid |-> TRUE, origins |-> lookup[l].origins, at |-> lookup[l].at]
    /\ lookup' = [lookup EXCEPT ![l] = NoLookup]
    /\ UNCHANGED <<clock, changed>>

Tick ==
    /\ InPlay /\ clock < MaxTime
    /\ clock' = clock + 1
    /\ UNCHANGED <<cache, lookup, changed>>

(* A statement on the origins that has run in this process.                *)
Flushed(r) == req[r].pc = "flush" /\ req'[r].pc \in {"op", "commit"} /\ req[r].table = "allowed_origins"
Reset ==
    /\ cache' = IF \E r \in Requests : Flushed(r) THEN NoCache ELSE cache
    /\ changed' = IF ~InPlay THEN changed
                  ELSE [n \in Names |-> IF n \in Origins(db) <=> n \in Origins(db')
                                        THEN changed[n] ELSE clock]
    /\ UNCHANGED <<lookup, clock>>

(* The same step served by another process.                                *)
Elsewhere ==
    /\ OtherProcesses /\ \E r \in Requests : Flushed(r)
    /\ UNCHANGED corsVars

CorsInit == Init /\ cache = NoCache /\ lookup = [l \in Lookups |-> NoLookup]
                 /\ clock = 0 /\ changed = [n \in Names |-> 0]
CorsNext ==
    \/ Next /\ (Reset \/ Elsewhere)
    \/ (Tick \/ \E l \in Lookups : Miss(l) \/ ReadOrigins(l) \/ Fill(l)) /\ UNCHANGED vars

CorsSpec == CorsInit /\ [][CorsNext]_<<vars, corsVars>>

-----------------------------------------------------------------------------
(* An origin that was added or removed at least a TTL ago is seen as such  *)
(* by every lookup that the cache answers, in every process and whatever   *)
(* fills and resets overlapped (the TTL guards against stale state,        *)
(* cors_service.py:45-47).                                                 *)
CorsStaleByAtMostTtl ==
    InPlay /\ Fresh =>
        \A n \in Names : clock - changed[n] >= Ttl => (n \in cache.origins <=> n \in Origins(db))

(* Refuted by TLC, and checked by no configuration.                        *)
(* In a deployment of one process a committed change is seen at once:      *)
(* "Mutations (create/delete) invalidate the cache so changes take effect  *)
(* immediately without a restart" (cors_service.py:3-5).                   *)
CorsChangesAreImmediate ==
    /\ InPlay /\ Fresh
    /\ \A r \in Requests : ~InProgress(r)
    /\ \A l \in Lookups : lookup[l].pc = "idle"
    => cache.origins = Origins(db)
=============================================================================
