------------------------------ MODULE TtlCache ------------------------------
(***************************************************************************)
(* The caches of plugins/tenantStatus.ts, plugins/entitlements.ts and      *)
(* plugins/vehicleIdentity.ts: one entry of one of them, in each process   *)
(* of the API, over the row in the database it is a copy of.               *)
(*                                                                         *)
(* A lookup that misses queries the database and then stores what the      *)
(* query returned; a write of the row invalidates the entry, only in the   *)
(* process that made it.  What is written is left to the modules that use  *)
(* this one.                                                               *)
(***************************************************************************)
EXTENDS Naturals

CONSTANTS
    Processes,  \* the containers of the API
    Lookups,    \* the lookups in flight at a time
    Ttl,        \* TTL_MS
    Latency,    \* the longest a query takes
    MaxTime,    \* bound on the clock
    Values,     \* what the row may hold
    Nobody

VARIABLES
    now,
    row,       \* the value in the database
    changed,   \* when it was last changed
    cache,     \* the entry of each process
    lookup,    \* what each lookup is doing
    writer     \* the process that has changed the row and not yet invalidated

vars == <<now, row, changed, cache, lookup, writer>>

NoEntry == [expires |-> 0]
Idle == [step |-> "idle"]

Init ==
    /\ now = 0
    /\ row \in Values /\ changed = 0
    /\ cache = [p \in Processes |-> NoEntry]
    /\ lookup = [k \in Lookups |-> Idle]
    /\ writer = Nobody

-----------------------------------------------------------------------------
\* getTenantStatus, getModules, findVehicleByPlate.

Fresh(p) == cache[p].expires > now

\* A hit answers at once: `cache[p].value`, and nothing changes.  A miss queries.
Miss(k, p) ==
    /\ lookup[k] = Idle
    /\ ~Fresh(p)
    /\ lookup' = [lookup EXCEPT ![k] = [step |-> "query", proc |-> p, since |-> now]]
    /\ UNCHANGED <<now, row, changed, cache, writer>>

\* The database answers with what the row is then; the answer is on its way.
Query(k) ==
    /\ lookup[k].step = "query"
    /\ lookup' = [lookup EXCEPT ![k] = [step |-> "store", proc |-> @.proc,
                                        since |-> @.since, value |-> row]]
    /\ UNCHANGED <<now, row, changed, cache, writer>>

StoreForever(k) ==
    /\ lookup[k].step = "store"
    /\ cache' = [cache EXCEPT ![lookup[k].proc] =
                   [value |-> lookup[k].value, expires |-> MaxTime + Ttl]]
    /\ lookup' = [lookup EXCEPT ![k] = Idle]
    /\ UNCHANGED <<now, row, changed, writer>>

Store(k) ==
    /\ lookup[k].step = "store"
    /\ cache' = [cache EXCEPT ![lookup[k].proc] =
                   [value |-> lookup[k].value, expires |-> now + Ttl]]
    /\ lookup' = [lookup EXCEPT ![k] = Idle]
    /\ UNCHANGED <<now, row, changed, writer>>

-----------------------------------------------------------------------------
\* A write of the row, which may leave it as it was, and the invalidation that
\* precedes its answer.
Change(p) ==
    /\ writer = Nobody
    /\ row' \in Values
    /\ changed' = IF row' = row THEN changed ELSE now
    /\ writer' = p
    /\ UNCHANGED <<now, cache, lookup>>

Invalidate(p) ==
    /\ writer = p
    /\ cache' = [cache EXCEPT ![p] = NoEntry]
    /\ writer' = Nobody
    /\ UNCHANGED <<now, row, changed, lookup>>

\* A container starts again with an empty cache.
Restart(p) ==
    /\ cache' = [cache EXCEPT ![p] = NoEntry]
    /\ lookup' = [k \in Lookups |-> IF lookup[k] # Idle /\ lookup[k].proc = p THEN Idle
                                    ELSE lookup[k]]
    /\ writer' = IF writer = p THEN Nobody ELSE writer
    /\ UNCHANGED <<now, row, changed>>

\* Time goes on; a query does not take longer than Latency.
Tick ==
    /\ now < MaxTime
    /\ \A k \in Lookups : lookup[k] # Idle => now < lookup[k].since + Latency
    /\ now' = now + 1
    /\ UNCHANGED <<row, changed, cache, lookup, writer>>

\* All but the writes of the row.
Step ==
    \/ \E k \in Lookups : (\E p \in Processes : Miss(k, p)) \/ Query(k) \/ Store(k)
    \/ \E p \in Processes : Invalidate(p) \/ Restart(p)
    \/ Tick

Next == Step \/ \E p \in Processes : Change(p)

Spec == Init /\ [][Next]_vars

-----------------------------------------------------------------------------
\* Properties.

\* Between containers, and however queries and invalidations cross, no request
\* is answered from the cache with a value that the row has not had for longer
\* than the TTL and one query.
StaleAtMostTtl ==
    \A p \in Processes : Fresh(p) /\ cache[p].value # row =>
        now < changed + Ttl + Latency
=============================================================================
