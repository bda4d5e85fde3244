---------------------------- MODULE ModuleAccess ----------------------------
(***************************************************************************)
(* What a tenant can use: the ModuleEntitlement rows (Entitlements) seen   *)
(* by the requests through the cache of plugins/entitlements.ts (TtlCache  *)
(* with the set of enabled modules as the row), in every container of the  *)
(* API.  The set is cached as a whole, tenant by tenant.                   *)
(***************************************************************************)
EXTENDS Entitlements, Naturals

CONSTANTS Processes, Lookups, Ttl, Latency, MaxTime, Nobody

ASSUME CacheAssumption ==
    /\ Ttl \in Nat /\ Latency \in Nat /\ MaxTime \in Nat
    /\ Nobody \notin Processes

VARIABLES now, changed, cache, lookup, writer

Cache == INSTANCE TtlCache WITH row <- enabled, Values <- SUBSET Modules

cacheVars == <<now, changed, cache, lookup, writer>>
accessVars == <<vars, cacheVars>>

AccessInit == Init /\ Cache!Init

\* The handler of container p writes the rows and then invalidates its cache.
Write(p) ==
    /\ (\E k \in Modules : Enable(k)) \/ (\E r \in Requests : DisableWrite(r))
    /\ Cache!Change(p)

Read ==
    /\ \E r \in Requests : DisableFails(r) \/ \E k \in Modules : DisableRead(r, k)
    /\ UNCHANGED cacheVars

AccessNext ==
    \/ \E p \in Processes : Write(p)
    \/ Read
    \/ Cache!Step /\ UNCHANGED <<off, missed>>

-----------------------------------------------------------------------------
\* Properties.

\* Between containers, and however queries and invalidations cross, no request
\* is answered from the cache with modules that have not been the tenant's for
\* longer than the TTL and one query.
StaleAtMostTtl == Cache!StaleAtMostTtl
=============================================================================
