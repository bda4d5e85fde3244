---------------------------- MODULE TenancyProofs ----------------------------
(***************************************************************************)
(* Proofs about Tenancy: the rows of a tenant's modules (Entitlements),    *)
(* what the caches answer of them (ModuleAccess, TtlCache), the people who *)
(* may enter (Accounts) and the depots (Depots), for any number of         *)
(* modules, containers, tenants, people, requests and depots.              *)
(***************************************************************************)
EXTENDS Tenancy, FiniteSetTheorems, TLAPS

-----------------------------------------------------------------------------
\* The parts of the composition.

\* A behaviour of the platform is one of the rows of the modules; of the cache,
\* whatever it holds; of the accounts; and of the depots.
THEOREM TenancyImplementsParts ==
    TenancySpec => Spec /\ Cache!Spec /\ PeopleSpec /\ Bases!Spec
<1>1. TenancyInit => Init /\ Cache!Init /\ PeopleInit /\ Bases!Init
  BY DEF TenancyInit, AccessInit
<1>2. [TenancyNext]_tenancyVars =>
        /\ [Next]_vars /\ [Cache!Next]_(Cache!vars)
        /\ [PeopleNext]_peopleVars /\ [Bases!Next]_(Bases!vars)
  <2> SUFFICES ASSUME [TenancyNext]_tenancyVars
               PROVE  /\ [Next]_vars /\ [Cache!Next]_(Cache!vars)
                      /\ [PeopleNext]_peopleVars /\ [Bases!Next]_(Bases!vars)
    OBVIOUS
  <2>1. CASE AccessNext /\ UNCHANGED <<peopleVars, baseVars>>
    <3>1. UNCHANGED <<peopleVars, Bases!vars>>
      BY <2>1 DEF baseVars, Bases!vars
    <3>2. CASE \E p \in Processes : Write(p)
      BY <3>1, <3>2 DEF Write, Next, Cache!Next
    <3>3. CASE Read
      BY <3>1, <3>3 DEF Read, DisableRead, DisableFails, Next, cacheVars, Cache!vars
    <3>4. CASE Cache!Step /\ UNCHANGED <<off, missed>>
      <4>1. enabled' = enabled
        BY <3>4 DEF Cache!Step, Cache!Miss, Cache!Query, Cache!Store, Cache!Invalidate,
                    Cache!Restart, Cache!Tick
      <4>2. QED  BY <3>1, <3>4, <4>1 DEF vars, Cache!Next
    <3>5. QED  BY <2>1, <3>2, <3>3, <3>4 DEF AccessNext
  <2>2. CASE PeopleNext /\ UNCHANGED <<accessVars, baseVars>>
    BY <2>2 DEF accessVars, cacheVars, vars, baseVars, Cache!vars, Bases!vars
  <2>3. CASE Bases!Next /\ UNCHANGED <<accessVars, peopleVars>>
    BY <2>3 DEF accessVars, cacheVars, vars, Cache!vars
  <2>4. CASE UNCHANGED tenancyVars
    BY <2>4 DEF tenancyVars, accessVars, cacheVars, vars, baseVars, Cache!vars, Bases!vars
  <2>5. QED  BY <2>1, <2>2, <2>3, <2>4 DEF TenancyNext
<1>3. QED  BY <1>1, <1>2, PTL DEF TenancySpec, Spec, Cache!Spec, PeopleSpec, Bases!Spec

-----------------------------------------------------------------------------
\* The rows of the modules.

\* What requires the module that a request is about to switch off has been switched on
\* since the request looked.
OnlyMissedNeedIt ==
    \A r \in Requests : off[r] # None =>
        \A m \in enabled \ {off[r]} : off[r] \in Requires[m] => m \in missed[r]

RowsInv == TypeOK /\ OnlyMissedNeedIt

\* What an enabled module may come to lack in a step.
Kept ==
    \A m \in enabled' : \A k \in Requires[m] \ enabled' :
        \/ m \in enabled /\ k \notin enabled
        \/ \E r \in Requests : off[r] = k /\ off'[r] = None /\ m \in missed[r]

-----------------------------------------------------------------------------
\* modulesToEnableWith returns the module with all it requires, up to the core.

LEMMA CascadeIsClosed ==
    ASSUME NEW k \in Modules, NEW m \in ModulesToEnableWith(k)
    PROVE  Requires[m] \subseteq ModulesToEnableWith(k) \cup Core
  BY ModulesAssumption DEF ModulesToEnableWith, ClosedUnderRequires

\* A module that requires k directly blocks switching k off.
LEMMA RequirerBlocks ==
    ASSUME NEW k \in Modules \ Core, NEW active \in SUBSET Modules,
           NEW m \in active \ {k}, k \in Requires[m]
    PROVE  m \in ModulesBlockingDisable(k, active)
  BY DEF ModulesBlockingDisable, ModulesToEnableWith, ClosedUnderRequires

-----------------------------------------------------------------------------
\* The invariant is established and preserved.

LEMMA InitRowsInv == Init => RowsInv
  BY ModulesAssumption DEF Init, RowsInv, TypeOK, OnlyMissedNeedIt

\* Switching on a module that requires one about to be switched off is missed by the
\* request, and the module brings what it requires.
LEMMA EnableRowsInv ==
    ASSUME RowsInv, NEW k \in Modules, Enable(k)
    PROVE  RowsInv' /\ Kept
<1> DEFINE on == ModulesToEnableWith(k)
<1>1. /\ enabled' = enabled \cup on
      /\ off' = off
      /\ missed' = [r \in Requests |-> missed[r] \cup
                       {m \in on : off[r] # None /\ off[r] \in Requires[m]}]
  BY DEF Enable, SwitchOn
<1>2. on \subseteq Modules
  BY DEF ModulesToEnableWith
<1>3. \A m \in on : Requires[m] \subseteq on \cup Core
  BY CascadeIsClosed
<1> HIDE DEF on
<1>4. TypeOK'
  BY <1>1, <1>2 DEF RowsInv, TypeOK
<1>5. OnlyMissedNeedIt'
  BY <1>1 DEF RowsInv, OnlyMissedNeedIt
<1>6. Kept
  BY <1>1, <1>3 DEF RowsInv, TypeOK, Kept
<1>7. QED  BY <1>4, <1>5, <1>6 DEF RowsInv

\* A request that goes on finds that nothing enabled requires its module.
LEMMA DisableReadRowsInv ==
    ASSUME RowsInv, NEW r \in Requests, NEW k \in Modules, DisableRead(r, k)
    PROVE  RowsInv' /\ Kept
<1>1. /\ off' = [off EXCEPT ![r] = k]
      /\ UNCHANGED <<enabled, missed>>
      /\ k \in Modules \ Core
      /\ ModulesBlockingDisable(k, enabled \cup Core) = {}
  BY DEF DisableRead
<1>2. TypeOK' /\ Kept
  BY <1>1 DEF RowsInv, TypeOK, Kept
<1>3. \A m \in enabled \ {k} : k \notin Requires[m]
  <2> SUFFICES ASSUME NEW m \in enabled \ {k}, k \in Requires[m]
               PROVE  FALSE
    OBVIOUS
  <2>1. /\ m \in (enabled \cup Core) \ {k}
        /\ enabled \cup Core \in SUBSET Modules
    BY <1>1, ModulesAssumption DEF RowsInv, TypeOK
  <2>2. m \in ModulesBlockingDisable(k, enabled \cup Core)
    BY <1>1, <2>1, RequirerBlocks
  <2>3. QED  BY <1>1, <2>2
<1>4. OnlyMissedNeedIt'
  BY <1>1, <1>3 DEF RowsInv, TypeOK, OnlyMissedNeedIt
<1>5. QED  BY <1>2, <1>4 DEF RowsInv

\* What lacks it once it is written has been missed.
LEMMA DisableEndsRowsInv ==
    ASSUME RowsInv, NEW r \in Requests, DisableWrite(r) \/ DisableFails(r)
    PROVE  RowsInv' /\ Kept
<1>1. /\ off[r] # None
      /\ enabled' = enabled \ {off[r]} \/ enabled' = enabled
      /\ off' = [off EXCEPT ![r] = None]
      /\ missed' = [missed EXCEPT ![r] = {}]
  BY DEF DisableWrite, DisableFails
<1>2. TypeOK'
  BY <1>1 DEF RowsInv, TypeOK
<1>3. OnlyMissedNeedIt'
  BY <1>1 DEF RowsInv, TypeOK, OnlyMissedNeedIt
<1>4. Kept
  <2> SUFFICES ASSUME NEW m \in enabled', NEW k \in Requires[m] \ enabled', k \in enabled
               PROVE  off[r] = k /\ off'[r] = None /\ m \in missed[r]
    BY <1>1 DEF Kept
  <2>1. k = off[r] /\ off'[r] = None /\ m \in enabled \ {off[r]}
    BY <1>1 DEF RowsInv, TypeOK
  <2>2. QED  BY <1>1, <2>1 DEF RowsInv, OnlyMissedNeedIt
<1>5. QED  BY <1>2, <1>3, <1>4 DEF RowsInv

\* For every catalogue of modules, whatever they require, whatever the tenant is
\* provisioned with and however the requests cross: an enabled module comes to lack what
\* it requires only by a request that looked before the module was switched on.
THEOREM RequirementsAreKept == TenancySpec => RequirementsKept
<1>1. RowsInv /\ [Next]_vars => RowsInv' /\ Kept
  <2> SUFFICES ASSUME RowsInv, [Next]_vars PROVE RowsInv' /\ Kept
    OBVIOUS
  <2>1. CASE \E k \in Modules : Enable(k)
    BY <2>1, EnableRowsInv
  <2>2. CASE \E r \in Requests, k \in Modules : DisableRead(r, k)
    BY <2>2, DisableReadRowsInv
  <2>3. CASE \E r \in Requests : DisableWrite(r) \/ DisableFails(r)
    BY <2>3, DisableEndsRowsInv
  <2>4. CASE UNCHANGED vars
    BY <2>4 DEF vars, RowsInv, TypeOK, OnlyMissedNeedIt, Kept
  <2>5. QED  BY <2>1, <2>2, <2>3, <2>4 DEF Next
<1> DEFINE Keeps ==
      \A m \in enabled' : \A k \in Requires[m] \ enabled' :
          \/ m \in enabled /\ k \notin enabled
          \/ \E r \in Requests : off[r] = k /\ off'[r] = None /\ m \in missed[r]
<1>2. RowsInv /\ [Next]_vars => RowsInv' /\ [Keeps]_vars
  BY <1>1 DEF Kept
<1>3. QED  BY InitRowsInv, <1>2, TenancyImplementsParts, PTL DEF Spec, RequirementsKept

-----------------------------------------------------------------------------
\* The cache, over whatever its row may hold.

\* What a lookup in flight has: since when, and the value that was answered.
CacheTypeOK ==
    /\ enabled \in SUBSET Modules
    /\ now \in Nat /\ changed \in Nat /\ changed <= now
    /\ cache \in [Processes -> {Cache!NoEntry} \cup [value : SUBSET Modules, expires : Nat]]
    /\ lookup \in [Lookups -> {Cache!Idle}
                     \cup [step : {"query"}, proc : Processes, since : Nat]
                     \cup [step : {"store"}, proc : Processes, since : Nat,
                           value : SUBSET Modules]]

\* A query is never older than Latency.
LookupsAreRecent ==
    \A k \in Lookups : lookup[k] # Cache!Idle =>
        lookup[k].since <= now /\ now <= lookup[k].since + Latency

\* What has been answered and is no longer so has changed since it was asked.
AnswersWereTrue ==
    \A k \in Lookups : lookup[k].step = "store" /\ lookup[k].value # enabled =>
        lookup[k].since <= changed

\* An entry lasts Ttl from now at most, and one that is no longer so Ttl and
\* Latency from the change at most.
EntriesRunOut ==
    \A p \in Processes : cache[p] # Cache!NoEntry =>
        /\ cache[p].expires <= now + Ttl
        /\ cache[p].value # enabled => cache[p].expires <= changed + Ttl + Latency

CacheInv == CacheTypeOK /\ LookupsAreRecent /\ AnswersWereTrue /\ EntriesRunOut

LEMMA CacheInvInit == Cache!Init => CacheInv
  BY DEF Cache!Init, CacheInv, CacheTypeOK, LookupsAreRecent, AnswersWereTrue, EntriesRunOut,
         Cache!Idle

LEMMA MissCacheInv ==
    ASSUME CacheInv, NEW k \in Lookups, NEW p \in Processes, Cache!Miss(k, p)
    PROVE  CacheInv'
<1>1. /\ lookup' = [lookup EXCEPT ![k] = [step |-> "query", proc |-> p, since |-> now]]
      /\ UNCHANGED <<now, enabled, changed, cache>>
  BY DEF Cache!Miss
<1>2. CacheTypeOK'
  BY <1>1 DEF CacheInv, CacheTypeOK
<1>3. LookupsAreRecent'
  BY <1>1, CacheAssumption DEF CacheInv, CacheTypeOK, LookupsAreRecent
<1>4. AnswersWereTrue' /\ EntriesRunOut'
  BY <1>1 DEF CacheInv, CacheTypeOK, AnswersWereTrue, EntriesRunOut
<1>5. QED  BY <1>2, <1>3, <1>4 DEF CacheInv

LEMMA QueryCacheInv ==
    ASSUME CacheInv, NEW k \in Lookups, Cache!Query(k)
    PROVE  CacheInv'
<1>1. /\ lookup[k].step = "query"
      /\ lookup' = [lookup EXCEPT ![k] = [step |-> "store", proc |-> lookup[k].proc,
                                          since |-> lookup[k].since, value |-> enabled]]
      /\ UNCHANGED <<now, enabled, changed, cache>>
  BY DEF Cache!Query
<1>2. /\ lookup[k] # Cache!Idle
      /\ lookup[k].proc \in Processes /\ lookup[k].since \in Nat
  BY <1>1 DEF CacheInv, CacheTypeOK, Cache!Idle
<1>3. CacheTypeOK'
  BY <1>1, <1>2 DEF CacheInv, CacheTypeOK
<1>4. LookupsAreRecent' /\ AnswersWereTrue'
  BY <1>1, <1>2 DEF CacheInv, CacheTypeOK, LookupsAreRecent, AnswersWereTrue
<1>5. EntriesRunOut'
  BY <1>1 DEF CacheInv, EntriesRunOut
<1>6. QED  BY <1>3, <1>4, <1>5 DEF CacheInv

LEMMA StoreCacheInv ==
    ASSUME CacheInv, NEW k \in Lookups, Cache!Store(k)
    PROVE  CacheInv'
<1>1. /\ lookup[k].step = "store"
      /\ cache' = [cache EXCEPT ![lookup[k].proc] =
                     [value |-> lookup[k].value, expires |-> now + Ttl]]
      /\ lookup' = [lookup EXCEPT ![k] = Cache!Idle]
      /\ UNCHANGED <<now, enabled, changed>>
  BY DEF Cache!Store
<1>2. /\ lookup[k] # Cache!Idle /\ lookup[k].since \in Nat
      /\ lookup[k].value \in SUBSET Modules
  BY <1>1 DEF CacheInv, CacheTypeOK, Cache!Idle
<1>3. CacheTypeOK'
  BY <1>1, <1>2, CacheAssumption DEF CacheInv, CacheTypeOK
<1>4. LookupsAreRecent' /\ AnswersWereTrue'
  BY <1>1 DEF CacheInv, CacheTypeOK, LookupsAreRecent, AnswersWereTrue, Cache!Idle
<1>5. lookup[k].value # enabled => now + Ttl <= changed + Ttl + Latency
  BY <1>1, <1>2, CacheAssumption DEF CacheInv, CacheTypeOK, LookupsAreRecent, AnswersWereTrue
<1>6. \A p \in Processes :
        \/ cache'[p] = cache[p]
        \/ cache'[p] = [value |-> lookup[k].value, expires |-> now + Ttl]
  BY <1>1 DEF CacheInv, CacheTypeOK
<1>7. EntriesRunOut'
  BY <1>1, <1>5, <1>6, CacheAssumption DEF CacheInv, CacheTypeOK, EntriesRunOut
<1>8. QED  BY <1>3, <1>4, <1>7 DEF CacheInv

\* A change makes what was so until now older than nothing that is kept.
LEMMA ChangeCacheInv ==
    ASSUME CacheInv, NEW p \in Processes, Cache!Change(p)
    PROVE  CacheInv'
<1>1. /\ changed' = IF enabled' = enabled THEN changed ELSE now
      /\ enabled' \in SUBSET Modules
      /\ UNCHANGED <<now, cache, lookup>>
  BY DEF Cache!Change
<1>2. CacheTypeOK' /\ LookupsAreRecent'
  BY <1>1 DEF CacheInv, CacheTypeOK, LookupsAreRecent
<1>3. AnswersWereTrue'
  BY <1>1 DEF CacheInv, CacheTypeOK, LookupsAreRecent, AnswersWereTrue, Cache!Idle
<1>4. EntriesRunOut'
  BY <1>1, CacheAssumption DEF CacheInv, CacheTypeOK, EntriesRunOut
<1>5. QED  BY <1>2, <1>3, <1>4 DEF CacheInv

\* Invalidations and restarts only take entries and lookups away.
LEMMA ForgetCacheInv ==
    ASSUME CacheInv, NEW p \in Processes, Cache!Invalidate(p) \/ Cache!Restart(p)
    PROVE  CacheInv'
<1>1. /\ cache' = [cache EXCEPT ![p] = Cache!NoEntry]
      /\ UNCHANGED <<now, enabled, changed>>
      /\ \/ lookup' = lookup
         \/ lookup' = [k \in Lookups |->
                         IF lookup[k] # Cache!Idle /\ lookup[k].proc = p THEN Cache!Idle
                         ELSE lookup[k]]
  BY DEF Cache!Invalidate, Cache!Restart
<1>2. /\ \A k \in Lookups : lookup'[k] = lookup[k] \/ lookup'[k] = Cache!Idle
      /\ \A q \in Processes : cache'[q] = cache[q] \/ cache'[q] = Cache!NoEntry
  BY <1>1 DEF CacheInv, CacheTypeOK
<1>3. CacheTypeOK'
  BY <1>1, <1>2 DEF CacheInv, CacheTypeOK
<1>4. LookupsAreRecent' /\ AnswersWereTrue'
  BY <1>1, <1>2 DEF CacheInv, LookupsAreRecent, AnswersWereTrue, Cache!Idle
<1>5. EntriesRunOut'
  BY <1>1, <1>2 DEF CacheInv, EntriesRunOut
<1>6. QED  BY <1>3, <1>4, <1>5 DEF CacheInv

LEMMA TickCacheInv ==
    ASSUME CacheInv, Cache!Tick
    PROVE  CacheInv'
<1>1. /\ \A k \in Lookups : lookup[k] # Cache!Idle => now < lookup[k].since + Latency
      /\ now' = now + 1
      /\ UNCHANGED <<enabled, changed, cache, lookup>>
  BY DEF Cache!Tick
<1>2. CacheTypeOK'
  BY <1>1 DEF CacheInv, CacheTypeOK
<1>3. LookupsAreRecent'
  <2> SUFFICES ASSUME NEW k \in Lookups, lookup[k] # Cache!Idle
               PROVE  lookup[k].since <= now + 1 /\ now + 1 <= lookup[k].since + Latency
    BY <1>1 DEF LookupsAreRecent
  <2>1. now < lookup[k].since + Latency /\ lookup[k].since <= now
    BY <1>1 DEF CacheInv, LookupsAreRecent
  <2>2. lookup[k].since \in Nat /\ now \in Nat /\ Latency \in Nat
    BY CacheAssumption DEF CacheInv, CacheTypeOK, Cache!Idle
  <2>3. QED  BY <2>1, <2>2
<1>4. AnswersWereTrue'
  BY <1>1 DEF CacheInv, AnswersWereTrue
<1>5. EntriesRunOut'
  BY <1>1, CacheAssumption DEF CacheInv, CacheTypeOK, EntriesRunOut, Cache!NoEntry
<1>6. QED  BY <1>2, <1>3, <1>4, <1>5 DEF CacheInv

LEMMA CacheInvStays ==
    ASSUME CacheInv, [Cache!Next]_(Cache!vars)
    PROVE  CacheInv'
<1>1. CASE Cache!Step
  BY <1>1, MissCacheInv, QueryCacheInv, StoreCacheInv, ForgetCacheInv, TickCacheInv
  DEF Cache!Step
<1>2. CASE \E p \in Processes : Cache!Change(p)
  BY <1>2, ChangeCacheInv
<1>3. CASE UNCHANGED Cache!vars
  BY <1>3 DEF Cache!vars, CacheInv, CacheTypeOK, LookupsAreRecent, AnswersWereTrue, EntriesRunOut
<1>4. QED  BY <1>1, <1>2, <1>3 DEF Cache!Next

LEMMA CacheInvMeans == CacheInv => StaleAtMostTtl
<1> SUFFICES ASSUME CacheInv, NEW p \in Processes, Cache!Fresh(p), cache[p].value # enabled
             PROVE  now < changed + Ttl + Latency
  BY DEF StaleAtMostTtl, Cache!StaleAtMostTtl
<1>1. cache[p].expires > now /\ now \in Nat
  BY DEF Cache!Fresh, CacheInv, CacheTypeOK
<1>2. cache[p] # Cache!NoEntry /\ cache[p].expires \in Nat
  BY <1>1 DEF CacheInv, CacheTypeOK, Cache!NoEntry
<1>3. cache[p].expires <= changed + Ttl + Latency
  BY <1>2 DEF CacheInv, EntriesRunOut
<1>4. QED  BY <1>1, <1>2, <1>3, CacheAssumption DEF CacheInv, CacheTypeOK

\* For any number of containers and lookups, and any bounds on the clock: whatever
\* crosses between them, an answer from the cache is not older than Ttl and Latency.
THEOREM AnswersAreRecent == TenancySpec => []StaleAtMostTtl
<1>1. CacheInv /\ [Cache!Next]_(Cache!vars) => CacheInv'
  BY CacheInvStays
<1>2. QED  BY CacheInvInit, <1>1, CacheInvMeans, TenancyImplementsParts, PTL DEF Cache!Spec

-----------------------------------------------------------------------------
\* The accounts.

StaffRole == {"ADMIN", "DISPATCHER"}
Staff == [tenant : Tenants, email : Emails, role : StaffRole]
PeopleJob ==
    {Idle}
    \cup [step : {"tenant"}, email : Emails]
    \cup [step : {"admin"}, tenant : Tenants, email : Emails]
    \cup [step : {"create"}, tenant : Tenants, email : Emails, role : StaffRole]
    \cup [step : {"check", "write"}, tenant : Tenants, user : Users,
          to : StaffRole \cup {"gone"}]

PeopleTypeOK ==
    /\ tenants \subseteq Tenants
    /\ user \in [Users -> {NoUser, Gone} \cup Staff]
    /\ req \in [Operators -> PeopleJob]

\* A request that changes somebody changes a user that was there, of that tenant,
\* and to which no other tenant is ever given.
KnowsItsUser ==
    \A r \in Operators : req[r].step \in {"check", "write"} =>
        /\ user[req[r].user] # NoUser
        /\ user[req[r].user] \in Staff => user[req[r].user].tenant = req[r].tenant

\* Staff belongs to tenants that are there.
StaffHasTenant ==
    /\ \A u \in Users : user[u] \in Staff => user[u].tenant \in tenants
    /\ \A r \in Operators : req[r].step \in {"admin", "create"} => req[r].tenant \in tenants

\* The requests that change the staff of a tenant go one at a time, where no two
\* crossed.
OneChange ==
    \A q, r \in Operators :
        /\ req[q].step \in {"check", "write"} /\ req[r].step \in {"check", "write"}
        /\ req[q].tenant = req[r].tenant /\ req[q].tenant \notin raced
        => q = r

\* What isLastAdmin found still holds when the change is written.
NotTheLast ==
    \A r \in Operators :
        req[r].step = "write" /\ req[r].to # "ADMIN" /\ req[r].tenant \notin raced
            => Admins(req[r].tenant) # {req[r].user}

PeopleInv ==
    PeopleTypeOK /\ KnowsItsUser /\ StaffHasTenant /\ OneChange /\ NotTheLast /\ AdminStays

-----------------------------------------------------------------------------
LEMMA InitPeopleInv == PeopleInit => PeopleInv
  BY DEF PeopleInit, PeopleInv, PeopleTypeOK, KnowsItsUser, StaffHasTenant, OneChange,
         NotTheLast,
         AdminStays, PeopleJob, Idle, NoUser, Gone, Staff

\* What a new row of staff changes: the administrators of its tenant at most grow.
LEMMA InsertUserKeeps ==
    ASSUME PeopleInv, NEW t \in tenants, NEW e \in Emails, NEW role \in StaffRole,
           InsertUser(t, e, role)
    PROVE  /\ user' \in [Users -> {NoUser, Gone} \cup Staff]
           /\ \E u \in Users :
                /\ user[u] = NoUser
                /\ user' = [user EXCEPT ![u] = [tenant |-> t, email |-> e, role |-> role]]
                /\ \A s \in Tenants :
                     Admins(s)' = IF s = t /\ role = "ADMIN" THEN Admins(s) \cup {u} ELSE Admins(s)
<1>1. PICK u \in Users :
        /\ user[u] = NoUser
        /\ user' = [user EXCEPT ![u] = [tenant |-> t, email |-> e, role |-> role]]
  BY DEF InsertUser
<1>2. [tenant |-> t, email |-> e, role |-> role] \in Staff
  BY DEF PeopleInv, PeopleTypeOK, Staff
<1>3. user' \in [Users -> {NoUser, Gone} \cup Staff]
  BY <1>1, <1>2 DEF PeopleInv, PeopleTypeOK
<1>4. ASSUME NEW s \in Tenants
      PROVE  Admins(s)' = IF s = t /\ role = "ADMIN" THEN Admins(s) \cup {u} ELSE Admins(s)
  <2>1. \A x \in Users \ {u} : user'[x] = user[x]
    BY <1>1 DEF PeopleInv, PeopleTypeOK
  <2>2. user'[u] = [tenant |-> t, email |-> e, role |-> role]
    BY <1>1 DEF PeopleInv, PeopleTypeOK
  <2>3. u \notin Admins(s)
    BY <1>1 DEF Admins, NoUser
  <2>4. QED  BY <2>1, <2>2, <2>3 DEF Admins
<1>5. QED  BY <1>1, <1>3, <1>4

\* A request that goes on to another job, the rows being what they were: all that
\* is left to see is what the invariant asks of the new job.
LEMMA GotoKeepsPeople ==
    ASSUME PeopleInv, NEW r \in Operators, NEW job \in PeopleJob, Goto(r, job),
           UNCHANGED <<tenants, user>>, raced \subseteq raced', cut \subseteq cut',
           job.step \in {"check", "write"} =>
             /\ user[job.user] # NoUser
             /\ user[job.user] \in Staff => user[job.user].tenant = job.tenant
             /\ \A q \in Operators \ {r} :
                  req[q].step \in {"check", "write"} /\ req[q].tenant = job.tenant
                    => job.tenant \in raced',
           job.step \in {"admin", "create"} => job.tenant \in tenants,
           job.step = "write" /\ job.to # "ADMIN" /\ job.tenant \notin raced'
             => Admins(job.tenant) # {job.user},
           req[r].step = "admin" => req[r].tenant \in cut'
    PROVE  PeopleInv'
<1>1. /\ req' = [req EXCEPT ![r] = job]
      /\ req \in [Operators -> PeopleJob]
  BY DEF Goto, PeopleInv, PeopleTypeOK
<1>2. req'[r] = job /\ \A q \in Operators \ {r} : req'[q] = req[q]
  BY <1>1
<1>3. PeopleTypeOK'
  BY <1>1 DEF PeopleInv, PeopleTypeOK
<1>4. KnowsItsUser'
  BY <1>2 DEF PeopleInv, KnowsItsUser
<1>5. StaffHasTenant'
  BY <1>2 DEF PeopleInv, StaffHasTenant
<1>6. OneChange'
  BY <1>2 DEF PeopleInv, OneChange
<1>7. NotTheLast'
  <2>1. \A t : Admins(t)' = Admins(t)
    BY DEF Admins
  <2>2. QED  BY <1>2, <2>1 DEF PeopleInv, NotTheLast
<1>8. AdminStays'
  <2>1. \A t : Admins(t)' = Admins(t)
    BY DEF Admins
  <2>2. QED  BY <1>2, <2>1 DEF PeopleInv, AdminStays
<1>9. QED  BY <1>3, <1>4, <1>5, <1>6, <1>7, <1>8 DEF PeopleInv

LEMMA ReadsPeopleInv ==
    ASSUME PeopleInv, NEW r \in Operators, ProvisionRead(r) \/ CreateRead(r)
    PROVE  PeopleInv'
<1>1. /\ req[r].step = "idle"
      /\ UNCHANGED <<tenants, user, cut, raced>>
  BY DEF ProvisionRead, CreateRead, Idle
<1>2. PICK job \in PeopleJob :
        /\ Goto(r, job)
        /\ job.step \in {"tenant", "create"}
        /\ job.step = "create" => job.tenant \in tenants
  <2>1. CASE ProvisionRead(r)
    <3>1. PICK e \in Emails : Goto(r, [step |-> "tenant", email |-> e])
      BY <2>1 DEF ProvisionRead
    <3>2. [step |-> "tenant", email |-> e] \in PeopleJob
      BY DEF PeopleJob
    <3>3. QED  BY <3>1, <3>2
  <2>2. CASE CreateRead(r)
    <3>1. PICK t \in tenants, e \in Emails, role \in {"ADMIN", "DISPATCHER"} :
            Goto(r, [step |-> "create", tenant |-> t, email |-> e, role |-> role])
      BY <2>2 DEF CreateRead
    <3>2. [step |-> "create", tenant |-> t, email |-> e, role |-> role] \in PeopleJob
      BY DEF PeopleJob, StaffRole, PeopleInv, PeopleTypeOK
    <3>3. QED  BY <3>1, <3>2
  <2>3. QED  BY <2>1, <2>2
<1>3. QED  BY <1>1, <1>2, GotoKeepsPeople

LEMMA ChangeReadPeopleInv ==
    ASSUME PeopleInv, NEW r \in Operators, ChangeRead(r)
    PROVE  PeopleInv'
<1>1. PICK u \in Users, to \in StaffRole \cup {"gone"} :
        /\ Exists(u)
        /\ LET demotes == to = "DISPATCHER" /\ user[u].role = "ADMIN"
               t == user[u].tenant
           IN /\ Goto(r, [step |-> IF to = "gone" \/ demotes THEN "check" ELSE "write",
                          tenant |-> t, user |-> u, to |-> to])
              /\ raced' = IF Changing(t) = {} THEN raced ELSE raced \cup {t}
  BY DEF ChangeRead, StaffRole
<1> DEFINE t == user[u].tenant
           demotes == to = "DISPATCHER" /\ user[u].role = "ADMIN"
           job == [step |-> IF to = "gone" \/ demotes THEN "check" ELSE "write",
                   tenant |-> t, user |-> u, to |-> to]
<1>2. /\ req[r].step = "idle"
      /\ UNCHANGED <<tenants, user, cut>>
  BY DEF ChangeRead, Idle
<1>3. user[u] \in Staff /\ user[u] # NoUser
  BY <1>1 DEF Exists, PeopleInv, PeopleTypeOK
<1>4. job \in PeopleJob
  <2>1. t \in Tenants
    BY <1>3 DEF Staff
  <2>2. QED  BY <2>1 DEF PeopleJob
<1>5. \A q \in Operators \ {r} :
        req[q].step \in {"check", "write"} /\ req[q].tenant = job.tenant => job.tenant \in raced'
  BY <1>1 DEF Changing
<1>6. job.step = "write" /\ job.to # "ADMIN" => Admins(job.tenant) # {job.user}
  BY DEF Admins, StaffRole
<1>7. QED
  <2> HIDE DEF job
  <2>1. /\ job.step \in {"check", "write"} /\ job.user = u /\ job.tenant = user[u].tenant
        /\ Goto(r, job) /\ raced \subseteq raced'
    BY <1>1 DEF job
  <2>2. QED  BY <1>2, <1>3, <1>4, <1>5, <1>6, <2>1, GotoKeepsPeople

LEMMA ChangeCheckPeopleInv ==
    ASSUME PeopleInv, NEW r \in Operators, ChangeCheck(r)
    PROVE  PeopleInv'
<1>1. /\ req[r].step = "check"
      /\ UNCHANGED <<tenants, user, cut, raced>>
  BY DEF ChangeCheck
<1>2. CASE IsLastAdmin(req[r].tenant, req[r].user)
  <2>1. Goto(r, Idle) /\ Idle \in PeopleJob /\ Idle.step = "idle"
    BY <1>2 DEF ChangeCheck, PeopleJob, Idle
  <2>2. QED  BY <1>1, <2>1, GotoKeepsPeople
<1>3. CASE ~IsLastAdmin(req[r].tenant, req[r].user)
  <2> DEFINE job == [req[r] EXCEPT !.step = "write"]
  <2>1. req[r] \in [step : {"check", "write"}, tenant : Tenants, user : Users,
                    to : StaffRole \cup {"gone"}]
    BY <1>1 DEF PeopleInv, PeopleTypeOK, PeopleJob, Idle
  <2>2. /\ job \in PeopleJob /\ job.step = "write"
        /\ job.tenant = req[r].tenant /\ job.user = req[r].user
    BY <2>1 DEF PeopleJob
  <2>3. Goto(r, job)
    BY <1>3 DEF ChangeCheck
  <2>4. Admins(job.tenant) # {job.user}
    BY <1>3, <2>2 DEF IsLastAdmin
  <2>5. /\ user[job.user] # NoUser
        /\ user[job.user] \in Staff => user[job.user].tenant = job.tenant
    BY <1>1, <2>2 DEF PeopleInv, KnowsItsUser
  <2>6. \A q \in Operators \ {r} :
          req[q].step \in {"check", "write"} /\ req[q].tenant = job.tenant
            => job.tenant \in raced
    BY <1>1, <2>2 DEF PeopleInv, OneChange
  <2>7. QED
    <3> HIDE DEF job
    <3>1. QED  BY <1>1, <2>2, <2>3, <2>4, <2>5, <2>6, GotoKeepsPeople
<1>4. QED  BY <1>2, <1>3

\* A request that ends with nothing done, or that failed.
LEMMA AbortPeopleInv ==
    ASSUME PeopleInv, NEW r \in Operators, Abort(r)
    PROVE  PeopleInv'
<1>1. Goto(r, Idle) /\ Idle \in PeopleJob /\ Idle.step = "idle"
  BY DEF Abort, PeopleJob, Idle
<1>2. /\ UNCHANGED <<tenants, user, raced>> /\ cut \subseteq cut'
      /\ req[r].step = "admin" => req[r].tenant \in cut'
  BY DEF Abort
<1>3. QED  BY <1>1, <1>2, GotoKeepsPeople

LEMMA ProvisionTenantPeopleInv ==
    ASSUME PeopleInv, NEW r \in Operators, ProvisionTenant(r)
    PROVE  PeopleInv'
<1>1. PICK t \in Tenants \ tenants :
        /\ tenants' = tenants \cup {t}
        /\ Goto(r, [step |-> "admin", tenant |-> t, email |-> req[r].email])
  BY DEF ProvisionTenant
<1> DEFINE job == [step |-> "admin", tenant |-> t, email |-> req[r].email]
<1>2. req[r].step = "tenant" /\ UNCHANGED <<user, cut, raced>>
  BY DEF ProvisionTenant
<1>3. job \in PeopleJob
  <2>1. req[r] \in [step : {"tenant"}, email : Emails]
    BY <1>2 DEF PeopleInv, PeopleTypeOK, PeopleJob, Idle
  <2>2. QED  BY <2>1 DEF PeopleJob
<1>4. req'[r] = job /\ \A q \in Operators \ {r} : req'[q] = req[q]
  BY <1>1 DEF Goto, PeopleInv, PeopleTypeOK
<1>5. PeopleTypeOK'
  BY <1>1, <1>2, <1>3 DEF PeopleInv, PeopleTypeOK, Goto
<1>6. KnowsItsUser' /\ StaffHasTenant' /\ OneChange'
  BY <1>1, <1>2, <1>4 DEF PeopleInv, KnowsItsUser, StaffHasTenant, OneChange
<1>7. \A s : Admins(s)' = Admins(s)
  BY <1>2 DEF Admins
<1>8. NotTheLast'
  BY <1>2, <1>4, <1>7 DEF PeopleInv, NotTheLast
<1>9. AdminStays'
  BY <1>1, <1>2, <1>4, <1>7 DEF PeopleInv, AdminStays
<1>10. QED  BY <1>5, <1>6, <1>8, <1>9 DEF PeopleInv

\* A row of staff is inserted and the request ends.
LEMMA InsertPeopleInv ==
    ASSUME PeopleInv, NEW r \in Operators, ProvisionAdmin(r) \/ Create(r)
    PROVE  PeopleInv'
<1>1. /\ Goto(r, Idle) /\ UNCHANGED <<tenants, cut, raced>>
      /\ req[r].step \in {"admin", "create"}
  BY DEF ProvisionAdmin, Create
<1>2. PICK t \in tenants, e \in Emails, role \in StaffRole :
        /\ InsertUser(t, e, role)
        /\ req[r].step = "admin" => t = req[r].tenant /\ role = "ADMIN"
  <2>1. req[r] \in [step : {"admin"}, tenant : Tenants, email : Emails]
                  \cup [step : {"create"}, tenant : Tenants, email : Emails, role : StaffRole]
    BY <1>1 DEF PeopleInv, PeopleTypeOK, PeopleJob, Idle
  <2>2. req[r].tenant \in tenants /\ req[r].email \in Emails
    BY <1>1, <2>1 DEF PeopleInv, StaffHasTenant
  <2>3. CASE ProvisionAdmin(r)
    BY <2>2, <2>3 DEF ProvisionAdmin, StaffRole
  <2>4. CASE Create(r)
    <3>1. req[r].step = "create" /\ InsertUser(req[r].tenant, req[r].email, req[r].role)
      BY <2>4 DEF Create
    <3>2. req[r].role \in StaffRole
      BY <2>1, <3>1
    <3>3. QED  BY <2>2, <3>1, <3>2
  <2>5. QED  BY <2>3, <2>4
<1>3. PICK u \in Users :
        /\ user[u] = NoUser
        /\ user' = [user EXCEPT ![u] = [tenant |-> t, email |-> e, role |-> role]]
        /\ \A s \in Tenants :
             Admins(s)' = IF s = t /\ role = "ADMIN" THEN Admins(s) \cup {u} ELSE Admins(s)
  BY <1>2, InsertUserKeeps
<1>4. /\ req' \in [Operators -> PeopleJob] /\ req'[r] = Idle /\ Idle.step = "idle"
      /\ \A q \in Operators \ {r} : req'[q] = req[q]
  BY <1>1 DEF Goto, PeopleInv, PeopleTypeOK, PeopleJob, Idle
<1>5. PeopleTypeOK'
  <2>1. user' \in [Users -> {NoUser, Gone} \cup Staff]
    BY <1>2, InsertUserKeeps
  <2>2. QED  BY <1>1, <1>4, <2>1 DEF PeopleInv, PeopleTypeOK
<1>6. /\ user'[u] = [tenant |-> t, email |-> e, role |-> role]
      /\ \A x \in Users \ {u} : user'[x] = user[x]
  BY <1>3 DEF PeopleInv, PeopleTypeOK
<1>7. \A q \in Operators : req'[q].step \in {"check", "write"} =>
        /\ q # r /\ req'[q] = req[q] /\ req[q].user # u /\ req[q].user \in Users
        /\ req[q].tenant \in Tenants
  <2> SUFFICES ASSUME NEW q \in Operators, req'[q].step \in {"check", "write"}
               PROVE  /\ q # r /\ req'[q] = req[q] /\ req[q].user # u
                      /\ req[q].user \in Users /\ req[q].tenant \in Tenants
    OBVIOUS
  <2>1. q # r /\ req'[q] = req[q]
    BY <1>4
  <2>2. req[q] \in [step : {"check", "write"}, tenant : Tenants, user : Users,
                    to : StaffRole \cup {"gone"}]
    BY <2>1 DEF PeopleInv, PeopleTypeOK, PeopleJob, Idle
  <2>3. req[q].user # u
    BY <1>3, <2>1 DEF PeopleInv, KnowsItsUser
  <2>4. QED  BY <2>1, <2>2, <2>3
<1>8. KnowsItsUser'
  BY <1>6, <1>7 DEF PeopleInv, KnowsItsUser
<1>9. StaffHasTenant'
  BY <1>1, <1>4, <1>6 DEF PeopleInv, StaffHasTenant
<1>10. OneChange'
  BY <1>1, <1>7 DEF PeopleInv, OneChange
<1>11. NotTheLast'
  <2> SUFFICES ASSUME NEW q \in Operators,
                      (req[q].step = "write" /\ req[q].to # "ADMIN" /\ req[q].tenant \notin raced)'
               PROVE  (Admins(req[q].tenant) # {req[q].user})'
    BY DEF NotTheLast
  <2>1. Admins(req[q].tenant) # {req[q].user} /\ req'[q] = req[q]
    BY <1>1, <1>7 DEF PeopleInv, NotTheLast
  <2>2. QED  BY <1>3, <1>7, <2>1 DEF Admins
<1>12. AdminStays'
  <2> SUFFICES ASSUME NEW s \in tenants \ (cut \cup raced),
                      \A q \in Operators : req'[q].step = "admin" => req'[q].tenant # s
               PROVE  Admins(s)' # {}
    BY <1>1 DEF AdminStays
  <2>1. CASE req[r].step = "admin" /\ req[r].tenant = s
    BY <1>2, <1>3, <2>1 DEF PeopleInv, PeopleTypeOK
  <2>2. CASE ~(req[r].step = "admin" /\ req[r].tenant = s)
    <3>1. Admins(s) # {}
      BY <1>4, <2>2 DEF PeopleInv, AdminStays
    <3>2. QED  BY <1>3, <3>1 DEF PeopleInv, PeopleTypeOK
  <2>3. QED  BY <2>1, <2>2
<1>13. QED  BY <1>5, <1>8, <1>9, <1>10, <1>11, <1>12 DEF PeopleInv

LEMMA ChangePeopleInv ==
    ASSUME PeopleInv, NEW r \in Operators, Change(r)
    PROVE  PeopleInv'
<1> DEFINE u == req[r].user
           t == req[r].tenant
           to == req[r].to
<1>1. /\ req[r] \in [step : {"check", "write"}, tenant : Tenants, user : Users,
                     to : StaffRole \cup {"gone"}]
      /\ req[r].step = "write"
  BY DEF Change, PeopleInv, PeopleTypeOK, PeopleJob, Idle
<1>2. /\ Exists(u) /\ Goto(r, Idle) /\ UNCHANGED <<tenants, cut, raced>>
      /\ user' = IF to = "gone" THEN [user EXCEPT ![u] = Gone]
                 ELSE [user EXCEPT ![u].role = to]
  BY DEF Change
<1>3. user[u] \in Staff /\ user[u].tenant = t
  BY <1>1, <1>2 DEF Exists, PeopleInv, PeopleTypeOK, KnowsItsUser
<1>4. /\ user'[u] = IF to = "gone" THEN Gone ELSE [user[u] EXCEPT !.role = to]
      /\ \A x \in Users \ {u} : user'[x] = user[x]
      /\ [user[u] EXCEPT !.role = to] \in Staff \/ to = "gone"
  BY <1>1, <1>2, <1>3 DEF PeopleInv, PeopleTypeOK, Staff
<1>5. /\ req' \in [Operators -> PeopleJob] /\ req'[r] = Idle /\ Idle.step = "idle"
      /\ \A q \in Operators \ {r} : req'[q] = req[q]
  BY <1>2 DEF Goto, PeopleInv, PeopleTypeOK, PeopleJob, Idle
<1>6. PeopleTypeOK'
  BY <1>2, <1>4, <1>5 DEF PeopleInv, PeopleTypeOK
<1>7. user'[u] # NoUser /\ (user'[u] \in Staff => user'[u].tenant = t)
  <2>1. CASE to = "gone"
    BY <1>4, <2>1 DEF Gone, NoUser, Staff
  <2>2. CASE to # "gone"
    BY <1>3, <1>4, <2>2 DEF NoUser, Staff, StaffRole
  <2>3. QED  BY <2>1, <2>2
<1>8. KnowsItsUser'
  <2> SUFFICES ASSUME NEW q \in Operators, req'[q].step \in {"check", "write"}
               PROVE  /\ user'[req'[q].user] # NoUser
                      /\ user'[req'[q].user] \in Staff
                           => user'[req'[q].user].tenant = req'[q].tenant
    BY DEF KnowsItsUser
  <2>1. /\ req'[q] = req[q] /\ req[q].user \in Users /\ user[req[q].user] # NoUser
        /\ user[req[q].user] \in Staff => user[req[q].user].tenant = req[q].tenant
    BY <1>5 DEF PeopleInv, KnowsItsUser, PeopleTypeOK, PeopleJob, Idle
  <2>2. QED  BY <1>3, <1>4, <1>7, <2>1
<1>9. StaffHasTenant'
  <2>1. user[u].tenant \in tenants
    BY <1>1, <1>3 DEF PeopleInv, StaffHasTenant
  <2>2. QED  BY <1>2, <1>3, <1>4, <1>5, <1>7, <2>1 DEF PeopleInv, StaffHasTenant
<1>10. OneChange'
  BY <1>2, <1>5 DEF PeopleInv, OneChange
<1>11. /\ Admins(t) \ {u} \subseteq {x \in Users : user'[x].role = "ADMIN" /\ user'[x].tenant = t}
       /\ to = "ADMIN" => u \in {x \in Users : user'[x].role = "ADMIN" /\ user'[x].tenant = t}
  BY <1>1, <1>3, <1>4 DEF Admins, Staff, StaffRole
<1>12. ASSUME NEW s, s # t
       PROVE  Admins(s) = {x \in Users : user'[x].role = "ADMIN" /\ user'[x].tenant = s}
  <2>1. u \notin Admins(s)
    BY <1>3, <1>12 DEF Admins
  <2>2. ~(user'[u].role = "ADMIN" /\ user'[u].tenant = s)
    BY <1>1, <1>3, <1>12, <1>4 DEF Gone, Staff
  <2>3. QED  BY <1>4, <2>1, <2>2 DEF Admins
<1>13. NotTheLast'
  <2> SUFFICES ASSUME NEW q \in Operators,
                      (req[q].step = "write" /\ req[q].to # "ADMIN" /\ req[q].tenant \notin raced)'
               PROVE  (Admins(req[q].tenant) # {req[q].user})'
    BY DEF NotTheLast
  <2>1. q # r /\ req'[q] = req[q] /\ Admins(req[q].tenant) # {req[q].user}
    BY <1>2, <1>5 DEF PeopleInv, NotTheLast
  <2>2. req[q].tenant # t
    BY <1>1, <1>2, <2>1 DEF PeopleInv, OneChange
  <2>3. QED  BY <1>12, <2>1, <2>2 DEF Admins
<1>14. AdminStays'
  <2> SUFFICES ASSUME NEW s \in tenants \ (cut \cup raced),
                      \A q \in Operators : req'[q].step = "admin" => req'[q].tenant # s
               PROVE  {x \in Users : user'[x].role = "ADMIN" /\ user'[x].tenant = s} # {}
    BY <1>2 DEF AdminStays, Admins
  <2>1. Admins(s) # {}
    BY <1>1, <1>5 DEF PeopleInv, AdminStays
  <2>2. CASE s # t
    BY <1>12, <2>1, <2>2
  <2>3. CASE s = t
    <3>1. to = "ADMIN" \/ Admins(t) # {u}
      BY <1>1, <2>3 DEF PeopleInv, NotTheLast
    <3>2. QED  BY <1>11, <2>1, <2>3, <3>1
  <2>4. QED  BY <2>2, <2>3
<1>15. QED  BY <1>6, <1>8, <1>9, <1>10, <1>13, <1>14 DEF PeopleInv

LEMMA StepPeopleInv == PeopleInv /\ [PeopleNext]_peopleVars => PeopleInv'
<1> SUFFICES ASSUME PeopleInv, [PeopleNext]_peopleVars PROVE PeopleInv'
  OBVIOUS
<1>1. CASE PeopleNext
  <2>1. PICK r \in Operators :
          \/ ProvisionRead(r) \/ ProvisionTenant(r) \/ ProvisionAdmin(r)
          \/ CreateRead(r) \/ Create(r)
          \/ ChangeRead(r) \/ ChangeCheck(r) \/ Change(r)
          \/ Abort(r)
    BY <1>1 DEF PeopleNext
  <2>2. CASE ProvisionRead(r) \/ CreateRead(r)
    BY <2>2, ReadsPeopleInv
  <2>3. CASE ProvisionTenant(r)
    BY <2>3, ProvisionTenantPeopleInv
  <2>4. CASE ProvisionAdmin(r) \/ Create(r)
    BY <2>4, InsertPeopleInv
  <2>5. CASE ChangeRead(r)
    BY <2>5, ChangeReadPeopleInv
  <2>6. CASE ChangeCheck(r)
    BY <2>6, ChangeCheckPeopleInv
  <2>7. CASE Change(r)
    BY <2>7, ChangePeopleInv
  <2>8. CASE Abort(r)
    BY <2>8, AbortPeopleInv
  <2>9. QED  BY <2>1, <2>2, <2>3, <2>4, <2>5, <2>6, <2>7, <2>8
<1>2. CASE UNCHANGED peopleVars
  BY <1>2 DEF peopleVars, PeopleInv, PeopleTypeOK, KnowsItsUser, StaffHasTenant, OneChange,
              NotTheLast,
              AdminStays, Admins
<1>3. QED  BY <1>1, <1>2

\* For any number of tenants, users and requests: a tenant whose provisioning ended
\* keeps an administrator, whatever registrations, new users, demotions and deletions
\* are in flight and wherever they fail, unless two changes of its staff crossed.
THEOREM AdminAlwaysStays == TenancySpec => []AdminStays
<1>1. PeopleInv => AdminStays
  BY DEF PeopleInv
<1>2. QED  BY InitPeopleInv, StepPeopleInv, <1>1, TenancyImplementsParts, PTL DEF PeopleSpec

-----------------------------------------------------------------------------
\* The depots.

BasesJob ==
    {Bases!Idle}
    \cup [step : {"create"}, isMain : BOOLEAN]
    \cup [step : {"patch"}, id : Ids, isMain : BOOLEAN]
    \cup [step : {"delete"}, id : Ids, wasMain : BOOLEAN]

BasesTypeOK ==
    /\ used \subseteq Ids /\ IsFiniteSet(used)
    /\ Bases!Rows \subseteq used
    /\ depots \in [Bases!Rows -> Nat]
    /\ main \subseteq Bases!Rows
    /\ change \in [Operators -> BasesJob]
    /\ unmarked \in BOOLEAN /\ mixed \in BOOLEAN

\* No two rows have the same age, and the next will be the youngest.
AgesDiffer ==
    /\ \A d \in Bases!Rows : depots[d] < Cardinality(used)
    /\ \A c, d \in Bases!Rows : depots[c] = depots[d] => c = d

\* While no two requests crossed, what a request read is still so.
ReadStillHolds ==
    ~mixed =>
      /\ \A q, r \in Operators : change[q] # Bases!Idle /\ change[r] # Bases!Idle => q = r
      /\ \A r \in Operators :
           /\ change[r].step = "create" => change[r].isMain \/ Bases!Rows # {}
           /\ change[r].step = "delete" => (change[r].wasMain <=> change[r].id \in main)

BasesInv == BasesTypeOK /\ AgesDiffer /\ ReadStillHolds /\ Bases!OneMainDepot

-----------------------------------------------------------------------------
\* Of some rows of different ages exactly one is the oldest.
LEMMA OneIsOldest ==
    ASSUME BasesTypeOK, AgesDiffer, NEW rest \in SUBSET Bases!Rows
    PROVE  /\ Bases!Oldest(rest) \subseteq rest
           /\ rest # {} => Bases!Oldest(rest) # {}
           /\ \A c, d \in Bases!Oldest(rest) : c = d
<1>1. Bases!Oldest(rest) \subseteq rest
  BY DEF Bases!Oldest
<1>2. \A d \in rest : depots[d] \in Nat
  BY DEF BasesTypeOK
<1>3. ASSUME rest # {}
      PROVE  Bases!Oldest(rest) # {}
  <2> DEFINE Older(d) == {x \in rest : depots[x] < depots[d]}
             T == {Older(d) : d \in rest}
             order == StrictSubsetOrdering(used)
  <2>1. T \subseteq FiniteSubsetsOf(used) /\ T # {}
    <3>1. rest \subseteq used
      BY DEF BasesTypeOK
    <3>2. ASSUME NEW d \in rest
          PROVE  Older(d) \in SUBSET used /\ IsFiniteSet(Older(d))
      BY <3>1, FS_Subset DEF BasesTypeOK
    <3>3. QED  BY <1>3, <3>2 DEF FiniteSubsetsOf
  <2>2. PICK W \in T : \A V \in T : <<V, W>> \notin order
    <3>1. IsWellFoundedOn(order, FiniteSubsetsOf(used))
      BY FS_StrictSubsetOrderingWellFounded
    <3> HIDE DEF T, order
    <3>2. QED  BY <2>1, <3>1, WFMin
  <2>3. PICK d \in rest : W = Older(d)
    BY <2>2
  <2>4. ASSUME NEW x \in Older(d)
        PROVE  FALSE
    <3>1. Older(x) \in T
      BY <2>4
    <3>2. Older(x) \subseteq Older(d) /\ Older(x) # Older(d)
      BY <1>2, <2>3, <2>4
    <3>3. Older(x) \in SUBSET used /\ Older(d) \in SUBSET used
      BY DEF BasesTypeOK
    <3>4. <<Older(x), Older(d)>> \in order
      BY <3>2, <3>3 DEF StrictSubsetOrdering
    <3>5. QED  BY <2>2, <2>3, <3>1, <3>4
  <2>5. d \in Bases!Oldest(rest)
    BY <1>2, <2>3, <2>4 DEF Bases!Oldest
  <2>6. QED  BY <2>5
<1>4. ASSUME NEW c \in Bases!Oldest(rest), NEW d \in Bases!Oldest(rest)
      PROVE  c = d
  <2>1. depots[c] <= depots[d] /\ depots[d] <= depots[c] /\ c \in rest /\ d \in rest
    BY <1>4 DEF Bases!Oldest
  <2>2. depots[c] = depots[d]
    BY <1>2, <2>1
  <2>3. QED  BY <2>1, <2>2 DEF AgesDiffer
<1>5. QED  BY <1>1, <1>3, <1>4

\* FiniteSets is the same here and in Depots.
LEMMA SameCardinality == \A S : Bases!Cardinality(S) = Cardinality(S)
  BY DEF Bases!Cardinality, Cardinality

LEMMA InitBasesInv == Bases!Init => BasesInv
<1> SUFFICES ASSUME Bases!Init PROVE BasesInv
  OBVIOUS
<1>1. Bases!Rows = {}
  BY DEF Bases!Init, Bases!Rows
<1>2. BasesTypeOK
  BY <1>1, FS_EmptySet DEF Bases!Init, BasesTypeOK, BasesJob, Bases!Rows
<1>3. AgesDiffer /\ ReadStillHolds /\ Bases!OneMainDepot
  BY <1>1 DEF Bases!Init, AgesDiffer, ReadStillHolds, Bases!OneMainDepot, Bases!Idle
<1>4. QED  BY <1>2, <1>3 DEF BasesInv

\* A request reads what it needs: the rows stay what they are.
LEMMA BeginBasesInv ==
    ASSUME BasesInv, NEW r \in Operators, NEW job \in BasesJob, Bases!Begin(r, job),
           job.step = "create" => job.isMain \/ Bases!Rows # {},
           job.step = "delete" => (job.wasMain <=> job.id \in main)
    PROVE  BasesInv'
<1>1. /\ change[r] = Bases!Idle /\ change' = [change EXCEPT ![r] = job]
      /\ mixed' = (mixed \/ \E q \in Operators : change[q] # Bases!Idle)
      /\ UNCHANGED <<depots, main, used, unmarked>>
  BY DEF Bases!Begin
<1>2. Bases!Rows' = Bases!Rows
  BY <1>1 DEF Bases!Rows
<1>3. BasesTypeOK'
  BY <1>1, <1>2 DEF BasesInv, BasesTypeOK
<1>4. AgesDiffer' /\ Bases!OneMainDepot'
  BY <1>1, <1>2 DEF BasesInv, AgesDiffer, Bases!OneMainDepot, BasesTypeOK
<1>5. ReadStillHolds'
  <2> SUFFICES ASSUME ~mixed'
               PROVE  /\ \A q, s \in Operators :
                             change'[q] # Bases!Idle /\ change'[s] # Bases!Idle => q = s
                      /\ \A s \in Operators :
                           /\ change'[s].step = "create" => change'[s].isMain \/ Bases!Rows # {}
                           /\ change'[s].step = "delete" =>
                                (change'[s].wasMain <=> change'[s].id \in main)
    BY <1>1, <1>2 DEF ReadStillHolds
  <2>1. \A s \in Operators : change'[s] = IF s = r THEN job ELSE Bases!Idle
    BY <1>1 DEF BasesInv, BasesTypeOK
  <2>2. QED  BY <2>1 DEF Bases!Idle
<1>6. QED  BY <1>3, <1>4, <1>5 DEF BasesInv

LEMMA ReadsBasesInv ==
    ASSUME BasesInv, NEW r \in Operators,
           Bases!CreateRead(r) \/ Bases!PatchRead(r) \/ Bases!DeleteRead(r)
    PROVE  BasesInv'
<1>1. Bases!Rows \subseteq Ids
  BY DEF BasesInv, BasesTypeOK
<1>2. PICK job \in BasesJob :
        /\ Bases!Begin(r, job)
        /\ job.step = "create" => job.isMain \/ Bases!Rows # {}
        /\ job.step = "delete" => (job.wasMain <=> job.id \in main)
  <2>1. CASE Bases!CreateRead(r)
    <3>1. PICK asked \in BOOLEAN :
            Bases!Begin(r, [step |-> "create", isMain |-> asked \/ Bases!Rows = {}])
      BY <2>1 DEF Bases!CreateRead
    <3>2. [step |-> "create", isMain |-> asked \/ Bases!Rows = {}] \in BasesJob
      BY DEF BasesJob
    <3>3. QED  BY <3>1, <3>2
  <2>2. CASE Bases!PatchRead(r)
    <3>1. PICK d \in Bases!Rows, isMain \in BOOLEAN :
            Bases!Begin(r, [step |-> "patch", id |-> d, isMain |-> isMain])
      BY <2>2 DEF Bases!PatchRead
    <3>2. [step |-> "patch", id |-> d, isMain |-> isMain] \in BasesJob
      BY <1>1 DEF BasesJob
    <3>3. QED  BY <3>1, <3>2
  <2>3. CASE Bases!DeleteRead(r)
    <3>1. PICK d \in Bases!Rows :
            Bases!Begin(r, [step |-> "delete", id |-> d, wasMain |-> d \in main])
      BY <2>3 DEF Bases!DeleteRead
    <3>2. [step |-> "delete", id |-> d, wasMain |-> d \in main] \in BasesJob
      BY <1>1 DEF BasesJob
    <3>3. QED  BY <3>1, <3>2
  <2>4. QED  BY <2>1, <2>2, <2>3
<1>3. QED  BY <1>2, BeginBasesInv

\* A request that ends was the only one, if no two have crossed.
LEMMA EndKeepsReads ==
    ASSUME BasesInv, NEW r \in Operators, change[r] # Bases!Idle, Bases!End(r)
    PROVE  change' \in [Operators -> BasesJob] /\ mixed' = mixed /\ ReadStillHolds'
<1>1. change' = [change EXCEPT ![r] = Bases!Idle] /\ mixed' = mixed
  BY DEF Bases!End
<1>2. /\ change' \in [Operators -> BasesJob]
      /\ \A q \in Operators : change'[q] = IF q = r THEN Bases!Idle ELSE change[q]
  BY <1>1 DEF BasesInv, BasesTypeOK, BasesJob
<1>3. ~mixed => \A q \in Operators : change'[q] = Bases!Idle
  BY <1>2 DEF BasesInv, ReadStillHolds
<1>4. QED  BY <1>1, <1>2, <1>3 DEF ReadStillHolds, Bases!Idle

LEMMA CreateBasesInv ==
    ASSUME BasesInv, NEW r \in Operators, Bases!Create(r)
    PROVE  BasesInv'
<1>1. PICK d \in Ids \ used :
        /\ depots' = [x \in Bases!Rows \cup {d} |-> IF x = d THEN Cardinality(used) ELSE depots[x]]
        /\ used' = used \cup {d}
        /\ main' = IF change[r].isMain THEN {d} ELSE main
  BY SameCardinality DEF Bases!Create
<1>2. /\ change[r].step = "create" /\ change[r] # Bases!Idle /\ Bases!End(r)
      /\ unmarked' = (unmarked /\ ~change[r].isMain)
  BY DEF Bases!Create, Bases!Idle
<1>3. change[r].isMain \in BOOLEAN
  BY <1>2 DEF BasesInv, BasesTypeOK, BasesJob, Bases!Idle
<1>4. /\ IsFiniteSet(used') /\ Cardinality(used) \in Nat
      /\ Cardinality(used') = Cardinality(used) + 1
  BY <1>1, FS_AddElement, FS_CardinalityType DEF BasesInv, BasesTypeOK
<1>5. Bases!Rows' = Bases!Rows \cup {d} /\ d \notin Bases!Rows
  BY <1>1 DEF Bases!Rows, BasesInv, BasesTypeOK
<1>6. depots' \in [Bases!Rows' -> Nat]
  BY <1>1, <1>4, <1>5 DEF BasesInv, BasesTypeOK
<1>7. /\ change' \in [Operators -> BasesJob] /\ mixed' = mixed /\ ReadStillHolds'
  BY <1>2, EndKeepsReads
<1>8. BasesTypeOK'
  BY <1>1, <1>2, <1>3, <1>4, <1>5, <1>6, <1>7 DEF BasesInv, BasesTypeOK
<1>9. AgesDiffer'
  <2>1. /\ \A x \in Bases!Rows : depots'[x] = depots[x] /\ depots[x] \in Nat
        /\ depots'[d] = Cardinality(used)
    BY <1>1, <1>5 DEF BasesInv, BasesTypeOK
  <2>2. \A x \in Bases!Rows : depots[x] < Cardinality(used)
    BY DEF BasesInv, AgesDiffer
  <2>3. \A x, y \in Bases!Rows : depots[x] = depots[y] => x = y
    BY DEF BasesInv, AgesDiffer
  <2>4. QED  BY <1>4, <1>5, <2>1, <2>2, <2>3 DEF AgesDiffer
<1>10. Bases!OneMainDepot'
  BY <1>1, <1>2, <1>3, <1>5, <1>7 DEF BasesInv, BasesTypeOK, Bases!OneMainDepot, ReadStillHolds
<1>11. QED  BY <1>7, <1>8, <1>9, <1>10 DEF BasesInv

LEMMA PatchBasesInv ==
    ASSUME BasesInv, NEW r \in Operators, Bases!Patch(r)
    PROVE  BasesInv'
<1>1. /\ change[r].step = "patch" /\ change[r] # Bases!Idle
      /\ change[r].id \in Bases!Rows /\ Bases!End(r)
      /\ main' = IF change[r].isMain THEN {change[r].id} ELSE main \ {change[r].id}
      /\ unmarked' = (~change[r].isMain /\ (unmarked \/ change[r].id \in main))
      /\ UNCHANGED <<depots, used>>
  BY DEF Bases!Patch, Bases!Idle
<1>2. change[r].isMain \in BOOLEAN
  BY <1>1 DEF BasesInv, BasesTypeOK, BasesJob, Bases!Idle
<1>3. Bases!Rows' = Bases!Rows
  BY <1>1 DEF Bases!Rows
<1>4. change' \in [Operators -> BasesJob] /\ mixed' = mixed /\ ReadStillHolds'
  BY <1>1, EndKeepsReads
<1>5. BasesTypeOK'
  BY <1>1, <1>2, <1>3, <1>4 DEF BasesInv, BasesTypeOK
<1>6. AgesDiffer'
  BY <1>1, <1>3 DEF BasesInv, AgesDiffer
<1>7. Bases!OneMainDepot'
  BY <1>1, <1>2, <1>3, <1>4 DEF BasesInv, BasesTypeOK, Bases!OneMainDepot
<1>8. QED  BY <1>4, <1>5, <1>6, <1>7 DEF BasesInv

LEMMA DeleteBasesInv ==
    ASSUME BasesInv, NEW r \in Operators, Bases!Delete(r)
    PROVE  BasesInv'
<1> DEFINE rest == Bases!Rows \ {change[r].id}
<1>1. /\ change[r].step = "delete" /\ change[r] # Bases!Idle
      /\ change[r].id \in Bases!Rows /\ Bases!End(r)
      /\ depots' = [x \in rest |-> depots[x]]
      /\ main' = (main \ {change[r].id}) \cup (IF change[r].wasMain THEN Bases!Oldest(rest) ELSE {})
      /\ UNCHANGED <<used, unmarked>>
  BY DEF Bases!Delete, Bases!Idle
<1>2. /\ Bases!Oldest(rest) \subseteq rest
      /\ rest # {} => Bases!Oldest(rest) # {}
      /\ \A c, d \in Bases!Oldest(rest) : c = d
  BY OneIsOldest DEF BasesInv
<1>3. Bases!Rows' = rest
  BY <1>1 DEF Bases!Rows
<1>4. change' \in [Operators -> BasesJob] /\ mixed' = mixed /\ ReadStillHolds'
  BY <1>1, EndKeepsReads
<1>5. BasesTypeOK'
  <2>1. depots' \in [rest -> Nat]
    BY <1>1 DEF BasesInv, BasesTypeOK
  <2>2. main' \subseteq rest
    BY <1>1, <1>2 DEF BasesInv, BasesTypeOK
  <2> HIDE DEF rest
  <2>3. rest \subseteq used
    BY DEF rest, BasesInv, BasesTypeOK
  <2>4. QED  BY <1>1, <1>3, <1>4, <2>1, <2>2, <2>3 DEF BasesInv, BasesTypeOK
<1>6. AgesDiffer'
  BY <1>1, <1>3 DEF BasesInv, AgesDiffer
<1>7. Bases!OneMainDepot'
  <2> SUFFICES ASSUME ~mixed
               PROVE  /\ \A c, d \in main' : c = d
                      /\ rest # {} /\ ~unmarked => main' # {}
    BY <1>1, <1>3, <1>4 DEF Bases!OneMainDepot
  <2>1. \A c, d \in main : c = d
    BY DEF BasesInv, Bases!OneMainDepot
  <2>2. CASE change[r].id \in main
    <3>1. main \ {change[r].id} = {} /\ change[r].wasMain
      BY <1>1, <2>1, <2>2 DEF BasesInv, ReadStillHolds
    <3>2. main' = Bases!Oldest(rest)
      BY <1>1, <3>1
    <3>3. QED  BY <1>2, <3>2
  <2>3. CASE change[r].id \notin main
    <3>1. main' = main
      BY <1>1, <2>3 DEF BasesInv, ReadStillHolds
    <3>2. QED  BY <1>1, <2>1, <3>1 DEF BasesInv, Bases!OneMainDepot
  <2>4. QED  BY <2>2, <2>3
<1>8. QED  BY <1>4, <1>5, <1>6, <1>7 DEF BasesInv

LEMMA AbortBasesInv ==
    ASSUME BasesInv, NEW r \in Operators, Bases!Abort(r)
    PROVE  BasesInv'
<1>1. change[r] # Bases!Idle /\ Bases!End(r) /\ UNCHANGED <<depots, main, used, unmarked>>
  BY DEF Bases!Abort
<1>2. Bases!Rows' = Bases!Rows
  BY <1>1 DEF Bases!Rows
<1>3. change' \in [Operators -> BasesJob] /\ mixed' = mixed /\ ReadStillHolds'
  BY <1>1, EndKeepsReads
<1>4. BasesTypeOK' /\ AgesDiffer' /\ Bases!OneMainDepot'
  BY <1>1, <1>2, <1>3 DEF BasesInv, BasesTypeOK, AgesDiffer, Bases!OneMainDepot
<1>5. QED  BY <1>3, <1>4 DEF BasesInv

LEMMA StepBasesInv == BasesInv /\ [Bases!Next]_(Bases!vars) => BasesInv'
<1> SUFFICES ASSUME BasesInv, [Bases!Next]_(Bases!vars) PROVE BasesInv'
  OBVIOUS
<1>1. CASE Bases!Next
  BY <1>1, ReadsBasesInv, CreateBasesInv, PatchBasesInv, DeleteBasesInv, AbortBasesInv
  DEF Bases!Next
<1>2. CASE UNCHANGED Bases!vars
  BY <1>2 DEF Bases!vars, BasesInv, BasesTypeOK, AgesDiffer, ReadStillHolds,
              Bases!OneMainDepot, Bases!Rows
<1>3. QED  BY <1>1, <1>2

\* For any number of depots and requests: depots created, changed and deleted in any
\* order leave one main depot, unless two requests crossed or somebody unmarked it.
THEOREM OneDepotIsMain == TenancySpec => []OneMainDepot
<1>1. BasesInv => OneMainDepot
  BY DEF BasesInv, OneMainDepot
<1>2. QED  BY InitBasesInv, StepBasesInv, <1>1, TenancyImplementsParts, PTL DEF Bases!Spec
=============================================================================
