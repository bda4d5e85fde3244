---------------------------- MODULE Entitlements ----------------------------
(***************************************************************************)
(* The modules a tenant has: which ModuleEntitlement rows are enabled when *)
(* the tenant is provisioned (platform/tenants.ts) and as its              *)
(* administrator (admin/modules.ts) and the platform's operator            *)
(* (platform/tenants.ts) switch them on and off, by handlers that do the   *)
(* same and may cross.  What a module requires is declared in              *)
(* packages/shared/src/modules.ts.                                         *)
(***************************************************************************)
CONSTANTS
    Modules,     \* MODULE_KEYS
    Core,        \* CORE_MODULE_KEYS: always active, not switched
    Requires,    \* ModuleDescriptor.requires
    Presets,     \* what initialModulesForBusinessModel gives, for each model
    Selections,  \* what a provisioning request may choose instead
    Requests,    \* the requests being served
    None

ASSUME ModulesAssumption ==
    /\ Core \subseteq Modules
    /\ Requires \in [Modules -> SUBSET Modules]
    /\ Presets \subseteq SUBSET Modules
    /\ Selections \subseteq SUBSET Modules
    /\ None \notin Modules

VARIABLES
    enabled,   \* the modules whose row is enabled
    off,       \* the module each request is about to switch off
    missed     \* history: those switched on since it looked that require it

vars == <<enabled, off, missed>>

\* POST /platform/tenants: the rows of the core and of the preset, or of the
\* modules chosen in the request as they come.
Init ==
    /\ \E chosen \in Presets \cup Selections : enabled = chosen \cup Core
    /\ off = [r \in Requests |-> None]
    /\ missed = [r \in Requests |-> {}]

-----------------------------------------------------------------------------
\* modulesToEnableWith: the module and all it requires, directly or not, that is
\* not in the core.
ClosedUnderRequires(S) == \A m \in S : Requires[m] \subseteq S

ModulesToEnableWith(k) ==
    {m \in Modules : \A S \in SUBSET Modules : k \in S /\ ClosedUnderRequires(S) => m \in S}
        \ Core

\* modulesBlockingDisable
ModulesBlockingDisable(k, active) ==
    {m \in active \ {k} : k \in ModulesToEnableWith(m)}

-----------------------------------------------------------------------------
\* PATCH /modules/:key and PATCH /platform/tenants/:id/modules/:key

\* Switched on with its dependencies, in a transaction.
SwitchOn(on) ==
    /\ enabled' = enabled \cup on
    /\ missed' = [r \in Requests |-> missed[r] \cup
                     {m \in on : off[r] # None /\ off[r] \in Requires[m]}]
    /\ UNCHANGED off

EnableAlone(k) == k \notin Core /\ SwitchOn({k})
Enable(k) == k \notin Core /\ SwitchOn(ModulesToEnableWith(k))

\* Switched off unless an enabled module depends on it (409): read...
DisableRead(r, k) ==
    /\ off[r] = None /\ k \notin Core
    /\ ModulesBlockingDisable(k, enabled \cup Core) = {}
    /\ off' = [off EXCEPT ![r] = k]
    /\ UNCHANGED <<enabled, missed>>

\* ...and then written, by key alone.
DisableWrite(r) ==
    /\ off[r] # None
    /\ enabled' = enabled \ {off[r]}
    /\ off' = [off EXCEPT ![r] = None]
    /\ missed' = [missed EXCEPT ![r] = {}]

\* The query fails: nothing is written.
DisableFails(r) ==
    /\ off[r] # None
    /\ off' = [off EXCEPT ![r] = None]
    /\ missed' = [missed EXCEPT ![r] = {}]
    /\ UNCHANGED enabled

Next ==
    \/ \E k \in Modules : Enable(k)
    \/ \E r \in Requests, k \in Modules : DisableRead(r, k)
    \/ \E r \in Requests : DisableWrite(r) \/ DisableFails(r)

Spec == Init /\ [][Next]_vars

-----------------------------------------------------------------------------
\* Properties.

TypeOK ==
    /\ enabled \in SUBSET Modules
    /\ Core \subseteq enabled
    /\ off \in [Requests -> (Modules \ Core) \cup {None}]
    /\ missed \in [Requests -> SUBSET Modules]

\* What an enabled module lacks was lacking already, as a list chosen when the tenant was
\* provisioned may leave it, or has been switched off by a request that looked before
\* the module was switched on.
RequirementsKept ==
    [][\A m \in enabled' : \A k \in Requires[m] \ enabled' :
          \/ m \in enabled /\ k \notin enabled
          \/ \E r \in Requests : off[r] = k /\ off'[r] = None /\ m \in missed[r]]_vars
=============================================================================
