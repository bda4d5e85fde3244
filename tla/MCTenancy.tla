----------------------------- MODULE MCTenancy -----------------------------
(***************************************************************************)
(* An instance of Tenancy for TLC: a module of the core and two more, one  *)
(* of which requires the other, that two requests switch on and off, in    *)
(* two containers; or two tenants, three accounts and two requests; or     *)
(* three depots.                                                           *)
(***************************************************************************)
EXTENDS Tenancy, TLC

CONSTANTS EV, TELEMATICS, SAFETY

Needs == (SAFETY :> {TELEMATICS}) @@ [m \in Modules |-> {}]
MCPresets == {{}, {TELEMATICS, SAFETY}}
MCSelections == {{SAFETY}}

\* Containers are interchangeable, and so are requests and the ids of the accounts.
Symmetry == Permutations(Processes) \cup Permutations(Requests) \cup Permutations(Users)
=============================================================================
