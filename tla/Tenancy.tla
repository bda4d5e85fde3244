------------------------------ MODULE Tenancy ------------------------------
(***************************************************************************)
(* What the platform keeps of its tenants: the modules each may use        *)
(* (ModuleAccess), the people who may enter (Accounts) and where the       *)
(* routes leave from (Depots).  They share no state, so each behaviour is  *)
(* of one of them.                                                         *)
(***************************************************************************)
EXTENDS ModuleAccess, Accounts

CONSTANTS Ids       \* of Depots, whose requests are those about people

VARIABLES
    depots, main, used, change, unmarked, mixed,  \* of Depots
    part                             \* which of the three this behaviour is of

Bases == INSTANCE Depots WITH Requests <- Operators, req <- change, raced <- mixed

baseVars == <<depots, main, used, change, unmarked, mixed>>
tenancyVars == <<accessVars, peopleVars, baseVars, part>>

TenancyInit ==
    AccessInit /\ PeopleInit /\ Bases!Init /\ part \in {"modules", "people", "depots"}

TenancyNext ==
    /\ \/ part = "modules" /\ AccessNext /\ UNCHANGED <<peopleVars, baseVars>>
       \/ part = "people" /\ PeopleNext /\ UNCHANGED <<accessVars, baseVars>>
       \/ part = "depots" /\ Bases!Next /\ UNCHANGED <<accessVars, peopleVars>>
    /\ UNCHANGED part

TenancySpec == TenancyInit /\ [][TenancyNext]_tenancyVars

\* The rule of the main depot, of Depots.
OneMainDepot == Bases!OneMainDepot
=============================================================================
