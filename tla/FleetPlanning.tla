--------------------------- MODULE FleetPlanning ---------------------------
(***************************************************************************)
(* Planning the fleet's day: what the solvers answer (FleetAdvice), what   *)
(* becomes of an answer in the database while requests cross (Planning,    *)
(* where an answer is any assignment) and the chat that proposes to plan,  *)
(* dispatch and recover (Copilot, where a row is what its card acts on).   *)
(* The solvers keep no state between requests and the chat sees of the     *)
(* rest only whether it may be done, so each behaviour is of one of them.  *)
(***************************************************************************)
EXTENDS Copilot

CONSTANTS
    Packages, Vehicles, OrderKinds, VehicleKinds, Objectives,
    Points, Depot, Km, Minutes,
    Departure, MaxRouteDuration, ServiceTime, Far, MaxEdits,   \* of Optimizer
    Shares, MaxOrders, MaxDrivers, PerDriver,                  \* of Schedule
    Configs, Profile, Clusters, Batteries, Needs, PerVehicle, MaxRecent, Open, \* of Advice
    Routes, Orders, Pickups, Dispatchers, Faults,              \* of Planning
    NONE

VARIABLES
    order, vehicle, objective, pending, route, unassigned, phase, been, edits,
    shift, query,
    routeStatus, stop, orderStatus, job, overlap,   \* of Planning
    part    \* which of the three this behaviour is of

Solvers == INSTANCE FleetAdvice WITH Orders <- Packages
Plan == INSTANCE Planning

ASSUME FleetAssumption ==
    /\ Plan!PlanningAssumption
    /\ Solvers!OptimizerAssumption /\ Solvers!ScheduleAssumption /\ Solvers!AdviceAssumption

solverVars == <<order, vehicle, objective, pending, route, unassigned, phase, been, edits,
                shift, query>>
planVars == <<routeStatus, stop, orderStatus, job, overlap>>
fleetVars == <<vars, solverVars, planVars, part>>

FleetInit ==
    /\ Init /\ Plan!Init
    /\ \/ part \in {"planning", "chat"} /\ Solvers!NoRequest /\ Solvers!NoQuestion
       \/ part = "solvers" /\ Solvers!AdviceInit

FleetNext ==
    /\ \/ part = "planning" /\ Plan!Next /\ UNCHANGED <<vars, solverVars>>
       \/ part = "solvers" /\ Solvers!Next /\ UNCHANGED <<vars, shift, query, planVars>>
       \/ part = "chat" /\ Next /\ UNCHANGED <<planVars, solverVars>>
    /\ UNCHANGED part

FleetSpec == FleetInit /\ [][FleetNext]_fleetVars

-----------------------------------------------------------------------------
\* The properties of the solvers and of the chat, of the fleet's planning.

RoutesAreFeasible == Solvers!RoutesAreFeasible
RefusedByAll == Solvers!RefusedByAll
NoPlanComesBack == Solvers!NoPlanComesBack
ScheduleIsRight == Solvers!ScheduleIsRight
AdviceIsEnough == Solvers!AdviceIsEnough
OneRoutePerOrder == Plan!OneRoutePerOrder
AssignedHasDelivery == Plan!AssignedHasDelivery
InsertionKeepsAttended == Plan!InsertionKeepsAttended
=============================================================================
