---------------------------- MODULE FleetAdvice ----------------------------
(***************************************************************************)
(* The solvers of packages/optimizer side by side: each behaviour asks one *)
(* of them, the planner and the packing (Optimizer), the schedule or the   *)
(* advisers (Advice).                                                      *)
(***************************************************************************)
EXTENDS Optimizer, Schedule, Advice

NoRequest ==
    /\ order = [o \in Orders |-> CHOOSE k \in OrderKinds : TRUE]
    /\ vehicle = [v \in Vehicles |-> CHOOSE k \in VehicleKinds : TRUE]
    /\ objective = CHOOSE x \in Objectives : TRUE
    /\ pending = {} /\ route = [v \in Vehicles |-> <<>>]
    /\ unassigned = {} /\ phase = "schedule" /\ been = {} /\ edits = 0

NoQuestion == shift = NONE /\ query = NONE

AdviceInit ==
    \/ Init /\ NoQuestion
    \/ NoRequest /\ shift \in Shifts /\ query = NONE
    \/ NoRequest /\ shift = NONE /\ query \in Queries

ScheduleIsRight == shift # NONE => NobodyInVain(shift)
AdviceIsEnough == query # NONE => IsEnough(query)
=============================================================================
