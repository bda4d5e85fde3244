----------------------------- MODULE Optimizer -----------------------------
(***************************************************************************)
(* The planner of packages/optimizer/src/vrp.ts: planRoutes gives each     *)
(* order to a vehicle, greedily and by the chosen objective, and improves  *)
(* each route by 2-opt; insertOrderIntoRoute puts one more order into a    *)
(* route, and evaluateSequence accepts the sequence a dispatcher fixed.    *)
(* simulateRoute decides for all of them what can be driven: time windows, *)
(* the working day, the range of the battery.  packLoad (loadPacking.ts)   *)
(* fills vehicles by weight and volume alone, without driving them.        *)
(*                                                                         *)
(* A step is one turn of a loop of the code.  Kilometres and minutes are   *)
(* natural numbers that a travel model gives; ties are left open, as the   *)
(* order in which the rows come from the database leaves them.             *)
(***************************************************************************)
EXTENDS Integers, Sequences, FiniteSets

CONSTANTS
    Orders, Vehicles,
    OrderKinds,      \* what an order may be: [at, from, kg, m3, window, priority, cold]
    VehicleKinds,    \* what a vehicle may be: [kg, m3, range, cold, restricted]
    Objectives,
    Points, Depot, Km, Minutes,   \* the travel model
    Departure, MaxRouteDuration, ServiceTime,
    Far,             \* more than any route's minutes and kilometres
    MaxEdits,        \* bound on the insertions and resequencings
    NONE

OptimizerAssumption ==
    /\ Depot \in Points /\ NONE \notin Points
    /\ Km \in [Points \X Points -> Nat] /\ Minutes \in [Points \X Points -> Nat]
    /\ {Departure, MaxRouteDuration, ServiceTime, Far, MaxEdits} \subseteq Nat
    /\ \A k \in OrderKinds :
         /\ k.at \in Points /\ k.from \in Points \cup {NONE}
         /\ k.kg \in Nat /\ k.m3 \in Nat /\ k.window \in Nat \X Nat
    /\ \A k \in VehicleKinds : {k.kg, k.m3, k.range} \subseteq Nat

VARIABLES
    order, vehicle, objective,  \* the request
    pending,      \* the orders not considered yet
    route,        \* the sequence of each vehicle
    unassigned,   \* the orders left out
    phase,        \* "assign", "improve", "planned"; "pack"
    been,         \* history: the plans that 2-opt has had
    edits

request == <<order, vehicle, objective>>
vars == <<request, pending, route, unassigned, phase, been, edits>>

-----------------------------------------------------------------------------
\* simulateRoute.

Drive(s, point) ==
    [s EXCEPT !.at = point, !.km = @ + Km[<<s.at, point>>], !.clock = @ + Minutes[<<s.at, point>>]]

Later(m, n) == IF m > n THEN m ELSE n

\* Waits for the window to open, and is late when it has closed.
Visit(s, point, window) ==
    LET there == Drive(s, point) IN
      [there EXCEPT !.ok = @ /\ there.clock <= window[2],
                    !.clock = Later(@, window[1]) + ServiceTime]

AnyTime == <<0, Departure + MaxRouteDuration + Far>>

\* An order with a pickup is collected and delivered one after the other; the
\* window is that of the delivery.
Serve(s, o) ==
    LET collected == IF order[o].from = NONE THEN s ELSE Visit(s, order[o].from, AnyTime)
    IN  Visit(collected, order[o].at, order[o].window)

simulateRoute(v, stops) ==
    LET start == [at |-> Depot, km |-> 0, clock |-> Departure, ok |-> TRUE]
        run[i \in 0..Len(stops)] == IF i = 0 THEN start ELSE Serve(run[i - 1], stops[i])
        back == Drive(run[Len(stops)], Depot)
        duration == back.clock - Departure
    IN  [km |-> back.km, min |-> duration,
         feasible |-> back.ok /\ back.km <= vehicle[v].range /\ duration <= MaxRouteDuration]

Feasible(v, stops) == simulateRoute(v, stops).feasible
DistanceOf(v, stops) == simulateRoute(v, stops).km

-----------------------------------------------------------------------------
\* What a vehicle can carry.

LoadOf(stops, what) ==
    LET sum[i \in 0..Len(stops)] ==
            IF i = 0 THEN 0 ELSE sum[i - 1] + order[stops[i]][what]
    IN  sum[Len(stops)]

reeferOk(v, o) == order[o].cold \subseteq vehicle[v].cold
WeightOk(v, stops) == LoadOf(stops, "kg") <= vehicle[v].kg
VolumeOk(v, stops) == LoadOf(stops, "m3") <= vehicle[v].m3

\* The vehicles that checkPicoYPlaca lets drive on the day of the plan.
Allowed == {v \in Vehicles : ~vehicle[v].restricted}

CanCarry(v, o) ==
    LET longer == Append(route[v], o) IN
      reeferOk(v, o) /\ WeightOk(v, longer) /\ VolumeOk(v, longer)
CanTake(v, o) == CanCarry(v, o) /\ Feasible(v, Append(route[v], o))

\* assignmentScore: less is better.
assignmentScore(v, o) ==
    LET last == IF route[v] = <<>> THEN Depot ELSE order[route[v][Len(route[v])]].at
        km == Km[<<last, order[o].at>>]
    IN  CASE objective = "MAXIMIZE_EFFICIENCY" -> km
          [] objective = "EQUALIZE_WORKLOAD"   -> Len(route[v]) * Far + km
          [] objective = "FEWEST_DRIVERS"      -> (IF route[v] = <<>> THEN Far ELSE 0) + km
          [] objective = "ASSIGN_TO_SELECTED"  -> (IF route[v] = <<>> THEN 0 ELSE Far) + km
          [] objective = "BALANCE"             -> simulateRoute(v, Append(route[v], o)).min * Far + km

Best(candidates, o) ==
    {v \in candidates : \A u \in candidates : assignmentScore(v, o) <= assignmentScore(u, o)}

-----------------------------------------------------------------------------
\* planRoutes.

Init ==
    /\ order \in [Orders -> OrderKinds]
    /\ vehicle \in [Vehicles -> VehicleKinds]
    /\ objective \in Objectives
    /\ pending = Orders
    /\ route = [v \in Vehicles |-> <<>>]
    /\ unassigned = {} /\ phase \in {"assign", "pack"} /\ been = {} /\ edits = 0

\* High priority first, then the heavier.
ComesFirst(o, p) ==
    \/ order[o].priority > order[p].priority
    \/ order[o].priority = order[p].priority /\ order[o].kg >= order[p].kg

\* The best vehicle, chosen before it is asked whether it can take the order.
AssignToNearest(o) ==
    /\ phase = "assign" /\ o \in pending
    /\ \A p \in pending : ComesFirst(o, p)
    /\ pending' = pending \ {o}
    /\ \E v \in Best(Allowed, o) :
         IF CanTake(v, o)
           THEN route' = [route EXCEPT ![v] = Append(@, o)] /\ UNCHANGED unassigned
           ELSE unassigned' = unassigned \cup {o} /\ UNCHANGED route
    /\ UNCHANGED <<request, phase, been, edits>>

Assign(o) ==
    /\ phase = "assign" /\ o \in pending
    /\ \A p \in pending : ComesFirst(o, p)
    /\ pending' = pending \ {o}
    /\ LET candidates == {v \in Allowed : CanTake(v, o)} IN
         \/ /\ candidates = {}
            /\ unassigned' = unassigned \cup {o}
            /\ UNCHANGED route
         \/ \E v \in Best(candidates, o) :
              /\ route' = [route EXCEPT ![v] = Append(@, o)]
              /\ UNCHANGED unassigned
    /\ UNCHANGED <<request, phase, been, edits>>

AllConsidered ==
    /\ phase = "assign" /\ pending = {}
    /\ phase' = "improve" /\ been' = {route}
    /\ UNCHANGED <<request, pending, route, unassigned, edits>>

Reversed(stops, i, j) ==
    [k \in 1..Len(stops) |-> IF k \in i..j THEN stops[i + j - k] ELSE stops[k]]

ImprovesOrTies(v, stops) == Feasible(v, stops) /\ DistanceOf(v, stops) <= DistanceOf(v, route[v])
ImprovesUnchecked(v, stops) == DistanceOf(v, stops) < DistanceOf(v, route[v])

Improves(v, stops) == Feasible(v, stops) /\ DistanceOf(v, stops) < DistanceOf(v, route[v])

\* twoOptImprove takes any reversal that shortens the route and can be driven, as
\* long as there is one.
twoOptImprove(v) ==
    /\ phase = "improve"
    /\ \E i, j \in 1..Len(route[v]) :
         /\ i < j
         /\ Improves(v, Reversed(route[v], i, j))
         /\ route' = [route EXCEPT ![v] = Reversed(@, i, j)]
    /\ been' = been \cup {route'}
    /\ UNCHANGED <<request, pending, unassigned, phase, edits>>

Publish ==
    /\ phase = "improve"
    /\ \A v \in Vehicles : ~ \E i, j \in 1..Len(route[v]) :
         i < j /\ Improves(v, Reversed(route[v], i, j))
    /\ phase' = "planned" /\ been' = {}
    /\ UNCHANGED <<request, pending, route, unassigned, edits>>

-----------------------------------------------------------------------------
\* packLoad: the heaviest first, to the vehicle with the least of its weight used.

LessUsed(v, u) ==
    LoadOf(route[v], "kg") * vehicle[u].kg <= LoadOf(route[u], "kg") * vehicle[v].kg

packLoad(o) ==
    /\ phase = "pack" /\ o \in pending
    /\ \A p \in pending : order[o].kg >= order[p].kg
    /\ pending' = pending \ {o}
    /\ LET candidates == {v \in Vehicles : CanCarry(v, o)} IN
         \/ /\ candidates = {}
            /\ unassigned' = unassigned \cup {o}
            /\ UNCHANGED route
         \/ \E v \in candidates :
              /\ \A u \in candidates : LessUsed(v, u)
              /\ route' = [route EXCEPT ![v] = Append(@, o)]
              /\ UNCHANGED unassigned
    /\ UNCHANGED <<request, phase, been, edits>>

-----------------------------------------------------------------------------
\* What is done to a planned route afterwards.

Edit(v, stops) ==
    /\ phase = "planned" /\ edits < MaxEdits
    /\ route' = [route EXCEPT ![v] = stops]
    /\ edits' = edits + 1
    /\ UNCHANGED <<request, pending, phase, been>>

With(stops, o, at) == SubSeq(stops, 1, at) \o <<o>> \o SubSeq(stops, at + 1, Len(stops))

\* insertOrderIntoRoute, for an order left out: the shortest of the positions where
\* it can be driven.  The volume is not asked for.
insertOrderIntoRoute(v, o) ==
    LET places == {at \in 0..Len(route[v]) : Feasible(v, With(route[v], o, at))} IN
      /\ o \in unassigned /\ route[v] # <<>>
      /\ reeferOk(v, o) /\ WeightOk(v, Append(route[v], o))
      /\ \E at \in places :
           /\ \A other \in places :
                DistanceOf(v, With(route[v], o, at)) <= DistanceOf(v, With(route[v], o, other))
           /\ Edit(v, With(route[v], o, at))
      /\ unassigned' = unassigned \ {o}

\* evaluateSequence, for the order of visit a dispatcher fixed.
evaluateSequence(v, i, j) ==
    /\ i \in 1..Len(route[v]) /\ j \in 1..Len(route[v]) /\ i < j
    /\ LET fixed == [route[v] EXCEPT ![i] = route[v][j], ![j] = route[v][i]] IN
         Feasible(v, fixed) /\ Edit(v, fixed)
    /\ UNCHANGED unassigned

Next ==
    \/ \E o \in Orders : Assign(o) \/ packLoad(o)
    \/ AllConsidered
    \/ \E v \in Vehicles : twoOptImprove(v)
    \/ Publish
    \/ \E v \in Vehicles, o \in Orders : insertOrderIntoRoute(v, o)
    \/ \E v \in Vehicles, i, j \in 1..Cardinality(Orders) : evaluateSequence(v, i, j)

Spec == Init /\ [][Next]_vars

-----------------------------------------------------------------------------
\* Properties.

\* Whatever 2-opt, an insertion or a dispatcher makes of a route, it can be driven
\* by its vehicle: within the windows, the working day and the range, with no more
\* weight than it carries and no cold order it cannot keep cold.  What planRoutes
\* gives it fits its volume too; an insertion may not.
RoutesAreFeasible ==
    \A v \in Vehicles : route[v] # <<>> =>
        /\ WeightOk(v, route[v])
        /\ edits = 0 => VolumeOk(v, route[v])
        /\ \A k \in 1..Len(route[v]) : reeferOk(v, route[v][k])
        /\ phase # "pack" => v \in Allowed /\ Feasible(v, route[v])

\* What v has now was too much with o, or it could not be driven at the end of what v had
\* at some turn: planRoutes and packLoad only add to the end.
RefusedAtItsTurn(v, o) ==
    \/ ~CanCarry(v, o)
    \/ \E n \in 0..Len(route[v]) : ~Feasible(v, Append(SubSeq(route[v], 1, n), o))

\* An order is left out only if each vehicle that may drive could not carry it or not
\* drive to it after the orders it had at its turn, and by packLoad only if none can carry
\* it yet.  It might fit between two of them, or after 2-opt: neither is looked into.
RefusedByAll ==
    \A o \in unassigned :
        /\ phase = "assign" => \A v \in Allowed : RefusedAtItsTurn(v, o)
        /\ phase = "pack" => \A v \in Vehicles : ~CanCarry(v, o)

\* The `while (improved)` of twoOptImprove ends: no plan comes back, so that there
\* is an end to them.
NoPlanComesBack == [][phase = "improve" /\ route' # route => route' \notin been]_vars
=============================================================================
