----------------------------- MODULE MCPlanning -----------------------------
(***************************************************************************)
(* An instance of FleetPlanning for TLC: two routes and two orders, of     *)
(* which one has a pickup too; or three packages of five kinds in two      *)
(* vehicles of three kinds, with the points on a line and the depot at its *)
(* end; or a day of two waves; or the six configurations of the fleet; or  *)
(* two turns of a chat about a plan and a dispatch.                        *)
(***************************************************************************)
EXTENDS FleetPlanning, TLC

CONSTANTS plan, go
MCKind == (plan :> "proposal") @@ (go :> "dispatch")

\* Routes are interchangeable, and so are dispatchers.
Symmetry == Permutations(Routes) \cup Permutations(Dispatchers)

\* Once two requests have overlapped, one stop at most is attended at a time; in
\* the rest, any number of them.
Bounded == overlap => Cardinality({x \in Plan!Slots : Plan!Attended(x)}) <= 1

MCPoints == 0..4
MCKm == [leg \in MCPoints \X MCPoints |->
            IF leg[1] < leg[2] THEN leg[2] - leg[1] ELSE leg[1] - leg[2]]

\* No window: it is open longer than a route may last.
Always == <<0, 100>>

Package(at, from, kg, m3, window, priority, cold) ==
    [at |-> at, from |-> from, kg |-> kg, m3 |-> m3, window |-> window,
     priority |-> priority, cold |-> cold]
MCOrderKinds ==
    {Package(1, NONE, 1, 1, Always, 0, {}),
     Package(3, NONE, 2, 1, <<0, 4>>, 0, {}),
     Package(2, NONE, 1, 2, <<6, 20>>, 1, {}),
     Package(4, 2, 1, 1, Always, 0, {}),
     Package(2, NONE, 1, 1, Always, 0, {"CHILLED"})}
MCVehicleKinds ==
    {[kg |-> 3, m3 |-> 3, range |-> 100, cold |-> {}, restricted |-> FALSE],
     [kg |-> 3, m3 |-> 3, range |-> 9, cold |-> {"CHILLED"}, restricted |-> FALSE],
     [kg |-> 9, m3 |-> 9, range |-> 100, cold |-> {}, restricted |-> TRUE]}
MCObjectives == {"BALANCE", "EQUALIZE_WORKLOAD", "MAXIMIZE_EFFICIENCY", "FEWEST_DRIVERS",
                 "ASSIGN_TO_SELECTED"}
MCShares == <<60, 40>>

\* VEHICLE_TYPE_PROFILES, the weight in tens of kg and the volume in tenths of m3.
Config(kg, m3, modes, ranges) == [kg |-> kg, m3 |-> m3, modes |-> modes, ranges |-> ranges]
MCProfile ==
    ("RAP_MOVE_LIGHT" :> Config(12, 5, {}, {100})) @@
    ("RAP_MOVE_XL" :> Config(25, 16, {}, {120})) @@
    ("RAP_MOVE_COLD_BOX" :> Config(20, 10, {"CHILLED", "FROZEN"}, {90})) @@
    ("IONAX" :> Config(53, 30, {}, {130, 260})) @@
    ("IONAX_COLD_BOX" :> Config(53, 28, {"CHILLED"}, {130, 260})) @@
    ("IONAX_PICKUP" :> Config(53, Open, {}, {130, 260}))
MCConfigs == DOMAIN MCProfile
MCClusters ==
    [kg : {10, 22, 53}, m3 : {0, 8, 29, 40},
     cold : SUBSET {"AMBIENT", "CHILLED", "FROZEN"} \ {{}},
     km : {0, 7640, 7650, 7655, 7656, 11050, 22100, 22105}]
=============================================================================
