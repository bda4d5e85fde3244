------------------------------- MODULE Advice -------------------------------
(***************************************************************************)
(* The advisers of packages/optimizer that only recommend, with the input  *)
(* ai/registry.ts gathers for them: which configuration of vehicle for a   *)
(* cluster of orders (vehiclePick.ts), how much to charge tonight          *)
(* (charging.ts) and how many vehicles of each kind to have (capacity.ts). *)
(* Pure functions, checked over every question within bounds.  The score   *)
(* that orders the suitable configurations is left open, and so are the    *)
(* tariffs: any suitable one may come first.                               *)
(***************************************************************************)
EXTENDS Integers, FiniteSets, FiniteSetsExt

CONSTANTS
    Configs,       \* VEHICLE_TYPES
    Profile,       \* VEHICLE_TYPE_PROFILES: [kg, m3, modes, ranges], of each
    Clusters,      \* the selections of orders: [kg, m3, cold, km], km in hundredths
    Batteries, Needs,            \* in hundredths of a kWh
    PerVehicle, MaxRecent,       \* orders a vehicle takes, orders of a fortnight
    Open           \* the volume of a flatbed

AdviceAssumption ==
    /\ Batteries \subseteq Nat /\ Needs \subseteq Nat
    /\ PerVehicle \in Nat \ {0} /\ MaxRecent \in Nat
    \* Every box of the table that freezes can chill, and it can have a largest pack.
    /\ \A c \in Configs :
         /\ "FROZEN" \in Profile[c].modes => "CHILLED" \in Profile[c].modes
         /\ Profile[c].ranges \subseteq Nat
         /\ \E r \in Profile[c].ranges : \A s \in Profile[c].ranges : r >= s
    /\ \A q \in Clusters : q.km \in Nat /\ q.cold \subseteq {"AMBIENT", "CHILLED", "FROZEN"}

VARIABLE query

Picks == [of : {"pick"}, cluster : Clusters]
Charges == [of : {"charge"}, battery : Batteries, soc : 0..100, need : Needs]
Capacities == {q \in [of : {"capacity"}, recent : 0..MaxRecent, cold : 0..MaxRecent,
                      frozen : 0..MaxRecent, now : {0, 7}] :
                 q.frozen <= q.cold /\ q.cold <= q.recent}
Queries == Picks \cup Charges \cup Capacities

Rounded(m, n) == (2 * m + n) \div (2 * n)
RoundedUp(m, n) == (m + n - 1) \div n
Least(m, n) == IF m < n THEN m ELSE n
AtLeast0(n) == IF n < 0 THEN 0 ELSE n

-----------------------------------------------------------------------------
\* rankVehicleConfigs.

\* The profile that spares the cold boxes, instead of the most demanding one.
MildestProfile(cold) ==
    IF "CHILLED" \in cold THEN "CHILLED" ELSE IF "FROZEN" \in cold THEN "FROZEN" ELSE "AMBIENT"

\* What the registry asks for the cluster: the most demanding profile of its orders.
Demanding(cold) ==
    IF "FROZEN" \in cold THEN "FROZEN" ELSE IF "CHILLED" \in cold THEN "CHILLED" ELSE "AMBIENT"

\* With the largest pack, in tenths of a kilometre and after the safety of 0.85.
RangeMargin(p, km) == Rounded(85 * Max(p.ranges) - km, 10)

Suits(c, q) ==
    LET p == Profile[c] IN
      /\ q.kg <= p.kg
      /\ p.m3 = Open \/ q.m3 <= p.m3
      /\ Demanding(q.cold) = "AMBIENT" \/ Demanding(q.cold) \in p.modes
      /\ RangeMargin(p, q.km) >= 0

\* The suitable ones come first.
Recommended(q) == {c \in Configs : Suits(c, q)}

\* The smallest pack that covers the distance, if there is one.
Pack(c, q) == {r \in Profile[c].ranges : 85 * r >= q.km}

-----------------------------------------------------------------------------
\* planCharging, in units of 0.1 Wh.

Current(q) == q.battery * q.soc
ChargeTarget(q) == Least(100 * q.battery, 115 * q.need)
EnergyKwh(q) == Rounded(AtLeast0(ChargeTarget(q) - Current(q)), 100)
Ready(q) == q.need <= q.battery

-----------------------------------------------------------------------------
\* plan_capacity: the day's orders forecast from those of 14 days, or from what is
\* there to plan when there were none; then planCapacity.

Forecast(q) ==
    IF q.recent = 0 THEN [orders |-> q.now, cold |-> 0, frozen |-> 0]
    ELSE [orders |-> RoundedUp(q.recent, 14), cold |-> RoundedUp(q.cold, 14),
          frozen |-> RoundedUp(q.frozen, 14)]

Fleet(q) ==
    LET f == Forecast(q) IN
      [frozen  |-> RoundedUp(f.frozen, PerVehicle),
       chilled |-> RoundedUp(f.cold - f.frozen, PerVehicle),
       dry     |-> RoundedUp(AtLeast0(f.orders - f.cold), PerVehicle)]

-----------------------------------------------------------------------------
\* What is recommended keeps every order of the cluster at its temperature, not only
\* the most demanding one, and a pack it can have covers the distance with the range
\* kept in reserve; in the last 50 metres, which the margin is rounded over, none
\* does.
PickCarriesAll(q) ==
    \A c \in Recommended(q) :
        /\ q.cold \ {"AMBIENT"} \subseteq Profile[c].modes
        /\ Pack(c, q) # {} \/ q.km <= 85 * Max(Profile[c].ranges) + 5

\* A vehicle that is said to be ready, once charged as planned, has the energy of its
\* route, and nothing is charged past its battery; half of the last decimal aside.
ChargedForTheDay(q) ==
    LET full == Current(q) + 100 * EnergyKwh(q) IN
      /\ Ready(q) => 2 * full >= 2 * 100 * q.need - 100
      /\ 2 * full <= 2 * 100 * q.battery + 100

\* The fleet recommended takes the forecast, the frozen orders in boxes that freeze
\* and the cold ones in cold boxes, and would not with one vehicle less of a kind.
FleetIsEnough(q) ==
    LET f == Forecast(q)
        n == Fleet(q)
    IN  /\ f.frozen <= f.cold /\ f.cold <= f.orders
        /\ f.frozen <= n.frozen * PerVehicle
        /\ f.cold <= (n.frozen + n.chilled) * PerVehicle
        /\ f.orders <= (n.frozen + n.chilled + n.dry) * PerVehicle
        /\ \A k \in DOMAIN n : n[k] > 0 =>
             (n[k] - 1) * PerVehicle < (CASE k = "frozen" -> f.frozen
                                          [] k = "chilled" -> f.cold - f.frozen
                                          [] k = "dry" -> f.orders - f.cold)

IsEnough(q) ==
    CASE q.of = "pick" -> PickCarriesAll(q.cluster)
      [] q.of = "charge" -> ChargedForTheDay(q)
      [] q.of = "capacity" -> FleetIsEnough(q)
=============================================================================
