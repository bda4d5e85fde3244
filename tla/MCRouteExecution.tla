-------------------------- MODULE MCRouteExecution --------------------------
(***************************************************************************)
(* An instance of RouteExecution for TLC: one route with an order that is  *)
(* picked up and delivered on it, two drivers and two requests in flight.  *)
(***************************************************************************)
EXTENDS RouteExecution

CONSTANTS pick1, drop1, route1, order1

MCRouteOf == [s \in Stops |-> route1]
MCOrderOf == [s \in Stops |-> order1]
MCKindOf  == [s \in Stops |-> IF s = pick1 THEN "PICKUP" ELSE "DELIVERY"]
=============================================================================
