------------------------------- MODULE MCDesk -------------------------------
(***************************************************************************)
(* Instances of Desk for TLC: two proposals that share one of three        *)
(* orders; three rows and one reference; two orders at one address with    *)
(* one place to be at; three days, ranges of two and two requests for      *)
(* them in any order.                                                      *)
(***************************************************************************)
EXTENDS Desk, TLC

CONSTANTS p1, p2, o1, o2, o3

MCOrdersOf == (p1 :> {o1, o2}) @@ (p2 :> {o2, o3})
MCAddressOf == [o \in PlacedOrders |-> CHOOSE a \in Addresses : TRUE]

\* The requests are interchangeable, and so are the orders of one address and
\* the readings.
Symmetry ==
    Permutations(PlacedOrders) \cup Permutations(Requests) \cup Permutations(Readings)
=============================================================================
