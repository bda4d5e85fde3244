----------------------------- MODULE MCBackground -----------------------------
(***************************************************************************)
(* An instance of Background for TLC: three actions of a driver's day;     *)
(* some commands for one vehicle; two routes, the first with two pings.    *)
(***************************************************************************)
EXTENDS Background, TLC

CONSTANTS r1, r2, p1, p2, p3

MCRouteOf == (p1 :> r1) @@ (p2 :> r1) @@ (p3 :> r2)
=============================================================================
