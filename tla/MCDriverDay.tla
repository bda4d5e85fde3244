---------------------------- MODULE MCDriverDay ----------------------------
(***************************************************************************)
(* An instance of DriverDay for TLC: one stop, its arrival and its         *)
(* delivery.                                                               *)
(***************************************************************************)
EXTENDS DriverDay

CONSTANTS s1, arrive, deliver

MCStopOf == [a \in Actions |-> s1]
MCKindOf == [a \in Actions |-> IF a = arrive THEN "arrive" ELSE "complete"]
=============================================================================
