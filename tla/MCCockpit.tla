----------------------------- MODULE MCCockpit -----------------------------
(***************************************************************************)
(* An instance of Cockpit for TLC: one dispatcher's page, two alerts, one  *)
(* route, one condition without events.                                    *)
(***************************************************************************)
EXTENDS Cockpit

MCListens == [p \in Pages |-> {"safety"}]
=============================================================================
