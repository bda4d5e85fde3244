-------------------------------- MODULE Desk --------------------------------
(***************************************************************************)
(* The dispatcher's desk away from the routes in progress: the orders that *)
(* come in (OrderIntake), where they are (Addresses), the proposals of the *)
(* AI that are confirmed (AiProposals) and the series of the days that are *)
(* over (DailyMetrics).  The four touch different columns and no operation *)
(* of one reads what another writes, so each behaviour is of one of them.  *)
(***************************************************************************)
EXTENDS AiProposals, Addresses

CONSTANTS
    Refs, NoRef, IntakeOrders, MayFail,   \* of OrderIntake
    LastDay, Things, Lengths, Readings, Never              \* of DailyMetrics

VARIABLES
    row, intake, crossed,                                        \* of OrderIntake
    today, day, series, reading, revisited, unsettled,           \* of DailyMetrics
    part            \* which of the four this behaviour is of

Intake == INSTANCE OrderIntake WITH
    Orders <- IntakeOrders, Faults <- MayFail, req <- intake
Analytics == INSTANCE DailyMetrics WITH NONE <- Never, row <- series

ASSUME DeskAssumption ==
    /\ Intake!IntakeAssumption /\ Analytics!MetricsAssumption

intakeVars == <<row, intake, crossed>>
seriesVars == <<today, day, series, reading, revisited, unsettled>>
deskVars == <<vars, intakeVars, placeVars, seriesVars, part>>

DeskInit ==
    /\ Init /\ Intake!Init /\ PlacesInit /\ Analytics!Init
    /\ part \in {"proposals", "intake", "places", "series"}
    /\ part # "proposals" => of = [h \in Handlers |-> CHOOSE p \in Proposals : TRUE]

DeskNext ==
    /\ \/ part = "proposals" /\ Next
          /\ UNCHANGED <<intakeVars, placeVars, seriesVars>>
       \/ part = "intake" /\ Intake!Next
          /\ UNCHANGED <<vars, placeVars, seriesVars>>
       \/ part = "places" /\ PlacesNext
          /\ UNCHANGED <<vars, intakeVars, seriesVars>>
       \/ part = "series" /\ Analytics!Next
          /\ UNCHANGED <<vars, intakeVars, placeVars>>
    /\ UNCHANGED part

DeskSpec == DeskInit /\ [][DeskNext]_deskVars

-----------------------------------------------------------------------------
\* The properties of OrderIntake, Addresses and DailyMetrics, of the desk.

NewShipment == Intake!NewShipment
OnePerRef == Intake!OnePerRef
RescheduledStays == Intake!RescheduledStays
RevisitedDaysAreWhole == Analytics!RevisitedDaysAreWhole
=============================================================================
