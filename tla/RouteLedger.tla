---------------------------- MODULE RouteLedger ----------------------------
(***************************************************************************)
(* What route execution promises, without saying how: a ledger of which    *)
(* stops were attended, which deliveries have evidence and were announced  *)
(* to the merchant, and which routes are closed.  Attendance, evidence and *)
(* announcements only accumulate; a route is closed only over attended     *)
(* stops; an announcement follows its evidence.  RouteExecution implements *)
(* this specification.                                                     *)
(***************************************************************************)
CONSTANTS Routes, Stops, RouteOf

VARIABLES
    seen,       \* the stops whose completedAt was ever written
    evidenced,  \* the stops with a proof of delivery made by a completion
    announced,  \* the delivery stops the merchant was told about
    closed      \* the routes now COMPLETED

ledger == <<seen, evidenced, announced, closed>>

StopsOn(r) == {s \in Stops : RouteOf[s] = r}

LInit ==
    /\ seen = {} /\ evidenced = {} /\ announced = {} /\ closed = {}

\* A stop is attended, with or without evidence of the delivery.
Attend(s) ==
    /\ seen' = seen \cup {s}
    /\ evidenced' \in {evidenced, evidenced \cup {s}}
    /\ UNCHANGED <<announced, closed>>

Announce(s) ==
    /\ s \in evidenced
    /\ announced' = announced \cup {s}
    /\ UNCHANGED <<seen, evidenced, closed>>

Close(r) ==
    /\ StopsOn(r) \subseteq seen
    /\ closed' = closed \cup {r}
    /\ UNCHANGED <<seen, evidenced, announced>>

\* A dispatch or a start that was slow takes the route out of COMPLETED.
Reopen(r) ==
    /\ closed' = closed \ {r}
    /\ UNCHANGED <<seen, evidenced, announced>>

LNext ==
    \/ \E s \in Stops : Attend(s) \/ Announce(s)
    \/ \E r \in Routes : Close(r) \/ Reopen(r)

LedgerSpec == LInit /\ [][LNext]_ledger
=============================================================================
