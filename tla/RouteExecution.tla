--------------------------- MODULE RouteExecution ---------------------------
(***************************************************************************)
(* The execution of routes, apps/api/src/modules/routes/routes.ts: the     *)
(* handlers of dispatch, start, arrive, complete and fail, run by the API  *)
(* over the rows of Route, RouteStop, ProofOfDelivery and Order.           *)
(*                                                                         *)
(* A handler is a sequence of database operations separated by awaits, so  *)
(* handlers interleave between them.  Each action below is one of those    *)
(* operations (one transaction counts as one); pc[h] names the operation   *)
(* the handler h performs next, target[h] the row it read at its start.    *)
(* An early return that changes nothing (404, 409, 422) is the absence of  *)
(* a step.  Stops are fixed here; what creates them is module Planning.    *)
(***************************************************************************)
EXTENDS Naturals

CONSTANTS
    Routes, Orders, Stops, Drivers,
    RouteOf,    \* RouteStop.routeId
    OrderOf,    \* RouteStop.orderId
    KindOf,     \* RouteStop.kind
    Handlers,   \* the requests the API may be serving at a time
    Faults,     \* whether operations may throw and the process restart
    Staff,      \* a user that is not a driver (role ADMIN or DISPATCHER)
    None

ASSUME RowsAssumption ==
    /\ RouteOf \in [Stops -> Routes]
    /\ OrderOf \in [Stops -> Orders]
    /\ KindOf \in [Stops -> {"PICKUP", "DELIVERY"}]
    /\ Faults \in BOOLEAN

\* RouteStop has @@unique([routeId, orderId, kind]).
ASSUME UniqueAssumption ==
    \A s, t \in Stops :
        /\ RouteOf[s] = RouteOf[t]
        /\ OrderOf[s] = OrderOf[t]
        /\ KindOf[s] = KindOf[t]
        => s = t

VARIABLES
    routeStatus, driverOf,    \* Route.status, Route.driverId
    stopStatus, attended,     \* RouteStop.status, the stops with completedAt
    pod,                      \* what made the stop's ProofOfDelivery row
    orderStatus, pickedUp,    \* Order.status, the orders with pickedUpAt
    notices,                  \* "envio_entregado" messages sent for a stop
    pc, target

rows == <<routeStatus, driverOf, stopStatus, attended, pod, orderStatus, pickedUp>>
vars == <<rows, notices, pc, target>>

RouteStatus == {"PLANNED", "DISPATCHED", "IN_PROGRESS", "COMPLETED"}
StopStatus  == {"PENDING", "ARRIVED", "COMPLETED", "FAILED"}
OrderStatus == {"ASSIGNED", "IN_TRANSIT", "DELIVERED", "FAILED", "REJECTED"}
PodOrigin   == {"none", "completion", "failure"}
Users       == Drivers \cup {Staff}

RouteSteps == {"dispatch", "start", "startOrders"}
AfterCommit == {"tell", "count", "close"}
StopSteps  == {"arrive", "complete", "fail", "cut"} \cup AfterCommit

\* The invariant of types: rows hold values of their enums, and a handler
\* past its first read has the row its step works on.
TypeOK ==
    /\ routeStatus \in [Routes -> RouteStatus]
    /\ driverOf \in [Routes -> Drivers \cup {None}]
    /\ stopStatus \in [Stops -> StopStatus]
    /\ attended \subseteq Stops
    /\ pod \in [Stops -> PodOrigin]
    /\ orderStatus \in [Orders -> OrderStatus]
    /\ pickedUp \subseteq Orders
    /\ notices \in [Stops -> Nat]
    /\ pc \in [Handlers -> {"idle"} \cup RouteSteps \cup StopSteps]
    /\ target \in [Handlers -> Routes \cup Stops \cup {None}]
    /\ \A h \in Handlers :
         /\ pc[h] \in RouteSteps => target[h] \in Routes
         /\ pc[h] \in StopSteps => target[h] \in Stops

\* The rows as a plan leaves them: routes with their stops, orders assigned.
Init ==
    /\ routeStatus = [r \in Routes |-> "PLANNED"]
    /\ driverOf = [r \in Routes |-> None]
    /\ stopStatus = [s \in Stops |-> "PENDING"]
    /\ attended = {}
    /\ pod = [s \in Stops |-> "none"]
    /\ orderStatus = [o \in Orders |-> "ASSIGNED"]
    /\ pickedUp = {}
    /\ notices = [s \in Stops |-> 0]
    /\ pc = [h \in Handlers |-> "idle"]
    /\ target = [h \in Handlers |-> None]

-----------------------------------------------------------------------------
\* Control of a handler.

Begin(h, step, x) ==
    /\ pc[h] \in {"idle", "cut"}
    /\ pc' = [pc EXCEPT ![h] = step]
    /\ target' = [target EXCEPT ![h] = x]
    /\ UNCHANGED <<rows, notices>>

Goto(h, step) ==
    /\ pc' = [pc EXCEPT ![h] = step]
    /\ UNCHANGED target

Finish(h) ==
    /\ pc' = [pc EXCEPT ![h] = "idle"]
    /\ target' = [target EXCEPT ![h] = None]

\* A driver only works on the routes that are his; staff on every route.
MayServe(u, r) == u = Staff \/ driverOf[r] = u

-----------------------------------------------------------------------------
\* POST /routes/:id/dispatch

DispatchRead(h, r) ==
    /\ routeStatus[r] = "PLANNED"
    /\ Begin(h, "dispatch", r)

\* The update names the route by id alone: what was read is not re-checked.
DispatchWrite(h, d) ==
    /\ pc[h] = "dispatch"
    /\ routeStatus' = [routeStatus EXCEPT ![target[h]] = "DISPATCHED"]
    /\ driverOf' = [driverOf EXCEPT ![target[h]] = d]
    /\ Finish(h)
    /\ UNCHANGED <<stopStatus, attended, pod, orderStatus, pickedUp, notices>>

-----------------------------------------------------------------------------
\* POST /routes/:id/start: the route, then all its orders, in two writes.

StartRead(h, r, u) ==
    /\ routeStatus[r] = "DISPATCHED"
    /\ MayServe(u, r)
    /\ Begin(h, "start", r)

StartRoute(h) ==
    /\ pc[h] = "start"
    /\ routeStatus' = [routeStatus EXCEPT ![target[h]] = "IN_PROGRESS"]
    /\ Goto(h, "startOrders")
    /\ UNCHANGED <<driverOf, stopStatus, attended, pod, orderStatus, pickedUp, notices>>

OrdersOn(r) == {OrderOf[s] : s \in {t \in Stops : RouteOf[t] = r}}

StartOrders(h) ==
    /\ pc[h] = "startOrders"
    /\ orderStatus' = [o \in Orders |-> IF o \in OrdersOn(target[h]) THEN "IN_TRANSIT"
                                        ELSE orderStatus[o]]
    /\ Finish(h)
    /\ UNCHANGED <<routeStatus, driverOf, stopStatus, attended, pod, pickedUp, notices>>

-----------------------------------------------------------------------------
\* POST /routes/stops/:stopId/arrive: whatever the stop's status is.

ArriveRead(h, s, u) ==
    /\ MayServe(u, RouteOf[s])
    /\ Begin(h, "arrive", s)

ArriveWrite(h) ==
    /\ pc[h] = "arrive"
    /\ stopStatus' = [stopStatus EXCEPT ![target[h]] = "ARRIVED"]
    /\ Finish(h)
    /\ UNCHANGED <<routeStatus, driverOf, attended, pod, orderStatus, pickedUp, notices>>

-----------------------------------------------------------------------------
\* POST /routes/stops/:stopId/complete

\* 409 when the stop read is already completed.  The POD policy (422) is read
\* after it, changes nothing and is a step that is not taken.
CompleteRead(h, s, u) ==
    /\ MayServe(u, RouteOf[s])
    /\ stopStatus[s] # "COMPLETED"
    /\ Begin(h, "complete", s)

\* The transaction: stop, proof of delivery and order together.  A pickup only
\* stamps pickedUpAt; a delivery sets DELIVERED and is then announced.
CompleteRows(h, s) ==
    /\ stopStatus' = [stopStatus EXCEPT ![s] = "COMPLETED"]
    /\ attended' = attended \cup {s}
    /\ pod' = [pod EXCEPT ![s] = "completion"]
    /\ IF KindOf[s] = "PICKUP"
       THEN /\ pickedUp' = pickedUp \cup {OrderOf[s]}
            /\ UNCHANGED orderStatus
            /\ Goto(h, "count")
       ELSE /\ orderStatus' = [orderStatus EXCEPT ![OrderOf[s]] = "DELIVERED"]
            /\ UNCHANGED pickedUp
            /\ Goto(h, "tell")
    /\ UNCHANGED <<routeStatus, driverOf, notices>>

CompleteCommitTwice(h) ==
    /\ pc[h] = "complete"
    /\ CompleteRows(h, target[h])

CompleteCommitAnyKind(h) ==
    /\ pc[h] = "complete"
    /\ pod[target[h]] = "none"
    /\ stopStatus' = [stopStatus EXCEPT ![target[h]] = "COMPLETED"]
    /\ attended' = attended \cup {target[h]}
    /\ pod' = [pod EXCEPT ![target[h]] = "completion"]
    /\ orderStatus' = [orderStatus EXCEPT ![OrderOf[target[h]]] = "DELIVERED"]
    /\ Goto(h, "tell")
    /\ UNCHANGED <<routeStatus, driverOf, pickedUp, notices>>

\* ProofOfDelivery.stopId is unique: with a row there the transaction commits...
CompleteCommit(h) ==
    /\ pc[h] = "complete"
    /\ pod[target[h]] = "none"
    /\ CompleteRows(h, target[h])

\* ...or is rolled back, and the request ends in a 500.
CompleteConflict(h) ==
    /\ pc[h] = "complete"
    /\ pod[target[h]] # "none"
    /\ Finish(h)
    /\ UNCHANGED <<rows, notices>>

\* The log, the learnt pin, notifyClient and the webhook, in that order; the
\* message to the merchant is the one that matters to the properties.  Nothing
\* is sent for an order without a merchant, or with the event switched off.
Tell(h) ==
    /\ pc[h] = "tell"
    /\ \E sent \in {0, 1} : notices' = [notices EXCEPT ![target[h]] = @ + sent]
    /\ Goto(h, "count")
    /\ UNCHANGED rows

-----------------------------------------------------------------------------
\* POST /routes/stops/:stopId/fail: whatever the stop's status is.

FailRead(h, s, u) ==
    /\ MayServe(u, RouteOf[s])
    /\ Begin(h, "fail", s)

\* What the driver reports: a rejection of the product always carries a photo,
\* other failures may.
FailInput == [outcome : {"FAILED"}, photo : BOOLEAN]
             \cup [outcome : {"REJECTED"}, photo : {TRUE}]

\* The transaction.  The photo upserts the POD row, so it does not replace who
\* created it.
FailRows(s, input) ==
    /\ stopStatus' = [stopStatus EXCEPT ![s] = "FAILED"]
    /\ orderStatus' = [orderStatus EXCEPT ![OrderOf[s]] = input.outcome]
    /\ pod' = IF input.photo /\ pod[s] = "none"
              THEN [pod EXCEPT ![s] = "failure"] ELSE pod
    /\ UNCHANGED <<routeStatus, driverOf, pickedUp, notices>>

FailCommitNoStamp(h) ==
    /\ pc[h] = "fail"
    /\ \E input \in FailInput : FailRows(target[h], input)
    /\ Goto(h, "count")
    /\ UNCHANGED attended

FailCommitNoCount(h) ==
    /\ pc[h] = "fail"
    /\ \E input \in FailInput : FailRows(target[h], input)
    /\ Finish(h)
    /\ attended' = attended \cup {target[h]}

FailCommit(h) ==
    /\ pc[h] = "fail"
    /\ \E input \in FailInput : FailRows(target[h], input)
    /\ Goto(h, "count")
    /\ attended' = attended \cup {target[h]}

-----------------------------------------------------------------------------
\* maybeCompleteRoute, the last thing complete and fail do: a count, then an
\* update that no longer looks at the stops, nor at the route's status.

OpenStop == {"PENDING", "ARRIVED"}
HasOpenStop(r) == \E s \in Stops : RouteOf[s] = r /\ stopStatus[s] \in OpenStop
HasPendingStop(r) == \E s \in Stops : RouteOf[s] = r /\ stopStatus[s] = "PENDING"

CountOnlyPending(h) ==
    /\ pc[h] = "count"
    /\ IF HasPendingStop(RouteOf[target[h]]) THEN Finish(h) ELSE Goto(h, "close")
    /\ UNCHANGED <<rows, notices>>

CountOpen(h) ==
    /\ pc[h] = "count"
    /\ IF HasOpenStop(RouteOf[target[h]]) THEN Finish(h) ELSE Goto(h, "close")
    /\ UNCHANGED <<rows, notices>>

CloseRoute(h) ==
    /\ pc[h] = "close"
    /\ routeStatus' = [routeStatus EXCEPT ![RouteOf[target[h]]] = "COMPLETED"]
    /\ Finish(h)
    /\ UNCHANGED <<driverOf, stopStatus, attended, pod, orderStatus, pickedUp, notices>>

-----------------------------------------------------------------------------
\* An operation throws, or the process restarts under the request: what was
\* committed stays and the rest of the handler does not happen.  (A restart is
\* this for every request in flight.)  A request cut after its transaction is
\* remembered as such until another takes its place.
Abort(h) ==
    /\ Faults
    /\ pc[h] \notin {"idle", "cut"}
    /\ IF pc[h] \in AfterCommit THEN Goto(h, "cut") ELSE Finish(h)
    /\ UNCHANGED <<rows, notices>>

\* A request arrives and does its first read.
Arrival(h) ==
    \/ \E r \in Routes : DispatchRead(h, r)
    \/ \E r \in Routes, u \in Users : StartRead(h, r, u)
    \/ \E s \in Stops, u \in Users :
         ArriveRead(h, s, u) \/ CompleteRead(h, s, u) \/ FailRead(h, s, u)

\* A request the API is serving does its next operation.
Continue(h) ==
    \/ \E d \in Drivers : DispatchWrite(h, d)
    \/ StartRoute(h) \/ StartOrders(h)
    \/ ArriveWrite(h)
    \/ CompleteCommit(h) \/ CompleteConflict(h) \/ Tell(h)
    \/ FailCommit(h)
    \/ CountOpen(h) \/ CloseRoute(h)

Next == \E h \in Handlers : Arrival(h) \/ Continue(h) \/ Abort(h)

Spec == Init /\ [][Next]_vars

\* The event loop resumes every request it is serving: database calls answer,
\* and calls to the outside end (webhooks after 5 s, the merchant's channel by
\* the limits of fetch) and are caught.
FairSpec == Spec /\ \A h \in Handlers : WF_vars(Continue(h))

-----------------------------------------------------------------------------
\* Properties.

\* A delivered order has the evidence of it: some delivery stop of the order
\* has a ProofOfDelivery row that a completion created.  No later handler,
\* whatever it does to statuses, takes that row away.
DeliveredHasPod ==
    \A o \in Orders : orderStatus[o] = "DELIVERED" =>
        \E s \in Stops : /\ OrderOf[s] = o
                         /\ KindOf[s] = "DELIVERY"
                         /\ pod[s] = "completion"

\* The merchant is told of a delivery at most once, however many times the
\* driver's app repeats it and however the repeated requests interleave; and
\* never before the delivery is committed.
ToldOnceAfterCommit ==
    \A s \in Stops : /\ notices[s] <= 1
                     /\ notices[s] = 1 => pod[s] = "completion"

\* A route is COMPLETED only when every stop of it has been completed or failed
\* (completedAt is set), although the count and the update are two operations
\* and arrivals may be written in between.
ClosedRouteAttended ==
    \A s \in Stops : routeStatus[RouteOf[s]] = "COMPLETED" => s \in attended

\* What makes the three invariants above inductive: a finished stop has its
\* completedAt; a handler about to close a route has seen all of it attended;
\* a handler about to tell the merchant has committed, and is the only one to
\* tell of that stop.
FinishedStopsAttended ==
    \A s \in Stops : stopStatus[s] \notin OpenStop => s \in attended

ClosersSawAll ==
    \A h \in Handlers : pc[h] = "close" =>
        \A s \in Stops : RouteOf[s] = RouteOf[target[h]] => s \in attended

TellersCommitted ==
    \A h \in Handlers : pc[h] = "tell" =>
        pod[target[h]] = "completion" /\ notices[target[h]] = 0

OneTellerPerStop ==
    \A g, h \in Handlers :
        pc[g] = "tell" /\ pc[h] = "tell" /\ target[g] = target[h] => g = h

IInv ==
    /\ TypeOK
    /\ DeliveredHasPod
    /\ FinishedStopsAttended
    /\ ClosersSawAll
    /\ ClosedRouteAttended
    /\ TellersCommitted
    /\ OneTellerPerStop
    /\ ToldOnceAfterCommit

\* Route execution implements the ledger.
Ledger == INSTANCE RouteLedger WITH
    seen      <- attended,
    evidenced <- {s \in Stops : pod[s] = "completion"},
    announced <- {s \in Stops : notices[s] > 0},
    closed    <- {r \in Routes : routeStatus[r] = "COMPLETED"}

ImplementsLedger == Ledger!LedgerSpec

\* "If all the stops are finished, closes the route" (maybeCompleteRoute): when
\* all the stops of a route are finished for good, the route does become
\* COMPLETED, or a request that had finished one of them was cut before it ran
\* maybeCompleteRoute: nothing else loses the closing, the race of the requests
\* that finish the last two stops included.
Finished(r) == \A s \in Stops : RouteOf[s] = r => stopStatus[s] \notin OpenStop
CutOn(r) == \E h \in Handlers : pc[h] = "cut" /\ RouteOf[target[h]] = r
FinishedRouteCloses ==
    \A r \in {RouteOf[s] : s \in Stops} :
        <>[]Finished(r) => <>(routeStatus[r] = "COMPLETED" \/ CutOn(r))
=============================================================================
