------------------------------ MODULE Planning ------------------------------
(***************************************************************************)
(* The life of a route's stops before and around its execution:            *)
(* services/planning.ts (runPlan, persistPlan), services/insertion.ts      *)
(* (computeInsertion, persistInsertion, resequencePlannedRoute) and what   *)
(* dispatchers and drivers do to the same rows meanwhile.                  *)
(*                                                                         *)
(* Each operation reads, computes for a while (it awaits the distance      *)
(* matrix) and then writes what it computed over whatever the rows have    *)
(* become.  A job holds what its handler read.  The optimiser is a choice: *)
(* which orders fit in which route is left open; an infeasible insertion   *)
(* or sequence is a step that is not taken.                                *)
(***************************************************************************)
EXTENDS FiniteSets, Sequences, SequencesExt

CONSTANTS
    Routes, Orders,
    Pickups,     \* the orders that are also picked up on the route
    Dispatchers, \* the planning requests the API may be serving at a time
    Faults       \* whether operations may throw and the process restart

PlanningAssumption ==
    /\ Pickups \subseteq Orders
    /\ Faults \in BOOLEAN

Kinds == {"PICKUP", "DELIVERY"}

\* A stop is named by @@unique([routeId, orderId, kind]).
Slots == Routes \X Orders \X Kinds
RouteIn(slot) == slot[1]
OrderIn(slot) == slot[2]
SlotsFor(r, o) ==
    {<<r, o, k>> : k \in IF o \in Pickups THEN Kinds ELSE {"DELIVERY"}}

VARIABLES
    routeStatus,  \* Route.status, "absent" before the route is created
    stop,         \* RouteStop.status of each slot, "absent" with no row
    orderStatus,  \* Order.status
    job,          \* what each dispatcher's request is doing
    overlap       \* history: a request began while another was in flight

vars == <<routeStatus, stop, orderStatus, job, overlap>>

Idle == [step |-> "idle"]
Busy(d) == job[d].step # "idle"

Begin(d, j) ==
    /\ ~Busy(d)
    /\ job' = [job EXCEPT ![d] = j]
    /\ overlap' = (overlap \/ \E e \in Dispatchers : Busy(e))
    /\ UNCHANGED <<routeStatus, stop, orderStatus>>

Finish(d) ==
    /\ job' = [job EXCEPT ![d] = Idle]
    /\ UNCHANGED overlap

StopsOf(r) == {x \in Slots : RouteIn(x) = r /\ stop[x] # "absent"}
PendingOf(r) == {x \in StopsOf(r) : stop[x] = "PENDING"}
HasStop(o) == \E x \in Slots : OrderIn(x) = o /\ stop[x] # "absent"

\* An order can be planned or inserted: geocoded and in no route yet.
Plannable(o) == orderStatus[o] = "GEOCODED" /\ ~HasStop(o)

Init ==
    /\ routeStatus = [r \in Routes |-> "absent"]
    /\ stop = [x \in Slots |-> "absent"]
    /\ orderStatus = [o \in Orders |-> "GEOCODED"]
    /\ job = [d \in Dispatchers |-> Idle]
    /\ overlap = FALSE

-----------------------------------------------------------------------------
\* POST /optimization/plans and the apply of optimize_routes.

\* The plans the solver may return for a set of orders: non-empty routes over
\* disjoint sets of them, the rest unassigned.
Plans(O) ==
    {p \in SeqOf((SUBSET O) \ {{}}, Cardinality(O)) :
        \A i, j \in DOMAIN p : i # j => p[i] \cap p[j] = {}}

PlanReadGeocoded(d) ==
    \E plan \in Plans({o \in Orders : orderStatus[o] = "GEOCODED"}) \ {<<>>} :
        Begin(d, [step |-> "createRoute", plan |-> plan])

PlanRead(d) ==
    \E plan \in Plans({o \in Orders : Plannable(o)}) \ {<<>>} :
        Begin(d, [step |-> "createRoute", plan |-> plan])

\* persistPlan: a new route with its stops, in one statement...
CreateRoute(d) ==
    /\ job[d].step = "createRoute"
    /\ \E r \in Routes :
         /\ routeStatus[r] = "absent"
         /\ routeStatus' = [routeStatus EXCEPT ![r] = "PLANNED"]
         /\ LET new == UNION {SlotsFor(r, o) : o \in Head(job[d].plan)}
            IN stop' = [x \in Slots |-> IF x \in new THEN "PENDING" ELSE stop[x]]
    /\ job' = [job EXCEPT ![d].step = "assign"]
    /\ UNCHANGED <<orderStatus, overlap>>

\* ...then its orders, whatever their status is by now, and the next route.
AssignOrders(d) ==
    /\ job[d].step = "assign"
    /\ orderStatus' = [o \in Orders |-> IF o \in Head(job[d].plan) THEN "ASSIGNED"
                                        ELSE orderStatus[o]]
    /\ job' = [job EXCEPT ![d] = IF Len(@.plan) = 1 THEN Idle
                                 ELSE [step |-> "createRoute", plan |-> Tail(@.plan)]]
    /\ UNCHANGED <<routeStatus, stop, overlap>>

-----------------------------------------------------------------------------
\* POST /optimization/routes/:routeId/insert and the apply of reoptimize_route.

Insertable == {"PLANNED", "DISPATCHED", "IN_PROGRESS"}

\* The queue the insertion will write: the orders with a pending stop (with
\* their pickup when that is pending) and the new order.
QueueWith(r, o) ==
    LET pending == PendingOf(r)
    IN pending \cup {<<r, OrderIn(x), "DELIVERY">> : x \in pending} \cup SlotsFor(r, o)

InsertRead(d, r, o) ==
    /\ routeStatus[r] \in Insertable
    /\ Plannable(o)
    /\ Begin(d, [step |-> "insert", route |-> r, order |-> o,
                 status |-> routeStatus[r], queue |-> QueueWith(r, o)])

\* persistInsertion deletes the pending stops of the route and creates the
\* queue, in a transaction; the order's status follows the status that was read.
ReplaceQueue(j) ==
    /\ stop' = [x \in Slots |-> IF x \in j.queue THEN "PENDING"
                                ELSE IF x \in PendingOf(j.route) THEN "absent"
                                ELSE stop[x]]
    /\ orderStatus' = [orderStatus EXCEPT
         ![j.order] = IF j.status = "PLANNED" THEN "ASSIGNED" ELSE "IN_TRANSIT"]

InsertCommitOver(d) ==
    /\ job[d].step = "insert"
    /\ ReplaceQueue(job[d])
    /\ Finish(d)
    /\ UNCHANGED routeStatus

InsertCommitAlone(d) ==
    /\ job[d].step = "insert"
    /\ LET j == [job[d] EXCEPT !.queue = SlotsFor(job[d].route, job[d].order)]
       IN (j.queue \cap StopsOf(j.route)) \subseteq PendingOf(j.route) /\ ReplaceQueue(j)
    /\ Finish(d)
    /\ UNCHANGED routeStatus

\* What is to be created and already exists must be among what is deleted...
InsertCommit(d) ==
    /\ job[d].step = "insert"
    /\ (job[d].queue \cap StopsOf(job[d].route)) \subseteq PendingOf(job[d].route)
    /\ ReplaceQueue(job[d])
    /\ Finish(d)
    /\ UNCHANGED routeStatus

\* ...or the unique index rejects the transaction (a 500).
InsertConflict(d) ==
    /\ job[d].step = "insert"
    /\ ~((job[d].queue \cap StopsOf(job[d].route)) \subseteq PendingOf(job[d].route))
    /\ Finish(d)
    /\ UNCHANGED <<routeStatus, stop, orderStatus>>

-----------------------------------------------------------------------------
\* PATCH /optimization/routes/:routeId/sequence, for a route read as PLANNED:
\* every stop is deleted and created again in the new order, so what is
\* written is what was read with all the stops pending.

SequenceRead(d, r) ==
    /\ routeStatus[r] = "PLANNED"
    /\ StopsOf(r) # {}
    /\ Begin(d, [step |-> "sequence", route |-> r,
                 queue |-> StopsOf(r) \cup {<<r, OrderIn(x), "DELIVERY">> : x \in StopsOf(r)}])

SequenceCommit(d) ==
    /\ job[d].step = "sequence"
    /\ stop' = [x \in Slots |-> IF x \in job[d].queue THEN "PENDING"
                                ELSE IF RouteIn(x) = job[d].route THEN "absent"
                                ELSE stop[x]]
    /\ Finish(d)
    /\ UNCHANGED <<routeStatus, orderStatus>>

-----------------------------------------------------------------------------
\* What goes on with a planned route, step by step in RouteExecution and here
\* one step for each request.  The API takes an arrival or a failure of any
\* stop, and a completion of any that is not completed, in any route.

Dispatch(r) ==
    /\ routeStatus[r] = "PLANNED"
    /\ routeStatus' = [routeStatus EXCEPT ![r] = "DISPATCHED"]
    /\ UNCHANGED <<stop, orderStatus, job, overlap>>

Start(r) ==
    /\ routeStatus[r] = "DISPATCHED"
    /\ routeStatus' = [routeStatus EXCEPT ![r] = "IN_PROGRESS"]
    /\ orderStatus' = [o \in Orders |-> IF \E x \in StopsOf(r) : OrderIn(x) = o
                                        THEN "IN_TRANSIT" ELSE orderStatus[o]]
    /\ UNCHANGED <<stop, job, overlap>>

Arrive(x) ==
    /\ stop[x] # "absent"
    /\ stop' = [stop EXCEPT ![x] = "ARRIVED"]
    /\ UNCHANGED <<routeStatus, orderStatus, job, overlap>>

Complete(x) ==
    /\ stop[x] \notin {"absent", "COMPLETED"}
    /\ stop' = [stop EXCEPT ![x] = "COMPLETED"]
    /\ orderStatus' = IF x[3] = "PICKUP" THEN orderStatus
                      ELSE [orderStatus EXCEPT ![OrderIn(x)] = "DELIVERED"]
    /\ UNCHANGED <<routeStatus, job, overlap>>

\* A rejection by the customer counts as a failure here.
Fail(x) ==
    /\ stop[x] # "absent"
    /\ stop' = [stop EXCEPT ![x] = "FAILED"]
    /\ orderStatus' = [orderStatus EXCEPT ![OrderIn(x)] = "FAILED"]
    /\ UNCHANGED <<routeStatus, job, overlap>>

\* maybeCompleteRoute, after one of the last two.
Close(r) ==
    /\ StopsOf(r) # {}
    /\ \A x \in StopsOf(r) : stop[x] \in {"COMPLETED", "FAILED"}
    /\ routeStatus' = [routeStatus EXCEPT ![r] = "COMPLETED"]
    /\ UNCHANGED <<stop, orderStatus, job, overlap>>

\* An operation throws or the process restarts: the request ends where it is.
Abort(d) ==
    /\ Faults
    /\ Busy(d)
    /\ Finish(d)
    /\ UNCHANGED <<routeStatus, stop, orderStatus>>

Next ==
    \/ \E d \in Dispatchers :
         \/ PlanRead(d) \/ CreateRoute(d) \/ AssignOrders(d)
         \/ \E r \in Routes, o \in Orders : InsertRead(d, r, o)
         \/ InsertCommit(d) \/ InsertConflict(d)
         \/ \E r \in Routes : SequenceRead(d, r)
         \/ SequenceCommit(d)
         \/ Abort(d)
    \/ \E r \in Routes : Dispatch(r) \/ Start(r) \/ Close(r)
    \/ \E x \in Slots : Arrive(x) \/ Complete(x) \/ Fail(x)

Spec == Init /\ [][Next]_vars

-----------------------------------------------------------------------------
\* Properties.

StopStatus == {"PENDING", "ARRIVED", "COMPLETED", "FAILED"}

\* An order travels in at most one route, while no two requests of dispatchers
\* have overlapped: whatever drivers do between the reads and the writes of a
\* plan or an insertion, and wherever one is cut.
OneRoutePerOrder ==
    overlap \/ \A x, y \in Slots :
        stop[x] # "absent" /\ stop[y] # "absent" /\ OrderIn(x) = OrderIn(y)
            => RouteIn(x) = RouteIn(y)

\* An order that left GEOCODED has the stop that will deliver it, while no two
\* requests of dispatchers have overlapped: the replacement of a queue read
\* before does not leave an assigned order behind.
AssignedHasDelivery ==
    overlap \/ \A o \in Orders : orderStatus[o] # "GEOCODED" =>
        \E r \in Routes : stop[<<r, o, "DELIVERY">>] # "absent"

\* "The stops already attended are not touched" by an insertion, although it
\* writes a queue computed before, and other insertions and resequencings of the
\* same route are in flight: the unique index refuses a queue that names a stop
\* attended meanwhile.
Attended(x) == stop[x] \in {"ARRIVED", "COMPLETED", "FAILED"}
InsertionKeepsAttended ==
    [][\A d \in Dispatchers : InsertCommit(d) =>
        \A x \in Slots : Attended(x) => stop'[x] = stop[x]]_vars

\* Nothing a dispatcher does resets a stop a driver attended.
AttendedStaysAttended ==
    [][\A x \in Slots : Attended(x) => stop'[x] \in StopStatus \ {"PENDING"}]_vars
=============================================================================
