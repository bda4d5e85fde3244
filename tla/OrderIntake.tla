---------------------------- MODULE OrderIntake ----------------------------
(***************************************************************************)
(* How orders are born, and reborn after a failed delivery: createOrder    *)
(* (services/orders.ts, idempotent by externalRef), the recovery flag      *)
(* (orders/routes.ts) and the rescheduling by the merchant from its portal *)
(* (portal/routes.ts), over the rows of Order of one tenant.               *)
(***************************************************************************)
EXTENDS Naturals, FiniteSets

CONSTANTS
    Orders,    \* the rows there may be
    Refs,      \* external references
    NoRef,
    Requests,  \* the requests being served
    Faults     \* whether operations may throw and the process restart

IntakeAssumption == NoRef \notin Refs /\ Faults \in BOOLEAN

VARIABLES
    row,    \* the Order rows: [ref, status, recovery, from], or Absent
    req,    \* what each request is doing
    crossed \* history: a request went on while another was in flight

vars == <<row, req, crossed>>

Absent == [ref |-> NoRef, status |-> "absent", recovery |-> "NONE", from |-> {}]
Idle == [step |-> "idle"]

Exists(o) == row[o].status # "absent"
WithRef(ref) == {o \in Orders : Exists(o) /\ row[o].ref = ref}

Init ==
    /\ row = [o \in Orders |-> Absent]
    /\ req = [r \in Requests |-> Idle]
    /\ crossed = FALSE

Goto(r, job) ==
    /\ req' = [req EXCEPT ![r] = job]
    /\ crossed' = (crossed \/ \E q \in Requests \ {r} : req[q] # Idle)

-----------------------------------------------------------------------------
\* createOrder: the lookup, then (after geocoding) the insert.

FoundNothing(ref) == {}

\* What the lookup may return: nothing is looked up without a reference.
Found(ref) == IF ref = NoRef THEN {} ELSE WithRef(ref)

\* The row createOrder answers with is passed on to the step `then`, which is
\* where its caller goes on; a plain creation ends there.
CreateRead(r) ==
    /\ req[r] = Idle
    /\ \E ref \in Refs \cup {NoRef} :
         /\ Found(ref) = {}
         /\ Goto(r, [step |-> "insert", ref |-> ref, then |-> "done"])
    /\ UNCHANGED row

InsertRow(o, ref) ==
    row' = [row EXCEPT ![o] = [Absent EXCEPT !.ref = ref, !.status = "GEOCODED"]]

Insert(r) ==
    /\ req[r].step = "insert" /\ req[r].then = "done"
    /\ \E o \in Orders : ~Exists(o) /\ InsertRow(o, req[r].ref)
    /\ Goto(r, Idle)

-----------------------------------------------------------------------------
\* The fate of an order on its route: here, that it fails or is delivered.
Attend(o) ==
    /\ row[o].status = "GEOCODED"
    /\ \E s \in {"FAILED", "DELIVERED"} : row' = [row EXCEPT ![o].status = s]
    /\ UNCHANGED <<req, crossed>>

-----------------------------------------------------------------------------
\* POST /orders/:id/recovery/flag

FlagAgain(r, o) ==
    /\ req[r] = Idle
    /\ row[o].status = "FAILED"
    /\ Goto(r, [step |-> "flag", order |-> o])
    /\ UNCHANGED row

FlagRead(r, o) ==
    /\ req[r] = Idle
    /\ row[o].status = "FAILED" /\ row[o].recovery = "NONE"
    /\ Goto(r, [step |-> "flag", order |-> o])
    /\ UNCHANGED row

Flag(r) ==
    /\ req[r].step = "flag"
    /\ row' = [row EXCEPT ![req[r].order].recovery = "FLAGGED"]
    /\ Goto(r, Idle)

-----------------------------------------------------------------------------
\* POST /portal/orders/:id/reschedule

\* 409 unless it failed and was not rescheduled.
RescheduleRead(r, o) ==
    /\ req[r] = Idle
    /\ row[o].status = "FAILED" /\ row[o].recovery # "RESCHEDULED"
    /\ Goto(r, [step |-> "lookup", order |-> o])
    /\ UNCHANGED row

\* createOrder with the reference of the original: it answers with any order
\* that has the reference, or inserts one.
RescheduleLookup(r) ==
    /\ req[r].step = "lookup"
    /\ LET o == req[r].order
           found == Found(row[o].ref)
       IN IF found = {}
          THEN Goto(r, [step |-> "insert", ref |-> row[o].ref, then |-> "link", order |-> o])
          ELSE \E p \in found : Goto(r, [step |-> "link", order |-> o, new |-> p])
    /\ UNCHANGED row

RescheduleInsert(r) ==
    /\ req[r].step = "insert" /\ req[r].then = "link"
    /\ \E p \in Orders :
         /\ ~Exists(p)
         /\ InsertRow(p, req[r].ref)
         /\ Goto(r, [step |-> "link", order |-> req[r].order, new |-> p])

\* rescheduledFromId of the new order, then recoveryStatus of the original.
Link(r) ==
    /\ req[r].step = "link"
    /\ row' = [row EXCEPT ![req[r].new].from = {req[r].order}]
    /\ Goto(r, [req[r] EXCEPT !.step = "close"])

CloseOriginal(r) ==
    /\ req[r].step = "close"
    /\ row' = [row EXCEPT ![req[r].order].recovery = "RESCHEDULED"]
    /\ Goto(r, Idle)

Abort(r) ==
    /\ Faults
    /\ req[r] # Idle
    /\ Goto(r, Idle)
    /\ UNCHANGED row

Next ==
    \/ \E r \in Requests :
         \/ CreateRead(r) \/ Insert(r)
         \/ \E o \in Orders : FlagRead(r, o) \/ RescheduleRead(r, o)
         \/ Flag(r)
         \/ RescheduleLookup(r) \/ RescheduleInsert(r) \/ Link(r) \/ CloseOriginal(r)
         \/ Abort(r)
    \/ \E o \in Orders : Attend(o)

Spec == Init /\ [][Next]_vars

-----------------------------------------------------------------------------
\* Properties.

\* "A retry or a second import creates no repeated orders": one row for each
\* external reference, while no two requests have crossed.
OnePerRef == crossed \/ \A ref \in Refs : Cardinality(WithRef(ref)) <= 1

\* "Creates a new shipment linked to the failed one": an order is never its own
\* replacement.
NewShipment == \A o \in Orders : o \notin row[o].from

\* "The recovery was already started": while no two requests have crossed, an
\* order is rescheduled once, and is not open to recovery again.
RescheduledStays ==
    [][crossed' \/ \A o \in Orders :
         row[o].recovery = "RESCHEDULED" => row'[o].recovery = "RESCHEDULED"]_vars
=============================================================================
