----------------------------- MODULE Addresses -----------------------------
(***************************************************************************)
(* Where an order is, and what is learnt from it: the geocoding of new     *)
(* orders (services/geocoding.ts, services/orders.ts), the triage of the   *)
(* doubtful ones by the dispatcher (addresses/routes.ts with the page      *)
(* Direcciones.tsx), the driver's correction in the field, the AI's        *)
(* proposal (services/aiResolveAddresses.ts) and the graph of confirmed    *)
(* pins that all of them teach and that answers first the next time.       *)
(*                                                                         *)
(* Coordinates are members of Points, or Mock: what the provider of last   *)
(* resort makes up from the letters of the address.  Confidence is kept as *)
(* `sure`, whether it reaches LOW_CONFIDENCE_THRESHOLD.                    *)
(***************************************************************************)
EXTENDS Naturals, Sequences, SequencesExt

CONSTANTS
    PlacedOrders, Addresses,
    AddressOf,   \* the normalized address of each order
    Points,      \* places in the city
    Mock,        \* MockGeocoder's point
    NoPin,
    Requests     \* the requests being served

AddressesAssumption ==
    /\ IsFiniteSet(PlacedOrders) /\ AddressOf \in [PlacedOrders -> Addresses]
    /\ Mock \notin Points /\ NoPin \notin Points \cup {Mock}

VARIABLES
    order,     \* the rows: the pin, where it is from and whether it was verified
    graph,     \* AddressPin
    req,       \* what each request is doing
    proposal,  \* the changes of the AI's proposal
    page,      \* the list of Direcciones.tsx: the pin of each order, as loaded
    byHand,    \* history: the addresses somebody pinned at Mock, one by one
    corrected  \* history: the orders corrected since the proposal was made

placeVars == <<order, graph, req, proposal, page, byHand, corrected>>

Absent == [status |-> "absent"]
Idle == [step |-> "idle", todo |-> <<>>]

Exists(o) == order[o] # Absent
Open(o) == order[o].status = "open"

\* A row as it is written: `from` is geocodeSource, where "FOUND" stands for the
\* graph, a provider or the integrator and "HAND" for MANUAL_PIN and DRIVER_PIN.
Row(at, from, sure, verified) ==
    [status |-> "open", at |-> at, from |-> from, sure |-> sure, verified |-> verified]

PlacesInit ==
    /\ order = [o \in PlacedOrders |-> Absent]
    /\ graph = [a \in Addresses |-> NoPin]
    /\ req = [r \in Requests |-> Idle]
    /\ proposal = {} /\ page = <<>>
    /\ byHand = {} /\ corrected = {}

Proceed(r, step, todo) == req' = [req EXCEPT ![r] = [step |-> step, todo |-> todo]]

-----------------------------------------------------------------------------
\* geocodeAddress: the graph, or else the first provider of the chain that
\* answers, with more or less confidence; the last one always does.
Geocoded(a) ==
    IF graph[a] # NoPin
    THEN {Row(graph[a], "FOUND", TRUE, TRUE)}
    ELSE [status : {"open"}, at : Points, from : {"FOUND"}, sure : BOOLEAN, verified : {FALSE}]
         \cup {Row(Mock, "MOCK", FALSE, FALSE)}

\* createOrder takes the coordinates of the integrator as verified.
FromClient == {Row(p, "FOUND", TRUE, TRUE) : p \in Points}

CreateRead(r) ==
    /\ req[r] = Idle
    /\ \E o \in PlacedOrders, new \in FromClient \cup UNION {Geocoded(a) : a \in Addresses} :
         /\ ~Exists(o) /\ new \in FromClient \cup Geocoded(AddressOf[o])
         /\ \A q \in Requests : req[q].step = "insert" => Head(req[q].todo).order # o
         /\ Proceed(r, "insert", <<[order |-> o, row |-> new]>>)
    /\ UNCHANGED <<order, graph, proposal, page, byHand, corrected>>

Insert(r) ==
    /\ req[r].step = "insert"
    /\ LET c == Head(req[r].todo) IN order' = [order EXCEPT ![c.order] = c.row]
    /\ Proceed(r, "idle", <<>>)
    /\ UNCHANGED <<graph, proposal, page, byHand, corrected>>

-----------------------------------------------------------------------------
\* The triage: open orders of low confidence that nobody has verified.
DoubtfulOrNot == {o \in PlacedOrders : Exists(o) /\ Open(o)}

Doubtful == {o \in PlacedOrders : Exists(o) /\ Open(o) /\ ~order[o].verified
                            /\ (~order[o].sure \/ order[o].from = "MOCK")}

\* load, in Direcciones.tsx
Load ==
    /\ page' = [o \in Doubtful |-> order[o].at]
    /\ UNCHANGED <<order, graph, req, proposal, byHand, corrected>>

\* PATCH /addresses/orders/:id/location, from the page: the pin the list had, or
\* where it was dragged.
Patch(r, o) ==
    /\ req[r] = Idle
    /\ o \in DOMAIN page /\ Open(o)
    /\ \E p \in Points \cup {page[o]} :
         Proceed(r, "write", <<[order |-> o, at |-> p, by |-> "HAND"]>>)
    /\ UNCHANGED <<order, graph, proposal, page, byHand, corrected>>

\* POST /addresses/orders/:id/driver-fix: where the driver is, at once or when the
\* queue of the app is flushed, and whatever the status of the order.
DriverFix(r, o) ==
    /\ req[r] = Idle /\ Exists(o)
    /\ \E p \in Points : Proceed(r, "write", <<[order |-> o, at |-> p, by |-> "HAND"]>>)
    /\ UNCHANGED <<order, graph, proposal, page, byHand, corrected>>

\* POST /addresses/triage/confirm reads the rows together and leaves out the
\* closed ones and those of the mock.
ConfirmsMocks(S) == {o \in S : Exists(o) /\ Open(o)}

Confirms(S) == {o \in S : Exists(o) /\ Open(o) /\ order[o].from # "MOCK"}

ConfirmRead(r) ==
    /\ req[r] = Idle
    /\ \E S \in SUBSET DOMAIN page :
         /\ Confirms(S) # {}
         /\ LET change(o) == [order |-> o, at |-> order[o].at, by |-> "BATCH"]
            IN Proceed(r, "write", SetToSeq({change(o) : o \in Confirms(S)}))
    /\ UNCHANGED <<order, graph, proposal, page, byHand, corrected>>

\* resolve_addresses, run: the doubtful orders are geocoded again.
Propose ==
    /\ \E found \in [Doubtful -> UNION {Geocoded(a) : a \in Addresses}] :
         /\ \A o \in Doubtful : found[o] \in Geocoded(AddressOf[o])
         /\ proposal' = {[order |-> o, at |-> found[o].at, by |-> "AI"] :
                          o \in {x \in Doubtful : found[x].sure}}
    /\ proposal' # {}
    /\ corrected' = {}
    /\ \A r \in Requests : \A c \in ToSet(req[r].todo) : req[r].step # "insert" => c.by # "AI"
    /\ UNCHANGED <<order, graph, req, page, byHand>>

\* resolve_addresses, apply: what was sure, order by order.
Apply(r) ==
    /\ req[r] = Idle /\ proposal # {}
    /\ Proceed(r, "read", SetToSeq(proposal))
    /\ proposal' = {}
    /\ UNCHANGED <<order, graph, page, byHand, corrected>>

\* applyResolvedAddresses reads each order before it writes it, only to leave
\* out the closed ones.
LoadToApply(r) ==
    /\ req[r].step = "read"
    /\ LET todo == req[r].todo
           rest == Tail(todo)
       IN IF Open(Head(todo).order) THEN Proceed(r, "write", todo)
          ELSE Proceed(r, IF rest = <<>> THEN "idle" ELSE "read", rest)
    /\ UNCHANGED <<order, graph, proposal, page, byHand, corrected>>

\* The update of the order, by id: the batch leaves its pin where it is.
Written(c) ==
    IF c.by = "BATCH" THEN [order[c.order] EXCEPT !.sure = TRUE, !.verified = TRUE]
    ELSE [order[c.order] EXCEPT !.at = c.at, !.sure = TRUE, !.verified = TRUE,
                                !.from = IF c.by = "HAND" THEN "HAND" ELSE "FOUND"]

Write(r) ==
    /\ req[r].step = "write"
    /\ LET c == Head(req[r].todo)
       IN /\ order' = [order EXCEPT ![c.order] = Written(c)]
          /\ corrected' = IF c.by = "HAND" THEN corrected \cup {c.order} ELSE corrected
          /\ byHand' = IF c.by = "HAND" /\ c.at = Mock
                       THEN byHand \cup {AddressOf[c.order]} ELSE byHand
    /\ Proceed(r, "learn", req[r].todo)
    /\ UNCHANGED <<graph, proposal, page>>

\* learnAddressPin: the last to come is what the graph knows.  The batch and the
\* AI then go on with the next order.
Learn(r) ==
    /\ req[r].step = "learn"
    /\ LET c == Head(req[r].todo)
           a == AddressOf[c.order]
           rest == Tail(req[r].todo)
       IN /\ graph' = [graph EXCEPT ![a] = c.at]
          /\ Proceed(r, IF rest = <<>> THEN "idle" ELSE IF c.by = "AI" THEN "read" ELSE "write",
                  rest)
    /\ UNCHANGED <<order, proposal, page, byHand, corrected>>

\* The delivery closes the order and teaches where it was made.
Deliver(r, o) ==
    /\ req[r] = Idle /\ Open(o)
    /\ order' = [order EXCEPT ![o].status = "closed"]
    /\ \E p \in Points : Proceed(r, "learn", <<[order |-> o, at |-> p, by |-> "GPS"]>>)
    /\ UNCHANGED <<graph, proposal, page, byHand, corrected>>

\* The database throws, or the process restarts.
Abort(r) ==
    /\ req[r] # Idle
    /\ Proceed(r, "idle", <<>>)
    /\ UNCHANGED <<order, graph, proposal, page, byHand, corrected>>

PlacesNext ==
    \/ \E r \in Requests :
         \/ CreateRead(r) \/ Insert(r)
         \/ \E o \in PlacedOrders : Patch(r, o) \/ DriverFix(r, o) \/ Deliver(r, o)
         \/ ConfirmRead(r) \/ Apply(r) \/ LoadToApply(r) \/ Write(r) \/ Learn(r)
         \/ Abort(r)
    \/ Load \/ Propose

PlacesSpec == PlacesInit /\ [][PlacesNext]_placeVars

-----------------------------------------------------------------------------
\* Properties.

\* "NEVER confirms in batch a pin of the mock: it would poison the graph": the
\* graph knows the mock's point of an address only if somebody confirmed it by
\* itself, on the map, at some time; however batches, proposals and new orders
\* cross.
MockOnlyByHand ==
    \A a \in Addresses : graph[a] = Mock => a \in byHand

\* A pin put by a person, in the field or on the map, is moved only by another
\* one, or by a proposal of the AI that was made before it.
Moved(o) == Exists(o) /\ order[o].from = "HAND" /\ order'[o].from # "HAND"
CorrectionsStay == [][\A o \in PlacedOrders : ~Moved(o)]_placeVars
OnlyOldProposalsMove == [][\A o \in PlacedOrders : Moved(o) => o \in corrected]_placeVars
=============================================================================
