------------------------------ MODULE DriverDay ------------------------------
(***************************************************************************)
(* A driver's day: the app's page (apps/driver/src/App.tsx), its offline   *)
(* queue (DriverQueue) and the rows of the route at the API                *)
(* (modules/routes/routes.ts), which two dispatchers may hand over at once *)
(* from their own pages (Rutas.tsx).                                       *)
(*                                                                         *)
(* The page shows the last answer of GET /routes/driver/today, the one it  *)
(* keeps in localStorage included.  What the driver may do depends on that *)
(* view and on the sheet of a stop, a copy of what the view had; the API   *)
(* looks at its rows only.  The dispatch and the start read the route,     *)
(* check it and write it by its id alone, so that each is two steps here;  *)
(* the other handlers are one: RouteExecution takes them apart.            *)
(***************************************************************************)
EXTENDS DriverQueue, FiniteSets

CONSTANTS
    Stops,
    StopOf, KindOf,   \* of each action: its stop, and "arrive", "complete" or "fail"
    Desks,            \* the dispatchers' requests
    Starts,           \* the requests to start the route that may be in flight
    Me, Other, None,  \* this driver, another one, none
    MaxLoads          \* bound on the loads in flight

ASSUME DayAssumption ==
    /\ StopOf \in [Actions -> Stops]
    /\ KindOf \in [Actions -> {"arrive", "complete", "fail"}]
    /\ Cardinality({Me, Other, None}) = 3 /\ None \notin Starts /\ MaxLoads \in Nat

VARIABLES
    server,     \* the rows: the route's status and driver, its stops
    desk,       \* what each dispatch does next
    start,      \* what each request to start the route does next
    starting,   \* the one that the page waits for
    session,    \* the token: valid, refused from now on by the API, or none
    bare,       \* the flush's request went out without a token
    view,       \* the route on the screen
    sheet,      \* the stop that is open over it
    answers,    \* the answers to the loads, on their way
    due,        \* a load that the page is about to ask for
    crossed     \* history: two dispatches found the route PLANNED

startVars == <<start, starting>>
dayVars == <<server, desk, startVars, session, bare, view, sheet, answers, due, crossed>>
allVars == <<vars, dayVars>>

NoSheet == [stop |-> None]
Opened(s) == [stop |-> s, status |-> view.stop[s], arrived |-> FALSE, waits |-> {}]
Active(v) == v # None /\ v.status \in {"DISPATCHED", "IN_PROGRESS"}

DayInit ==
    /\ Init
    /\ server = [status |-> "PLANNED", driver |-> None, stop |-> [s \in Stops |-> "PENDING"]]
    /\ desk = [d \in Desks |-> "idle"]
    /\ start = [k \in Starts |-> "idle"] /\ starting = None
    /\ session = "in" /\ bare = FALSE
    /\ view = None /\ sheet = NoSheet
    /\ answers = {} /\ due = TRUE
    /\ crossed = FALSE

-----------------------------------------------------------------------------
\* The API.

OpenStops(rows) == {s \in Stops : rows.stop[s] \in {"PENDING", "ARRIVED"}}

\* Another driver's stop, or one that is COMPLETED already.
Refuses(rows, a) ==
    \/ rows.driver # Me
    \/ KindOf[a] = "complete" /\ rows.stop[StopOf[a]] = "COMPLETED"

\* arrive, complete and fail: whatever the stop was, and the route's status.
Handle(rows, a) ==
    LET became == [arrive |-> "ARRIVED", complete |-> "COMPLETED", fail |-> "FAILED"][KindOf[a]]
        after == [rows EXCEPT !.stop[StopOf[a]] = became]
    IN IF KindOf[a] # "arrive" /\ OpenStops(after) = {}
         THEN [after EXCEPT !.status = "COMPLETED"] ELSE after

\* GET /routes/driver/today.
Today == IF server.driver = Me /\ Active(server)
           THEN [status |-> server.status, stop |-> server.stop] ELSE None

\* POST /routes/:id/dispatch: the read and its check ...
DispatchRead(d) ==
    /\ desk[d] = "idle"
    /\ server.status = "PLANNED"
    /\ desk' = [desk EXCEPT ![d] = "read"]
    /\ UNCHANGED <<vars, server, startVars, session, bare, view, sheet, answers, due, crossed>>

\* ... and the update, which names the route only.
DispatchWrite(d, driver) ==
    /\ desk[d] = "read"
    /\ desk' = [desk EXCEPT ![d] = "idle"]
    /\ server' = [server EXCEPT !.status = "DISPATCHED", !.driver = driver]
    /\ crossed' = (crossed \/ \E e \in Desks \ {d} : desk[e] = "read")
    /\ UNCHANGED <<vars, startVars, session, bare, view, sheet, answers, due>>

\* POST /routes/:id/start: the read and its checks ...
StartReadAny(k) ==
    /\ start[k] = "sent" /\ session # "expired"
    /\ server.driver = Me
    /\ start' = [start EXCEPT ![k] = "read"]
    /\ UNCHANGED <<vars, server, desk, starting, session, bare, view, sheet, answers, due, crossed>>

StartRead(k) ==
    /\ start[k] = "sent" /\ session # "expired"
    /\ server.status = "DISPATCHED" /\ server.driver = Me
    /\ start' = [start EXCEPT ![k] = "read"]
    /\ UNCHANGED <<vars, server, desk, starting, session, bare, view, sheet, answers, due, crossed>>

StartEnds(k) ==
    /\ start' = [start EXCEPT ![k] = "idle"]
    /\ starting' = IF starting = k THEN None ELSE starting

\* ... and the update, which names the route only.  The page loads, unless what
\* comes after the update fails.
StartWrite(k) ==
    /\ start[k] = "read"
    /\ server' = [server EXCEPT !.status = "IN_PROGRESS"]
    /\ StartEnds(k)
    /\ due' \in {due, due \/ starting = k}
    /\ UNCHANGED <<vars, desk, session, bare, view, sheet, answers, crossed>>

\* Refused, or a query that throws.
StartFails(k) ==
    /\ start[k] # "idle"
    /\ StartEnds(k)
    /\ session' = IF session = "expired" /\ start[k] = "sent" /\ starting = k THEN "out" ELSE session
    /\ UNCHANGED <<vars, server, desk, bare, view, sheet, answers, due, crossed>>

-----------------------------------------------------------------------------
\* The page: what it shows.

\* load(): from an effect or an action, every 45 s while the route is active, or
\* pulled by the driver.
Load ==
    /\ session # "out"
    /\ Cardinality(answers) < MaxLoads
    /\ IF session = "in" THEN answers' = answers \cup {Today} /\ UNCHANGED session
       ELSE session' = "out" /\ UNCHANGED answers
    /\ UNCHANGED <<vars, server, desk, startVars, bare, view, sheet, crossed>>

LoadDue == due /\ Load /\ due' = FALSE

PollStarted == view # None /\ view.status = "IN_PROGRESS" /\ Load /\ UNCHANGED due

Poll == Active(view) /\ Load /\ UNCHANGED due
Pull == sheet = NoSheet /\ Load /\ UNCHANGED due

\* Its answer is shown and kept, in whatever order the answers come.
LoadAnswer ==
    /\ \E v \in answers : view' = v /\ answers' = answers \ {v}
    /\ UNCHANGED <<vars, server, desk, startVars, session, bare, sheet, due, crossed>>

LoadFails ==
    /\ faults < MaxFaults /\ faults' = faults + 1
    /\ \E v \in answers : answers' = answers \ {v}
    /\ UNCHANGED <<queue, elapsed, flush, live, executed, discarded, settled,
                   server, desk, startVars, session, bare, view, sheet, due, crossed>>

-----------------------------------------------------------------------------
\* The page: what the driver does.

\* startRoute(): one at a time, and not queued.
StartRoute(k) ==
    /\ session # "out" /\ view # None /\ view.status = "DISPATCHED"
    /\ starting = None /\ start[k] = "idle"
    /\ start' = [start EXCEPT ![k] = "sent"] /\ starting' = k
    /\ UNCHANGED <<vars, server, desk, session, bare, view, sheet, answers, due, crossed>>

\* The page stops waiting without an answer, and the driver may try again: what
\* was sent may still be carried out.
StartLost ==
    /\ starting # None /\ starting' = None
    /\ faults < MaxFaults /\ faults' = faults + 1
    /\ UNCHANGED <<queue, elapsed, flush, live, executed, discarded, settled, server, desk,
                   start, session, bare, view, sheet, answers, due, crossed>>

\* A stop that is not done, as far as the view goes.
OpenSheet(s) ==
    /\ session # "out" /\ sheet = NoSheet /\ Active(view)
    /\ view.stop[s] \notin {"COMPLETED", "FAILED"}
    /\ sheet' = Opened(s)
    /\ UNCHANGED <<vars, server, desk, startVars, session, bare, view, answers, due, crossed>>

CloseSheet ==
    /\ sheet # NoSheet
    /\ sheet' = NoSheet
    /\ UNCHANGED <<vars, server, desk, startVars, session, bare, view, answers, due, crossed>>

\* The buttons of the sheet: "Llegué" waits for itself and the confirmation for
\* itself, but neither for the other.
Waits(kind) == \E b \in sheet.waits : (KindOf[b] = "arrive") = (kind = "arrive")
Tap(a) ==
    /\ session # "out" /\ sheet # NoSheet /\ sheet.stop = StopOf[a]
    /\ view # None /\ view.status = "IN_PROGRESS"
    /\ ~Waits(KindOf[a])
    /\ KindOf[a] = "arrive" => sheet.status = "PENDING" /\ ~sheet.arrived
    /\ Call(a)
    /\ sheet' = [sheet EXCEPT !.waits = @ \cup {a}]
    /\ UNCHANGED <<server, desk, startVars, session, bare, view, answers, due, crossed>>

\* What the API makes of an action, and the token of the answer: a request
\* without a valid token is refused, and ends the session if it had one.
Served(a, o, unsigned) ==
    LET refused == session = "expired" \/ unsigned IN
      /\ o.ran => ~refused /\ ~Refuses(server, a)
      /\ server' = IF o.ran THEN Handle(server, a) ELSE server
      /\ session' = IF session = "expired" /\ o.answer = "error" THEN "out" ELSE session

\* apiOrQueue has an answer.  Served or queued, an arrival stays on the sheet and
\* anything else closes it, whichever is open by then, and the route is loaded.
TapAnswer(a, o) ==
    /\ CallAnswer(a, o)
    /\ Served(a, o, FALSE)
    /\ sheet' = IF o.answer # "error" /\ KindOf[a] # "arrive" THEN NoSheet
                ELSE IF sheet = NoSheet \/ a \notin sheet.waits THEN sheet
                ELSE [sheet EXCEPT !.waits = @ \ {a},
                                   !.arrived = @ \/ o.answer # "error"]
    /\ due' = (due \/ o.answer # "error")
    /\ UNCHANGED <<desk, startVars, bare, view, answers, crossed>>

-----------------------------------------------------------------------------
\* The queue, which is flushed with or without a session.

FlushBegins ==
    /\ FlushStart
    /\ bare' = (session = "out")
    /\ UNCHANGED <<server, desk, startVars, session, view, sheet, answers, due, crossed>>

\* The page loads when its own flush has sent something.
FlushGoesOn(o) ==
    /\ FlushAnswer(o)
    /\ Served(Head(flush.todo).act, o, bare)
    /\ bare' = (session' = "out" /\ flush'.on)
    /\ due' \in {due, due \/ ~flush'.on}
    /\ UNCHANGED <<desk, startVars, view, sheet, answers, crossed>>

OnQueue ==
    /\ \/ \E a \in Actions : BackoffOver(a)
       \/ \E i \in DOMAIN queue : RetryAction(i) \/ DiscardAction(i)
    /\ UNCHANGED dayVars

-----------------------------------------------------------------------------
\* Sessions and pages.

\* What the sheet of a stop keeps to itself goes with the screen.
Remounted == IF sheet = NoSheet THEN NoSheet
             ELSE [sheet EXCEPT !.arrived = FALSE, !.waits = {}]

Expire ==
    /\ session = "in" /\ faults < MaxFaults /\ faults' = faults + 1
    /\ session' = "expired"
    /\ UNCHANGED <<queue, elapsed, flush, live, executed, discarded, settled,
                   server, desk, startVars, bare, view, sheet, answers, due, crossed>>

LogOut ==
    /\ session # "out" /\ session' = "out"
    /\ sheet' = Remounted
    /\ faults < MaxFaults /\ faults' = faults + 1
    /\ UNCHANGED <<queue, elapsed, flush, live, executed, discarded, settled,
                   server, desk, startVars, bare, view, answers, due, crossed>>

LogIn ==
    /\ session = "out" /\ session' = "in"
    /\ sheet' = Remounted
    /\ due' = TRUE
    /\ UNCHANGED <<vars, server, desk, startVars, bare, view, answers, crossed>>

\* Some actions, carried out one after another.
Replay(order) ==
    LET rows[i \in 0..Len(order)] ==
            IF i = 0 THEN server ELSE Handle(rows[i - 1], order[i])
    IN /\ \A i \in DOMAIN order : ~Refuses(rows[i - 1], order[i])
       /\ server' = rows[Len(order)]

\* The page is killed and opened again on the route it had kept.  Of the requests
\* that were on their way the API may carry out any, in any order.
Reopen ==
    /\ \E ran \in SUBSET (Sent \ {a \in Actions : bare /\ live[a] # "sent"}) :
         /\ Kill(ran)
         /\ ran # {} => session # "expired"
         /\ \E order \in SetToSeqs(ran) : Replay(order)
    /\ bare' = FALSE
    /\ sheet' = NoSheet /\ answers' = {} /\ due' = TRUE /\ starting' = None
    /\ UNCHANGED <<desk, start, session, view, crossed>>

DayNext ==
    \/ \E d \in Desks :
         DispatchRead(d) \/ \E driver \in {Me, Other} : DispatchWrite(d, driver)
    \/ LoadDue \/ Poll \/ Pull \/ LoadAnswer \/ LoadFails
    \/ \E k \in Starts : StartRoute(k) \/ StartRead(k) \/ StartWrite(k) \/ StartFails(k)
    \/ StartLost \/ CloseSheet \/ (\E s \in Stops : OpenSheet(s))
    \/ \E a \in Actions : Tap(a) \/ \E o \in Outcome : TapAnswer(a, o)
    \/ FlushBegins \/ (\E o \in Outcome : FlushGoesOn(o)) \/ OnQueue
    \/ Expire \/ LogOut \/ LogIn \/ Reopen

\* As in DriverQueue; loads are answered, the effects of the page run and its 45 s
\* interval fires.
DaySpec ==
    /\ DayInit /\ [][DayNext]_allVars
    /\ WF_allVars(FlushBegins)
    /\ WF_allVars(\E o \in Outcome : FlushGoesOn(o))
    /\ \A a \in Actions : WF_allVars(BackoffOver(a) /\ UNCHANGED dayVars)
    /\ WF_allVars(Poll) /\ WF_allVars(LoadAnswer)

-----------------------------------------------------------------------------
\* Properties.

OnItsWay(rows) == rows.status \in {"IN_PROGRESS", "COMPLETED"}
Starting == {k \in Starts : start[k] = "read"}

\* Unless two dispatches found it PLANNED, a route is handed to one driver, and
\* once it is on its way it is never waiting to be started again: whatever the
\* phone replays, and from however old a view.  Nor does a start find it waiting
\* any more, so that a start that had found it so before, and is late, can take a
\* COMPLETED route back to IN_PROGRESS; when there is none left, nothing can.
HandedOverOnce ==
    [][\/ crossed'
       \/ /\ server.driver # None => server'.driver = server.driver
          /\ OnItsWay(server) =>
               /\ OnItsWay(server') /\ Starting' \subseteq Starting
               /\ Starting = {} => server'.status \in {server.status, "COMPLETED"}]_allVars

\* A driver with an active route on the screen and a valid session comes to see
\* the route as it is: a view kept from before, answers that overtake each other
\* and loads that fail are put right by the 45 s interval.
ViewCatchesUp ==
    (Active(view) /\ session = "in")
        ~> (view = Today \/ ~Active(view) \/ session # "in")
=============================================================================
