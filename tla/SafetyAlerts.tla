---------------------------- MODULE SafetyAlerts ----------------------------
(***************************************************************************)
(* The SafetyAlert rows of one tenant: the deviation alert that a          *)
(* position opens (services/safety.ts, called by modules/tracking and      *)
(* modules/telematics for each position they take in), the panic button    *)
(* and the status a dispatcher gives an alert (modules/safety/routes.ts).  *)
(*                                                                         *)
(* A handler writes its row in one step and tells the realtime bus in      *)
(* another (Tell): the module that composes this one with the pages says   *)
(* whom that reaches.  A position that is on its route, whose route is not *)
(* in progress, or whose alert is found open already changes nothing here  *)
(* and is a step not taken.                                                *)
(***************************************************************************)
EXTENDS Naturals, FiniteSets

CONSTANTS Alerts, Routes, Requests, NONE, PANIC

ASSUME AlertsAssumption == PANIC \notin Routes /\ NONE \notin Alerts \cup Routes

VARIABLES
    alert,    \* the rows: what each is about and its status
    handler,  \* what each request in flight does next
    crossed   \* history: the routes on which two positions were checked at once,
              \* or an alert was opened again by hand

alertVars == <<alert, handler, crossed>>

\* ATTENDED stands for ACKNOWLEDGED, RESOLVED and FALSE_ALARM.
Statuses == {"OPEN", "ATTENDED"}
Idle == [step |-> "idle"]
Creating(r) == [step |-> "create", route |-> r]
Telling == [step |-> "tell"]
Exists(a) == alert[a] # NONE
Open == {a \in Alerts : Exists(a) /\ alert[a].status = "OPEN"}
OpenDeviations(r) == {a \in Open : alert[a].about = r}

AlertsInit ==
    /\ alert = [a \in Alerts |-> NONE]
    /\ handler = [h \in Requests |-> Idle]
    /\ crossed = {}

-----------------------------------------------------------------------------
\* checkRouteDeviation.

FindNoneIsBlind(h, r) ==
    /\ handler[h] = Idle
    /\ handler' = [handler EXCEPT ![h] = Creating(r)]
    /\ UNCHANGED <<alert, crossed>>

\* A position far from the depot and from every pending stop of a route in
\* progress, and no open alert found for it.
FindNone(h, r) ==
    /\ handler[h] = Idle
    /\ OpenDeviations(r) = {}
    /\ handler' = [handler EXCEPT ![h] = Creating(r)]
    /\ crossed' = IF \E k \in Requests \ {h} : handler[k] = Creating(r)
                    THEN crossed \cup {r} ELSE crossed
    /\ UNCHANGED alert

\* A row with a fresh id.
NewAlert(what) ==
    LET fresh == {a \in Alerts : ~Exists(a)} IN
      /\ fresh # {}
      /\ alert' = [alert EXCEPT ![CHOOSE a \in fresh : TRUE] = [about |-> what, status |-> "OPEN"]]

CreateDeviation(h) ==
    /\ handler[h].step = "create"
    /\ NewAlert(handler[h].route)
    /\ handler' = [handler EXCEPT ![h] = Telling]
    /\ UNCHANGED crossed

-----------------------------------------------------------------------------
\* POST /safety/panic.
Panic(h) ==
    /\ handler[h] = Idle
    /\ NewAlert(PANIC)
    /\ handler' = [handler EXCEPT ![h] = Telling]
    /\ UNCHANGED crossed

\* PATCH /safety/alerts/:id: any status, whatever it was.
SetStatus(h, a, status) ==
    /\ handler[h] = Idle
    /\ Exists(a)
    /\ alert' = [alert EXCEPT ![a].status = status]
    /\ handler' = [handler EXCEPT ![h] = Telling]
    /\ crossed' = IF status = "OPEN" /\ a \notin Open
                    THEN crossed \cup ({alert[a].about} \ {PANIC}) ELSE crossed

\* What the handler emits last, and its answer.
Tell(h) ==
    /\ handler[h] = Telling
    /\ handler' = [handler EXCEPT ![h] = Idle]
    /\ UNCHANGED <<alert, crossed>>

\* The API stops and starts again.
CutHandlers ==
    /\ handler' = [h \in Requests |-> Idle]
    /\ UNCHANGED <<alert, crossed>>

-----------------------------------------------------------------------------
\* Properties.

\* A route off its way floods the monitoring centre with one alert only
\* (services/safety.ts, "una sola alerta abierta por ruta"): there is never a
\* second one open, until two of its positions are checked at once or somebody
\* opens an old alert again.
OneOpenDeviation ==
    \A r \in Routes \ crossed : Cardinality(OpenDeviations(r)) <= 1
=============================================================================
