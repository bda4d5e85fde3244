--------------------------- MODULE CockpitProofs ---------------------------
(***************************************************************************)
(* Proofs about Cockpit, for any alerts, routes, conditions, pages, loads  *)
(* and bounds: a route has one open deviation alert, and a page that shows *)
(* something else than the rows is about to be put right.                  *)
(***************************************************************************)
EXTENDS Cockpit, FiniteSetTheorems, TLAPS

-----------------------------------------------------------------------------
\* The alerts (SafetyAlerts).

AtMostOne(S) == \A a, b \in S : a = b

Row == [about : Routes \cup {PANIC}, status : Statuses]
Handling == {Idle, Telling} \cup {Creating(r) : r \in Routes}

AlertTypes ==
    /\ alert \in [Alerts -> Row \cup {NONE}]
    /\ handler \in [Requests -> Handling]
    /\ crossed \in SUBSET Routes

\* The handlers that found no open deviation of the route and have yet to create one.
Building(r) == {h \in Requests : handler[h] = Creating(r)}

\* Of a route that no two handlers have crossed on: at most one builds an alert, and
\* only while there is none.
OneBuilt ==
    \A r \in Routes \ crossed :
        /\ AtMostOne(Building(r)) /\ AtMostOne(OpenDeviations(r))
        /\ Building(r) # {} => OpenDeviations(r) = {}

AlertInv == AlertTypes /\ OneBuilt

LEMMA InitAlertInv == AlertsInit => AlertInv
  BY DEF AlertsInit, AlertInv, AlertTypes, OneBuilt, Handling, Building, AtMostOne,
         OpenDeviations, Open, Exists, Idle, Creating

LEMMA StepsDiffer ==
    ASSUME NEW r \in Routes
    PROVE  Creating(r) # Idle /\ Creating(r) # Telling /\ Idle # Telling
  BY DEF Creating, Idle, Telling

\* The answer of the query may be old, but a second one crosses the route.
LEMMA FindNoneAlertInv ==
    ASSUME AlertInv, NEW h \in Requests, NEW r \in Routes, FindNone(h, r)
    PROVE  AlertInv'
<1>1. /\ handler' = [handler EXCEPT ![h] = Creating(r)] /\ OpenDeviations(r) = {}
      /\ crossed' = IF \E k \in Requests \ {h} : handler[k] = Creating(r)
                      THEN crossed \cup {r} ELSE crossed
      /\ alert' = alert
  BY DEF FindNone
<1>2. AlertTypes'
  BY <1>1 DEF AlertInv, AlertTypes, Handling
<1>3. \A s \in Routes : OpenDeviations(s)' = OpenDeviations(s)
  BY <1>1 DEF OpenDeviations, Open, Exists
<1>4. \A s \in Routes \ {r} : Building(s)' \subseteq Building(s)
  BY <1>1 DEF AlertInv, AlertTypes, Building, Creating
<1>5. r \notin crossed' => \A k \in Building(r)' : k = h
  BY <1>1 DEF AlertInv, AlertTypes, Building
<1>6. OneBuilt'
  <2> SUFFICES ASSUME NEW s \in Routes \ crossed'
               PROVE  /\ AtMostOne(Building(s)') /\ AtMostOne(OpenDeviations(s)')
                      /\ Building(s)' # {} => OpenDeviations(s)' = {}
    BY DEF OneBuilt, AtMostOne
  <2>1. s \notin crossed
    BY <1>1
  <2>2. CASE s = r
    BY <1>1, <1>3, <1>5, <2>1, <2>2 DEF AtMostOne
  <2>3. CASE s # r
    BY <1>3, <1>4, <2>1, <2>3 DEF AlertInv, OneBuilt, AtMostOne
  <2>4. QED  BY <2>2, <2>3
<1>7. QED  BY <1>2, <1>6 DEF AlertInv

\* A handler that ends what it does, whatever becomes of the rows: what was about a
\* route stays about it, and no more of them are open.
LEMMA ShrinkAlertInv ==
    ASSUME AlertInv, AlertTypes', crossed \subseteq crossed',
           \A h \in Requests : handler'[h] = handler[h] \/ handler'[h] \in {Idle, Telling},
           \A r \in Routes \ crossed' : OpenDeviations(r)' \subseteq OpenDeviations(r)
    PROVE  AlertInv'
<1>1. \A r \in Routes : Building(r)' \subseteq Building(r)
  BY StepsDiffer DEF Building
<1>2. QED  BY <1>1 DEF AlertInv, OneBuilt, AtMostOne

LEMMA NewAlertAdds ==
    ASSUME AlertTypes, NEW what \in Routes \cup {PANIC}, NewAlert(what)
    PROVE  /\ alert' \in [Alerts -> Row \cup {NONE}]
           /\ \E a \in Alerts : \A r \in Routes :
                OpenDeviations(r)' \subseteq OpenDeviations(r) \cup IF r = what THEN {a} ELSE {}
<1> DEFINE new == [about |-> what, status |-> "OPEN"]
<1>1. PICK a \in Alerts : ~Exists(a) /\ alert' = [alert EXCEPT ![a] = new]
  BY DEF NewAlert
<1>2. new \in Row /\ new.about = what
  BY DEF Row, Statuses
<1> HIDE DEF new
<1>3. /\ alert' \in [Alerts -> Row \cup {NONE}] /\ alert'[a] = new
      /\ \A b \in Alerts \ {a} : alert'[b] = alert[b]
  BY <1>1, <1>2 DEF AlertTypes
<1>4. ASSUME NEW r \in Routes
      PROVE  OpenDeviations(r)' \subseteq OpenDeviations(r) \cup IF r = what THEN {a} ELSE {}
  BY <1>2, <1>3 DEF OpenDeviations, Open, Exists
<1>5. QED  BY <1>3, <1>4

LEMMA CreateAlertInv ==
    ASSUME AlertInv, NEW h \in Requests, CreateDeviation(h)
    PROVE  AlertInv'
<1>1. /\ handler[h].step = "create" /\ NewAlert(handler[h].route)
      /\ handler' = [handler EXCEPT ![h] = Telling] /\ crossed' = crossed
  BY DEF CreateDeviation
<1>2. PICK r \in Routes : handler[h] = Creating(r) /\ handler[h].route = r
  BY <1>1 DEF AlertInv, AlertTypes, Handling, Idle, Telling, Creating
<1>3. PICK a \in Alerts :
        /\ alert' \in [Alerts -> Row \cup {NONE}]
        /\ \A s \in Routes :
             OpenDeviations(s)' \subseteq OpenDeviations(s) \cup IF s = r THEN {a} ELSE {}
  BY <1>1, <1>2, NewAlertAdds DEF AlertInv
<1>4. AlertTypes'
  BY <1>1, <1>3 DEF AlertInv, AlertTypes, Handling
<1>5. /\ handler'[h] = Telling
      /\ \A k \in Requests \ {h} : handler'[k] = handler[k]
  BY <1>1 DEF AlertInv, AlertTypes
<1>6. OneBuilt'
  <2> SUFFICES ASSUME NEW s \in Routes \ crossed
               PROVE  /\ AtMostOne(Building(s)') /\ AtMostOne(OpenDeviations(s)')
                      /\ Building(s)' # {} => OpenDeviations(s)' = {}
    BY <1>1 DEF OneBuilt, AtMostOne
  <2>1. Building(s)' \subseteq Building(s) \ {h}
    BY <1>5, StepsDiffer DEF Building
  <2>2. CASE s = r
    <3>1. h \in Building(r)
      BY <1>2 DEF Building
    <3>2. OpenDeviations(r) = {} /\ Building(r)' = {}
      BY <2>1, <2>2, <3>1 DEF AlertInv, OneBuilt, AtMostOne
    <3>3. OpenDeviations(r)' \subseteq {a}
      BY <1>3, <3>2
    <3>4. QED  BY <2>2, <3>2, <3>3 DEF AtMostOne
  <2>3. CASE s # r
    <3>1. OpenDeviations(s)' \subseteq OpenDeviations(s)
      BY <1>3, <2>3
    <3>2. QED  BY <2>1, <3>1 DEF AlertInv, OneBuilt, AtMostOne
  <2>4. QED  BY <2>2, <2>3
<1>7. QED  BY <1>4, <1>6 DEF AlertInv

LEMMA PanicAlertInv ==
    ASSUME AlertInv, NEW h \in Requests, Panic(h)
    PROVE  AlertInv'
<1>1. /\ NewAlert(PANIC) /\ handler' = [handler EXCEPT ![h] = Telling] /\ crossed' = crossed
  BY DEF Panic
<1>2. PICK a \in Alerts :
        /\ alert' \in [Alerts -> Row \cup {NONE}]
        /\ \A s \in Routes :
             OpenDeviations(s)' \subseteq OpenDeviations(s) \cup IF s = PANIC THEN {a} ELSE {}
  BY <1>1, NewAlertAdds DEF AlertInv
<1>3. AlertTypes'
  BY <1>1, <1>2 DEF AlertInv, AlertTypes, Handling
<1>4. \A s \in Routes : OpenDeviations(s)' \subseteq OpenDeviations(s)
  BY <1>2, AlertsAssumption
<1>5. \A k \in Requests : handler'[k] = handler[k] \/ handler'[k] \in {Idle, Telling}
  BY <1>1 DEF AlertInv, AlertTypes
<1>6. QED  BY <1>1, <1>3, <1>4, <1>5, ShrinkAlertInv

LEMMA SetStatusAlertInv ==
    ASSUME AlertInv, NEW h \in Requests, NEW a \in Alerts, NEW status \in Statuses,
           SetStatus(h, a, status)
    PROVE  AlertInv'
<1>1. /\ Exists(a) /\ alert' = [alert EXCEPT ![a].status = status]
      /\ handler' = [handler EXCEPT ![h] = Telling]
      /\ crossed' = IF status = "OPEN" /\ a \notin Open
                      THEN crossed \cup ({alert[a].about} \ {PANIC}) ELSE crossed
  BY DEF SetStatus
<1> DEFINE new == [alert[a] EXCEPT !.status = status]
<1>2. alert[a] \in Row
  BY <1>1 DEF AlertInv, AlertTypes, Exists
<1>3. new \in Row /\ new.about = alert[a].about /\ new.status = status
  BY <1>2 DEF Row
<1>4. alert' = [alert EXCEPT ![a] = new]
  BY <1>1
<1> HIDE DEF new
<1>5. /\ alert' \in [Alerts -> Row \cup {NONE}] /\ alert'[a] = new
      /\ \A b \in Alerts \ {a} : alert'[b] = alert[b]
  BY <1>3, <1>4 DEF AlertInv, AlertTypes
<1>6. alert[a].about \in Routes \cup {PANIC}
  BY <1>2 DEF Row
<1>7. AlertTypes'
  BY <1>1, <1>5, <1>6 DEF AlertInv, AlertTypes, Handling
<1>8. ASSUME NEW r \in Routes \ crossed' PROVE OpenDeviations(r)' \subseteq OpenDeviations(r)
  <2> SUFFICES ASSUME NEW b \in OpenDeviations(r)' PROVE b \in OpenDeviations(r)
    OBVIOUS
  <2>1. b \in Alerts /\ alert'[b] # NONE /\ alert'[b].status = "OPEN" /\ alert'[b].about = r
    BY DEF OpenDeviations, Open, Exists
  <2>2. CASE b # a
    BY <1>5, <2>1, <2>2 DEF OpenDeviations, Open, Exists
  <2>3. CASE b = a
    <3>1. status = "OPEN" /\ alert[a].about = r /\ r # PANIC
      BY <1>3, <1>5, <2>1, <2>3, AlertsAssumption
    <3>2. a \in Open
      BY <1>1, <3>1
    <3>3. QED  BY <2>3, <3>1, <3>2 DEF OpenDeviations
  <2>4. QED  BY <2>2, <2>3
<1>9. \A k \in Requests : handler'[k] = handler[k] \/ handler'[k] \in {Idle, Telling}
  BY <1>1 DEF AlertInv, AlertTypes
<1>10. crossed \subseteq crossed'
  BY <1>1
<1>11. QED  BY <1>7, <1>8, <1>9, <1>10, ShrinkAlertInv

LEMMA OtherAlertInv ==
    ASSUME AlertInv, (\E h \in Requests : Tell(h)) \/ CutHandlers \/ UNCHANGED alertVars
    PROVE  AlertInv'
<1>1. alert' = alert /\ crossed' = crossed
  BY DEF Tell, CutHandlers, alertVars
<1>2. /\ handler' \in [Requests -> Handling]
      /\ \A h \in Requests : handler'[h] = handler[h] \/ handler'[h] \in {Idle, Telling}
  BY DEF Tell, CutHandlers, alertVars, AlertInv, AlertTypes, Handling
<1>3. \A r \in Routes : OpenDeviations(r)' = OpenDeviations(r)
  BY <1>1 DEF OpenDeviations, Open, Exists
<1>4. AlertTypes'
  BY <1>1, <1>2 DEF AlertInv, AlertTypes
<1>5. QED  BY <1>1, <1>2, <1>3, <1>4, ShrinkAlertInv

LEMMA StepAlertInv ==
    ASSUME AlertInv, [Next]_vars
    PROVE  AlertInv'
<1>1. CASE \E h \in Requests, r \in Routes : FindNone(h, r)
  BY <1>1, FindNoneAlertInv
<1>2. CASE \E h \in Requests : CreateDeviation(h) \/ Panic(h)
  BY <1>2, CreateAlertInv, PanicAlertInv
<1>3. CASE \E h \in Requests, a \in Alerts, s \in Statuses : SetStatus(h, a, s)
  BY <1>3, SetStatusAlertInv
<1>4. CASE (\E h \in Requests : Tell(h)) \/ CutHandlers \/ UNCHANGED alertVars
  BY <1>4, OtherAlertInv
<1>5. CASE \E h \in Requests : Report(h)
  BY <1>1, <1>2, <1>3, <1>5 DEF Report
<1>6. CASE \E h \in Requests : Finish(h)
  BY <1>4, <1>6 DEF Finish
<1>7. CASE \E h \in Requests, p \in Pages, a \in Alerts : Acknowledge(p, h, a)
  BY <1>3, <1>7 DEF Acknowledge, Statuses
<1>8. CASE Restart
  BY <1>4, <1>8 DEF Restart
<1>9. CASE /\ ~\E h \in Requests :
                Report(h) \/ Finish(h) \/ \E p \in Pages, a \in Alerts : Acknowledge(p, h, a)
           /\ ~Restart
  <2>1. UNCHANGED alertVars
    BY <1>9 DEF Next, vars, Snooze, Unsnooze, PutOff, Reload, Browse, Serve, ReadRows,
                LeaveOutSnoozed, Answer, LoadFails, ConditionTurns, SnoozeRunsOut, SnoozeElsewhere,
                Silently
  <2>2. QED  BY <1>4, <2>1
<1>10. QED  BY <1>5, <1>6, <1>7, <1>8, <1>9

LEMMA AlertInvHolds == Spec => []AlertInv
<1>1. Init => AlertInv
  BY InitAlertInv DEF Init
<1>2. QED  BY <1>1, StepAlertInv, PTL DEF Spec

\* For any routes, alerts and requests: a route has at most one open deviation alert,
\* unless two handlers that found none crossed, or one that was closed was reopened.
THEOREM DeviationsStayOne ==
    Spec => []OneOpenDeviation
<1>1. AlertInv => OneOpenDeviation
  <2> SUFFICES ASSUME AlertInv, NEW r \in Routes \ crossed
               PROVE  Cardinality(OpenDeviations(r)) <= 1
    BY DEF OneOpenDeviation
  <2> DEFINE D == OpenDeviations(r)
  <2>1. \A a, b \in D : a = b
    BY DEF AlertInv, OneBuilt, AtMostOne
  <2> HIDE DEF D
  <2>2. CASE D = {}
    BY <2>2, FS_EmptySet DEF D
  <2>3. CASE D # {}
    <3>1. PICK a : D = {a}
      BY <2>1, <2>3
    <3>2. Cardinality({a}) = 1
      BY FS_Singleton
    <3>3. QED  BY <3>1, <3>2 DEF D
  <2>4. QED  BY <2>2, <2>3
<1>2. QED  BY AlertInvHolds, <1>1, PTL

-----------------------------------------------------------------------------
\* What the pages show.

View == [items : SUBSET Keys, listed : SUBSET Keys, asOf : Nat]
Reading == [step : {"rows", "done"}, page : Pages, asOf : Nat,
            found : SUBSET Keys, listed : SUBSET Keys]
Posted == [step |-> "posted"]
Posting == [step : {"posting"}, by : Requests]

PageTypes ==
    /\ changes \in Nat /\ inbox \in [Pages -> Nat]
    /\ stream \in [Pages -> {Away, "down", "up", "refused"}]
    /\ shown \in [Pages -> View]
    /\ load \in [Loads -> {NoLoad} \cup {Asked(p) : p \in Pages} \cup Reading]
    /\ act \in [Pages -> {NoAct, Posted} \cup Posting]
    /\ holds \in SUBSET Conditions /\ snoozed \in SUBSET Keys

Read(l) == load[l] \in Reading

\* What was read as of the last change is still so.
TimesTell ==
    /\ changes = 0 => Open = {} /\ holds = {} /\ snoozed = {}
    /\ \A p \in Pages : /\ shown[p].asOf <= changes
                        /\ shown[p].asOf = changes => Current(p)
    /\ \A l \in Loads : Read(l) => /\ load[l].asOf <= changes
                                   /\ load[l].asOf = changes => UpToDate(l)

\* The causes that StaleHasCause allows, but for a load that is on its way.
Excused(p) ==
    \/ p \in missed
    \/ \E h \in Requests : handler[h] = Telling
    \/ inbox[p] > 0 \/ p \in timer
    \/ act[p].step = "posted"

Waits(p) == \E l \in Loads : load[l] = Asked(p)

\* The loads in flight for the page that have read something.
Readings(p) == {l \in Loads : Read(l) /\ load[l].page = p}

\* What the page shows, or a load is about to show it, is so, and nothing else that it
\* may show is as new as that and not so.
Behind(l, t) == load[l].asOf < t \/ UpToDate(l)
NewestIsTrue(p) ==
    \/ Current(p) /\ \A l \in Readings(p) : Behind(l, shown[p].asOf)
    \/ \E l \in Readings(p) :
         /\ UpToDate(l)
         /\ \A k \in Readings(p) : Behind(k, load[l].asOf)
         /\ shown[p].asOf < load[l].asOf \/ Current(p)

\* An open page is excused, or a load for it has yet to read, or the newest is true.
PageInv(p) == p \in OpenPages => Excused(p) \/ Waits(p) \/ NewestIsTrue(p)

CockpitInv == PageTypes /\ TimesTell /\ \A p \in Pages : PageInv(p)

\* The kinds of load differ.
LEMMA LoadsDiffer ==
    ASSUME NEW p \in Pages
    PROVE  /\ Asked(p) # NoLoad /\ Asked(p).page = p /\ Asked(p).step = "asked"
           /\ NoLoad \notin Reading /\ Asked(p) \notin Reading
           /\ \A r \in Reading : r.step # "asked"
           /\ \A q \in Pages : Asked(p) = Asked(q) => p = q
<1>1. Asked(p).page = p /\ Asked(p).step = "asked" /\ NoLoad.step = "none"
  BY DEF Asked, NoLoad
<1>2. \A r \in Reading : r.step \in {"rows", "done"}
  BY DEF Reading
<1>3. \A q \in Pages : Asked(q).page = q
  BY DEF Asked
<1>4. QED  BY <1>1, <1>2, <1>3

LEMMA InitCockpitInv == CockpitAssumption /\ Init => CockpitInv
<1> SUFFICES ASSUME CockpitAssumption, Init PROVE CockpitInv
  OBVIOUS
<1>1. /\ changes = 0 /\ holds = {} /\ snoozed = {} /\ alert = [a \in Alerts |-> NONE]
      /\ shown = [p \in Pages |-> Nothing] /\ act = [p \in Pages |-> NoAct]
      /\ stream = [p \in Pages |-> Away] /\ inbox = [p \in Pages |-> 0]
      /\ load = [l \in Loads |-> NoLoad]
  BY DEF Init, AlertsInit, PagesInit
<1>2. Nothing \in View /\ Nothing.items = {} /\ Nothing.listed = {} /\ Nothing.asOf = 0
  BY DEF Nothing, View
<1>3. PageTypes
  BY <1>1, <1>2 DEF PageTypes
<1>4. Open = {}
  BY <1>1 DEF Open, Exists
<1>5. \A l \in Loads : ~Read(l)
  <2>1. NoLoad \notin Reading
    BY DEF NoLoad, Reading
  <2>2. QED  BY <1>1, <2>1 DEF Read
<1>6. TimesTell
  BY <1>1, <1>2, <1>4, <1>5 DEF TimesTell, Current, Queue
<1>7. \A p \in Pages : PageInv(p)
  BY <1>1 DEF PageInv, OpenPages
<1>8. QED  BY <1>3, <1>6, <1>7 DEF CockpitInv

-----------------------------------------------------------------------------
\* The rows stay: what was so is so.
RowsStay == Open' = Open /\ holds' = holds /\ snoozed' = snoozed

LEMMA StillTrue ==
    ASSUME RowsStay
    PROVE  /\ Queue' = Queue
           /\ \A p : shown'[p] = shown[p] => (Current(p)' <=> Current(p))
           /\ \A l : load'[l] = load[l] => (UpToDate(l)' <=> UpToDate(l))
  BY DEF RowsStay, Queue, Current, UpToDate

LEMMA TimesKept ==
    ASSUME PageTypes, TimesTell, PageTypes', RowsStay, changes <= changes',
           \A p \in Pages : shown'[p] = shown[p] \/ shown'[p] = Nothing,
           \A l \in Loads : load'[l] = load[l] \/ ~Read(l)'
    PROVE  TimesTell'
<1>1. changes \in Nat /\ changes' \in Nat
  BY DEF PageTypes
<1>2. changes' = 0 => changes = 0
  BY <1>1
<1>3. changes' = 0 => Open' = {} /\ holds' = {} /\ snoozed' = {}
  BY <1>2 DEF TimesTell, RowsStay
<1>4. ASSUME NEW p \in Pages
      PROVE  shown'[p].asOf <= changes' /\ (shown'[p].asOf = changes' => Current(p)')
  <2>1. CASE shown'[p] = Nothing
    BY <1>1, <1>3, <2>1 DEF Nothing, Current, Queue
  <2>2. CASE shown'[p] = shown[p]
    <3>1. shown[p].asOf \in Nat
      BY DEF PageTypes, View
    <3>2. shown[p].asOf <= changes /\ (shown[p].asOf = changes => Current(p))
      BY DEF TimesTell
    <3>3. shown[p].asOf <= changes' /\ (shown[p].asOf = changes' => shown[p].asOf = changes)
      BY <1>1, <3>1, <3>2
    <3>4. QED  BY <2>2, <3>2, <3>3, StillTrue
  <2>3. QED  BY <2>1, <2>2
<1>5. ASSUME NEW l \in Loads, Read(l)'
      PROVE  load'[l].asOf <= changes' /\ (load'[l].asOf = changes' => UpToDate(l)')
  <2>1. load'[l] = load[l] /\ Read(l)
    BY <1>5 DEF Read
  <2>2. load[l].asOf \in Nat
    BY <2>1 DEF Read, Reading
  <2>3. load[l].asOf <= changes /\ (load[l].asOf = changes => UpToDate(l))
    BY <2>1 DEF TimesTell
  <2>4. load[l].asOf <= changes' /\ (load[l].asOf = changes' => load[l].asOf = changes)
    BY <1>1, <2>2, <2>3
  <2>5. QED  BY <2>1, <2>3, <2>4, StillTrue
<1>6. QED  BY <1>3, <1>4, <1>5 DEF TimesTell

\* A page that a step does not touch.
LEMMA SamePage ==
    ASSUME NEW p \in Pages, PageInv(p), RowsStay, shown'[p] = shown[p],
           \A l \in Loads : load'[l] = load[l] \/ (~Read(l) /\ load[l] # Asked(p) /\ ~Read(l)'),
           p \in OpenPages' => p \in OpenPages,
           Excused(p) => Excused(p)'
    PROVE  PageInv(p)'
<1> SUFFICES ASSUME p \in OpenPages', ~Excused(p)', ~Waits(p)'
             PROVE  NewestIsTrue(p)'
  BY DEF PageInv
<1>1. ~Waits(p)
  BY DEF Waits
<1>2. NewestIsTrue(p)
  BY <1>1 DEF PageInv
<1>3. Readings(p)' = Readings(p) /\ \A l \in Readings(p) : load'[l] = load[l]
  BY DEF Readings, Read
<1>4. \A l \in Readings(p) : \A t : Behind(l, t) => load'[l].asOf < t \/ UpToDate(l)'
  BY <1>3, StillTrue DEF Behind
<1>5. \A l \in Readings(p) : UpToDate(l) => UpToDate(l)'
  BY <1>3, StillTrue
<1>6. Current(p) => Current(p)'
  BY StillTrue
<1>7. CASE Current(p) /\ \A l \in Readings(p) : Behind(l, shown[p].asOf)
  BY <1>3, <1>4, <1>6, <1>7 DEF NewestIsTrue, Behind
<1>8. CASE \E l \in Readings(p) :
             /\ UpToDate(l)
             /\ \A k \in Readings(p) : Behind(k, load[l].asOf)
             /\ shown[p].asOf < load[l].asOf \/ Current(p)
  BY <1>3, <1>4, <1>5, <1>6, <1>8 DEF NewestIsTrue, Behind
<1>9. QED  BY <1>2, <1>7, <1>8 DEF NewestIsTrue

LEMMA QuietCockpitInv ==
    ASSUME CockpitInv, PageTypes', RowsStay, changes <= changes', load' = load, shown' = shown,
           \A p \in OpenPages' : p \in OpenPages /\ (Excused(p) => Excused(p)')
    PROVE  CockpitInv'
<1>1. TimesTell'
  BY TimesKept DEF CockpitInv
<1>2. ASSUME NEW p \in Pages PROVE PageInv(p)'
  <2>1. CASE p \in OpenPages'
    BY <2>1, SamePage DEF CockpitInv
  <2>2. CASE p \notin OpenPages'
    BY <2>2 DEF PageInv
  <2>3. QED  BY <2>1, <2>2
<1>3. QED  BY <1>1, <1>2 DEF CockpitInv

\* A change that every page open is told of, or is noted to have missed.
LEMMA ChangeCockpitInv ==
    ASSUME CockpitInv, PageTypes', changes' = changes + 1, shown' = shown,
           \A l \in Loads : load'[l] = load[l] \/ ~Read(l)',
           \A p \in OpenPages' : Excused(p)'
    PROVE  CockpitInv'
<1>1. changes \in Nat /\ changes' # 0
  BY DEF CockpitInv, PageTypes
<1>2. ASSUME NEW p \in Pages PROVE shown'[p].asOf < changes'
  <2>1. shown[p].asOf \in Nat /\ shown[p].asOf <= changes
    BY DEF CockpitInv, PageTypes, TimesTell, View
  <2>2. QED  BY <1>1, <2>1
<1>3. ASSUME NEW l \in Loads, Read(l)' PROVE load'[l].asOf < changes'
  <2>1. load'[l] = load[l] /\ Read(l)
    BY <1>3 DEF Read
  <2>2. load[l].asOf \in Nat /\ load[l].asOf <= changes
    BY <2>1 DEF CockpitInv, TimesTell, Read, Reading
  <2>3. QED  BY <1>1, <2>1, <2>2
<1>4. TimesTell'
  <2>1. \A p \in Pages : shown'[p].asOf \in Nat
    BY DEF PageTypes, View
  <2>2. \A l \in Loads : Read(l)' => load'[l].asOf \in Nat
    BY DEF Read, Reading
  <2>3. changes' \in Nat
    BY DEF PageTypes
  <2>4. \A p \in Pages : shown'[p].asOf <= changes' /\ shown'[p].asOf # changes'
    BY <1>2, <2>1, <2>3
  <2>5. \A l \in Loads : Read(l)' => load'[l].asOf <= changes' /\ load'[l].asOf # changes'
    BY <1>3, <2>2, <2>3
  <2>6. QED  BY <1>1, <2>4, <2>5 DEF TimesTell
<1>5. QED  BY <1>4 DEF CockpitInv, PageInv

\* A page starts to load, by itself or after an action.
LEMMA RunCockpitInv ==
    ASSUME CockpitInv, PageTypes', RowsStay, changes' = changes,
           NEW p \in Pages, NEW l \in Loads, load[l] = NoLoad,
           load' = [load EXCEPT ![l] = Asked(p)],
           \A q \in Pages : shown'[q] = shown[q] \/ (q = p /\ shown'[q] = Nothing),
           \A q \in OpenPages' \ {p} : q \in OpenPages /\ (Excused(q) => Excused(q)')
    PROVE  CockpitInv'
<1>1. load'[l] = Asked(p) /\ \A k \in Loads \ {l} : load'[k] = load[k]
  BY DEF CockpitInv, PageTypes
<1>2. ~Read(l) /\ ~Read(l)'
  BY <1>1, LoadsDiffer DEF Read
<1>3. TimesTell'
  <2>1. changes <= changes'
    BY DEF CockpitInv, PageTypes
  <2>2. QED  BY <1>1, <1>2, <2>1, TimesKept DEF CockpitInv
<1>4. ASSUME NEW q \in Pages \ {p} PROVE PageInv(q)'
  <2>1. load[l] # Asked(q)
    BY LoadsDiffer
  <2>2. CASE q \in OpenPages'
    BY <1>1, <1>2, <1>4, <2>1, <2>2, SamePage DEF CockpitInv
  <2>3. CASE q \notin OpenPages'
    BY <2>3 DEF PageInv
  <2>4. QED  BY <2>2, <2>3
<1>5. PageInv(p)'
  BY <1>1 DEF PageInv, Waits
<1>6. QED  BY <1>3, <1>4, <1>5 DEF CockpitInv

-----------------------------------------------------------------------------
\* The steps of a load.

\* What follows for the page of a load that goes on, and for the others, from what
\* the load has become.
LEMMA LoadCockpitInv ==
    ASSUME CockpitInv, RowsStay, NEW l \in Loads, NEW p \in Pages, NEW r \in Reading,
           load[l] = Asked(p) \/ (Read(l) /\ load[l].page = p), r.page = p,
           load' = [load EXCEPT ![l] = r],
           UNCHANGED <<stream, inbox, timer, missed, act, shown, changes, handler>>,
           \/ UpToDate(l)' /\ r.asOf = changes
           \/ Read(l) /\ r.asOf = load[l].asOf /\ (UpToDate(l) => UpToDate(l)')
    PROVE  CockpitInv'
<1>1. /\ load'[l] = r /\ \A k \in Loads \ {l} : load'[k] = load[k]
      /\ load' \in [Loads -> {NoLoad} \cup {Asked(q) : q \in Pages} \cup Reading]
      /\ Read(l)'
  BY DEF CockpitInv, PageTypes, Read
<1>2. PageTypes'
  BY <1>1 DEF CockpitInv, PageTypes, RowsStay
<1>3. changes \in Nat /\ \A k \in Loads : Read(k) => load[k].asOf \in Nat /\ load[k].asOf <= changes
  BY DEF CockpitInv, PageTypes, TimesTell, Read, Reading
<1>4. \A k \in Loads \ {l} : (Read(k)' <=> Read(k)) /\ (UpToDate(k)' <=> UpToDate(k))
  BY <1>1, StillTrue DEF Read
<1>5. \A q \in Pages : Current(q)' <=> Current(q)
  BY StillTrue
<1>6. TimesTell'
  <2>1. changes' = 0 => Open' = {} /\ holds' = {} /\ snoozed' = {}
    BY DEF CockpitInv, TimesTell, RowsStay
  <2>2. r.asOf <= changes /\ (r.asOf = changes => UpToDate(l)')
    <3>1. CASE UpToDate(l)' /\ r.asOf = changes
      BY <1>3, <3>1
    <3>2. CASE Read(l) /\ r.asOf = load[l].asOf /\ (UpToDate(l) => UpToDate(l)')
      BY <3>2 DEF CockpitInv, TimesTell
    <3>3. QED  BY <3>1, <3>2
  <2>3. ASSUME NEW k \in Loads, Read(k)'
        PROVE  load'[k].asOf <= changes' /\ (load'[k].asOf = changes' => UpToDate(k)')
    BY <1>1, <1>4, <2>2, <2>3 DEF CockpitInv, TimesTell
  <2>4. ASSUME NEW q \in Pages
        PROVE  shown'[q].asOf <= changes' /\ (shown'[q].asOf = changes' => Current(q)')
    BY <1>5 DEF CockpitInv, TimesTell
  <2>5. QED  BY <2>1, <2>3, <2>4 DEF TimesTell
<1>7. ASSUME NEW q \in Pages \ {p} PROVE PageInv(q)'
  <2>1. Readings(q)' = Readings(q) /\ l \notin Readings(q)
    BY <1>1, <1>4, LoadsDiffer DEF Readings, Read
  <2>2. Waits(q) => Waits(q)'
    BY <1>1, <1>7, LoadsDiffer DEF Waits, Read
  <2>3. Excused(q) => Excused(q)'
    BY DEF Excused
  <2>4. NewestIsTrue(q) => NewestIsTrue(q)'
    BY <1>1, <1>4, <1>5, <2>1 DEF NewestIsTrue, Behind, Readings
  <2>5. QED  BY <2>2, <2>3, <2>4 DEF CockpitInv, PageInv, OpenPages
<1>8. PageInv(p)'
  <2>1. CASE p \notin OpenPages \/ Excused(p)
    BY <2>1 DEF PageInv, OpenPages, Excused
  <2>2. CASE p \in OpenPages /\ ~Excused(p) /\ Waits(p) /\ load[l] # Asked(p)
    <3>1. Waits(p)'
      BY <1>1, <2>2 DEF Waits
    <3>2. QED  BY <3>1 DEF PageInv
  <2>3. CASE UpToDate(l)' /\ r.asOf = changes
    <3>1. l \in Readings(p)' /\ load'[l].asOf = changes
      BY <1>1, <2>3 DEF Readings
    <3>2. \A k \in Readings(p)' : load'[k].asOf < changes \/ UpToDate(k)'
      <4>1. \A k \in Readings(p)' : load'[k].asOf \in Nat /\ load'[k].asOf <= changes
        BY <1>6 DEF TimesTell, Readings, Read, Reading
      <4>2. \A k \in Readings(p)' : load'[k].asOf = changes => UpToDate(k)'
        BY <1>6 DEF TimesTell, Readings
      <4>3. QED  BY <1>3, <4>1, <4>2
    <3>3. shown'[p].asOf < changes \/ Current(p)'
      <4>1. shown[p].asOf \in Nat /\ shown[p].asOf <= changes
        BY DEF CockpitInv, TimesTell, PageTypes, View
      <4>2. shown[p].asOf = changes => Current(p)'
        BY <1>6 DEF TimesTell
      <4>3. QED  BY <1>3, <4>1, <4>2
    <3>4. NewestIsTrue(p)'
      BY <2>3, <3>1, <3>2, <3>3 DEF NewestIsTrue, Behind
    <3>5. QED  BY <3>4 DEF PageInv
  <2>4. CASE /\ p \in OpenPages /\ ~Excused(p)
             /\ Read(l) /\ r.asOf = load[l].asOf /\ (UpToDate(l) => UpToDate(l)')
    <3>1. load[l] # Asked(p)
      BY <2>4, LoadsDiffer DEF Read
    <3>2. CASE ~Waits(p)
      <4>1. NewestIsTrue(p)
        BY <2>4, <3>2 DEF CockpitInv, PageInv
      <4>2. l \in Readings(p) /\ Readings(p)' = Readings(p)
        BY <1>1, <1>4, <2>4, <3>1 DEF Readings
      <4>3. \A k \in Readings(p) : /\ load'[k].asOf = load[k].asOf
                                   /\ UpToDate(k) => UpToDate(k)'
        BY <1>1, <1>4, <2>4 DEF Readings
      <4>4. \A k \in Readings(p) : \A x : Behind(k, x) => load'[k].asOf < x \/ UpToDate(k)'
        BY <4>3 DEF Behind
      <4>5. CASE Current(p) /\ \A k \in Readings(p) : Behind(k, shown[p].asOf)
        <5>1. \A k \in Readings(p)' : Behind(k, shown[p].asOf)'
          BY <4>2, <4>4, <4>5 DEF Behind
        <5>2. QED  BY <1>5, <4>5, <5>1 DEF PageInv, NewestIsTrue
      <4>6. CASE \E w \in Readings(p) :
                   /\ UpToDate(w)
                   /\ \A k \in Readings(p) : Behind(k, load[w].asOf)
                   /\ shown[p].asOf < load[w].asOf \/ Current(p)
        <5>1. PICK w \in Readings(p) :
                /\ UpToDate(w)
                /\ \A k \in Readings(p) : Behind(k, load[w].asOf)
                /\ shown[p].asOf < load[w].asOf \/ Current(p)
          BY <4>6
        <5> DEFINE t == load[w].asOf
        <5>2. w \in Readings(p)' /\ UpToDate(w)' /\ load'[w].asOf = t
          BY <4>2, <4>3, <5>1
        <5>3. shown'[p].asOf < t \/ Current(p)'
          <6>1. shown' = shown
            OBVIOUS
          <6>2. Current(p) => Current(p)'
            BY <1>5
          <6>3. QED  BY <5>1, <6>1, <6>2
        <5>4. \A k \in Readings(p)' : load'[k].asOf < t \/ UpToDate(k)'
          BY <4>2, <4>4, <5>1
        <5>5. QED  BY <5>2, <5>3, <5>4 DEF PageInv, NewestIsTrue, Behind
      <4>7. QED  BY <4>1, <4>5, <4>6 DEF NewestIsTrue
    <3>3. QED  BY <2>2, <2>4, <3>1, <3>2
  <2>5. QED  BY <2>1, <2>3, <2>4
<1>9. QED  BY <1>2, <1>6, <1>7, <1>8 DEF CockpitInv

LEMMA ReadRowsCockpitInv ==
    ASSUME CockpitInv, NEW l \in Loads, ReadRows(l)
    PROVE  CockpitInv'
<1>1. /\ load[l].step = "asked"
      /\ load' = [load EXCEPT ![l] = [step |-> "rows", page |-> load[l].page, asOf |-> changes,
                                      found |-> Open \cup holds, listed |-> snoozed]]
      /\ UNCHANGED <<alertVars, stream, inbox, timer, missed, cockpitVars>>
  BY DEF ReadRows
<1>2. PICK p \in Pages : load[l] = Asked(p) /\ load[l].page = p
  <2>1. load[l] # NoLoad /\ load[l] \notin Reading
    BY <1>1 DEF NoLoad, Reading
  <2>2. QED  BY <2>1, LoadsDiffer DEF CockpitInv, PageTypes
<1> DEFINE r == [step |-> "rows", page |-> p, asOf |-> changes,
                 found |-> Open \cup holds, listed |-> snoozed]
<1>3. r \in Reading /\ r.page = p /\ r.asOf = changes
  BY DEF CockpitInv, PageTypes, Reading, Keys, Open
<1>4. RowsStay /\ UNCHANGED <<act, shown, changes, handler>>
  BY <1>1 DEF RowsStay, Open, Exists, alertVars, cockpitVars
<1>5. load' = [load EXCEPT ![l] = r] /\ load'[l] = r
  BY <1>1, <1>2 DEF CockpitInv, PageTypes
<1>6. UpToDate(l)'
  BY <1>4, <1>5 DEF UpToDate, RowsStay
<1> HIDE DEF r
<1>7. QED  BY <1>1, <1>2, <1>3, <1>4, <1>5, <1>6, LoadCockpitInv

LEMMA LeaveOutCockpitInv ==
    ASSUME CockpitInv, NEW l \in Loads, LeaveOutSnoozed(l)
    PROVE  CockpitInv'
<1>1. /\ load[l].step = "rows"
      /\ load' = [load EXCEPT ![l].step = "done", ![l].found = load[l].found \ snoozed]
      /\ UNCHANGED <<alertVars, stream, inbox, timer, missed, cockpitVars>>
  BY DEF LeaveOutSnoozed, CockpitInv, PageTypes
<1>2. Read(l)
  BY <1>1 DEF CockpitInv, PageTypes, Read, NoLoad, Asked
<1> DEFINE was == load[l]
           r == [was EXCEPT !.step = "done", !.found = was.found \ snoozed]
<1>3. was \in Reading
  BY <1>2 DEF Read
<1>4. /\ r \in Reading /\ r.page = was.page /\ r.asOf = was.asOf /\ was.page \in Pages
      /\ r.step = "done" /\ r.found = was.found \ snoozed /\ r.listed = was.listed
  <2> HIDE DEF was
  <2>1. QED  BY <1>3 DEF Reading
<1>5. RowsStay /\ UNCHANGED <<act, shown, changes, handler>>
  BY <1>1 DEF RowsStay, Open, Exists, alertVars, cockpitVars
<1>6. load' = [load EXCEPT ![l] = r] /\ load'[l] = r
  BY <1>1 DEF CockpitInv, PageTypes
<1> HIDE DEF r
<1>7. UpToDate(l) => UpToDate(l)'
  BY <1>1, <1>4, <1>5, <1>6 DEF UpToDate, RowsStay, Queue
<1>8. QED  BY <1>1, <1>2, <1>4, <1>5, <1>6, <1>7, LoadCockpitInv

LEMMA AnswerCockpitInv ==
    ASSUME CockpitInv, NEW l \in Loads, Answer(l)
    PROVE  CockpitInv'
<1>1. PICK was, p, v :
        /\ was = load[l] /\ p = was.page /\ was.step = "done"
        /\ v = [items |-> was.found, listed |-> was.listed, asOf |-> was.asOf]
        /\ shown' = [shown EXCEPT ![p] = v]
        /\ missed' = IF was.asOf < shown[p].asOf THEN missed \cup {p} ELSE missed
        /\ load' = [load EXCEPT ![l] = NoLoad]
        /\ UNCHANGED <<alertVars, stream, inbox, timer, holds, snoozed, act, changes>>
  BY DEF Answer
<1>2. was \in Reading
  BY <1>1 DEF CockpitInv, PageTypes, NoLoad, Asked
<1>3. Read(l) /\ p \in Pages /\ v \in View /\ was.asOf \in Nat /\ v.asOf = was.asOf
  BY <1>1, <1>2 DEF Read, Reading, View
<1>4. /\ load'[l] = NoLoad /\ \A k \in Loads \ {l} : load'[k] = load[k]
      /\ shown'[p] = v /\ \A q \in Pages \ {p} : shown'[q] = shown[q]
  BY <1>1, <1>3 DEF CockpitInv, PageTypes
<1>5. PageTypes'
  BY <1>1, <1>3 DEF CockpitInv, PageTypes
<1>6. RowsStay /\ UNCHANGED handler
  BY <1>1 DEF RowsStay, Open, Exists, alertVars
<1>7. UpToDate(l) <=> Current(p)'
  BY <1>1, <1>4, <1>6 DEF UpToDate, Current, RowsStay, Queue
<1>8. /\ ~Read(l)'
      /\ \A k \in Loads \ {l} : (Read(k)' <=> Read(k)) /\ (UpToDate(k)' <=> UpToDate(k))
      /\ \A q \in Pages \ {p} : Current(q)' <=> Current(q)
  BY <1>4, <1>6, LoadsDiffer, StillTrue DEF Read, NoLoad, Reading
<1>9. TimesTell'
  <2>1. changes' = 0 => Open' = {} /\ holds' = {} /\ snoozed' = {}
    BY <1>1, <1>6 DEF CockpitInv, TimesTell, RowsStay
  <2>2. v.asOf <= changes /\ (v.asOf = changes => Current(p)')
    BY <1>1, <1>3, <1>7 DEF CockpitInv, TimesTell
  <2>3. ASSUME NEW k \in Loads, Read(k)'
        PROVE  load'[k].asOf <= changes' /\ (load'[k].asOf = changes' => UpToDate(k)')
    BY <1>1, <1>4, <1>8, <2>3 DEF CockpitInv, TimesTell
  <2>4. ASSUME NEW q \in Pages
        PROVE  shown'[q].asOf <= changes' /\ (shown'[q].asOf = changes' => Current(q)')
    BY <1>1, <1>4, <1>8, <2>2 DEF CockpitInv, TimesTell
  <2>5. QED  BY <2>1, <2>3, <2>4 DEF TimesTell
<1>10. ASSUME NEW q \in Pages \ {p} PROVE PageInv(q)'
  <2>1. Readings(q)' = Readings(q) /\ l \notin Readings(q)
    BY <1>1, <1>4, <1>8 DEF Readings
  <2>2. Waits(q) => Waits(q)'
    BY <1>1, <1>3, <1>4, LoadsDiffer DEF Waits, Read
  <2>3. Excused(q) => Excused(q)'
    BY <1>1, <1>6 DEF Excused
  <2>4. NewestIsTrue(q) => NewestIsTrue(q)'
    BY <1>4, <1>8, <2>1 DEF NewestIsTrue, Behind, Readings
  <2>5. QED  BY <1>1, <2>2, <2>3, <2>4 DEF CockpitInv, PageInv, OpenPages
<1>11. PageInv(p)'
  <2>1. CASE p \notin OpenPages \/ Excused(p)
    BY <1>1, <1>6, <2>1 DEF PageInv, OpenPages, Excused
  <2>2. CASE Waits(p)
    <3>1. Waits(p)'
      BY <1>1, <1>3, <1>4, <2>2, LoadsDiffer DEF Waits, Read
    <3>2. QED  BY <3>1 DEF PageInv
  <2>3. CASE was.asOf < shown[p].asOf
    BY <1>1, <2>3 DEF PageInv, Excused
  <2>4. CASE NewestIsTrue(p) /\ ~(was.asOf < shown[p].asOf)
    <3>1. l \in Readings(p) /\ Readings(p)' = Readings(p) \ {l}
      BY <1>1, <1>3, <1>4, <1>8 DEF Readings
    <3>2. shown[p].asOf \in Nat /\ \A k \in Readings(p) : load[k].asOf \in Nat
      BY <1>3 DEF CockpitInv, PageTypes, View, Readings, Read, Reading
    <3>3. shown[p].asOf <= was.asOf
      BY <1>3, <2>4, <3>2
    <3>4. CASE Current(p) /\ \A k \in Readings(p) : Behind(k, shown[p].asOf)
      <4>1. UpToDate(l)
        BY <1>1, <1>3, <3>1, <3>2, <3>3, <3>4 DEF Behind
      <4>2. \A k \in Readings(p) \ {l} : load[k].asOf < was.asOf \/ UpToDate(k)
        BY <1>3, <3>2, <3>3, <3>4 DEF Behind
      <4>3. \A k \in Readings(p)' : load'[k].asOf < shown'[p].asOf \/ UpToDate(k)'
        BY <1>3, <1>4, <1>8, <3>1, <4>2 DEF Readings
      <4>4. QED  BY <1>7, <4>1, <4>3 DEF PageInv, NewestIsTrue, Behind
    <3>5. CASE \E w \in Readings(p) :
                 /\ UpToDate(w)
                 /\ \A k \in Readings(p) : Behind(k, load[w].asOf)
                 /\ shown[p].asOf < load[w].asOf \/ Current(p)
      <4>1. PICK w \in Readings(p) : /\ UpToDate(w)
                                     /\ \A k \in Readings(p) : Behind(k, load[w].asOf)
        BY <3>5
      <4>2. CASE w = l
        <5>1. \A k \in Readings(p)' : load'[k].asOf < shown'[p].asOf \/ UpToDate(k)'
          BY <1>1, <1>3, <1>4, <1>8, <3>1, <4>1, <4>2 DEF Readings, Behind
        <5>2. QED  BY <1>7, <4>1, <4>2, <5>1 DEF PageInv, NewestIsTrue, Behind
      <4>3. CASE w # l
        <5>1. w \in Readings(p)' /\ UpToDate(w)' /\ load'[w].asOf = load[w].asOf
          BY <1>4, <1>8, <3>1, <4>1, <4>3 DEF Readings
        <5>2. \A k \in Readings(p)' : load'[k].asOf < load[w].asOf \/ UpToDate(k)'
          BY <1>4, <1>8, <3>1, <4>1 DEF Readings, Behind
        <5>3. shown'[p].asOf < load[w].asOf \/ Current(p)'
          BY <1>1, <1>3, <1>4, <1>7, <3>1, <4>1 DEF Behind
        <5>4. QED  BY <5>1, <5>2, <5>3 DEF PageInv, NewestIsTrue, Behind
      <4>4. QED  BY <4>2, <4>3
    <3>6. QED  BY <2>4, <3>4, <3>5 DEF NewestIsTrue
  <2>5. QED  BY <1>3, <2>1, <2>2, <2>3, <2>4 DEF CockpitInv, PageInv
<1>12. QED  BY <1>5, <1>9, <1>10, <1>11 DEF CockpitInv

LEMMA LoadFailsCockpitInv ==
    ASSUME CockpitAssumption, CockpitInv, NEW l \in Loads, LoadFails(l)
    PROVE  CockpitInv'
<1>1. /\ load[l] # NoLoad /\ changes' = changes + 1 /\ load' = [load EXCEPT ![l] = NoLoad]
      /\ missed' = missed \cup {load[l].page}
      /\ UNCHANGED <<alertVars, stream, inbox, timer, holds, snoozed, shown, act>>
  BY DEF LoadFails, Change, ComeBack
<1>2. PICK p \in Pages : load[l] = Asked(p) \/ (Read(l) /\ load[l].page = p)
  BY <1>1 DEF CockpitInv, PageTypes, Read, Reading
<1>3. load[l].page = p
  BY <1>2, LoadsDiffer
<1>4. PageTypes' /\ changes <= changes'
  BY <1>1 DEF CockpitInv, PageTypes
<1>5. RowsStay /\ UNCHANGED handler
  BY <1>1 DEF RowsStay, Open, Exists, alertVars
<1>6. load'[l] = NoLoad /\ ~Read(l)' /\ \A k \in Loads \ {l} : load'[k] = load[k]
  BY <1>1 DEF CockpitInv, PageTypes, Read, NoLoad, Reading
<1>7. TimesTell'
  BY <1>1, <1>4, <1>5, <1>6, TimesKept DEF CockpitInv
<1>8. ASSUME NEW q \in Pages \ {p} PROVE PageInv(q)'
  <2>1. Readings(q)' = Readings(q) /\ l \notin Readings(q)
    BY <1>2, <1>6, <1>8, LoadsDiffer DEF Readings, Read
  <2>2. Waits(q) => Waits(q)'
    BY <1>2, <1>6, <1>8, LoadsDiffer DEF Waits, Read
  <2>3. Excused(q) => Excused(q)'
    BY <1>1, <1>5 DEF Excused
  <2>4. NewestIsTrue(q) => NewestIsTrue(q)'
    BY <1>1, <1>5, <1>6, <2>1, StillTrue DEF NewestIsTrue, Behind, Readings
  <2>5. QED  BY <1>1, <2>2, <2>3, <2>4 DEF CockpitInv, PageInv, OpenPages
<1>9. PageInv(p)'
  BY <1>1, <1>3 DEF PageInv, Excused
<1>10. QED  BY <1>4, <1>7, <1>8, <1>9 DEF CockpitInv

-----------------------------------------------------------------------------
\* The other actions.

\* A page action of the dispatcher, or a change nobody is told of: it reaches the
\* page that made it, or is noted as missed, and so for every other page.
LEMMA PutOffCockpitInv ==
    ASSUME CockpitInv, NEW p \in Pages, NEW keys \in SUBSET Keys, PutOff(p, keys),
           changes' = changes + 1 \/ (changes' = changes /\ keys = snoozed)
    PROVE  CockpitInv'
<1>1. /\ snoozed' = keys /\ act[p] = NoAct
      /\ \/ act' = [act EXCEPT ![p] = Posted] /\ missed' = missed \cup (OpenPages \ {p})
         \/ act' = act /\ missed' = missed \cup OpenPages
      /\ UNCHANGED <<alertVars, stream, inbox, timer, load, holds, shown>>
  BY DEF PutOff, Posted
<1>2. PageTypes'
  BY <1>1 DEF CockpitInv, PageTypes
<1>3. \A q \in OpenPages' : q \in OpenPages /\ Excused(q)'
  BY <1>1 DEF CockpitInv, PageTypes, OpenPages, Excused, Posted
<1>4. CASE changes' = changes + 1
  BY <1>1, <1>2, <1>3, <1>4, ChangeCockpitInv
<1>5. CASE changes' = changes /\ keys = snoozed
  <2>1. RowsStay
    BY <1>1, <1>5 DEF RowsStay, Open, Exists, alertVars
  <2>2. changes <= changes'
    BY <1>5 DEF CockpitInv, PageTypes
  <2>3. QED  BY <1>1, <1>2, <1>3, <2>1, <2>2, QuietCockpitInv
<1>6. QED  BY <1>4, <1>5

LEMMA SnoozeCockpitInv ==
    ASSUME CockpitInv, NEW p \in Pages, Snooze(p) \/ Unsnooze(p)
    PROVE  CockpitInv'
<1>1. snoozed \in SUBSET Keys /\ shown[p] \in View
  BY DEF CockpitInv, PageTypes
<1>2. CASE Snooze(p)
  <2>1. PICK k \in CanSnooze(p) : changes' = changes + 1 /\ PutOff(p, snoozed \cup {k})
    BY <1>2 DEF Snooze, Change, ComeBack
  <2>2. k \in Keys
    BY <1>1 DEF CanSnooze, View
  <2>3. QED  BY <1>1, <2>1, <2>2, PutOffCockpitInv
<1>3. CASE Unsnooze(p)
  <2>1. PICK k \in shown[p].listed :
          /\ changes' = changes + 1 \/ (changes' = changes /\ k \notin snoozed)
          /\ PutOff(p, snoozed \ {k})
    BY <1>3 DEF Unsnooze, ComeBack
  <2>2. k \notin snoozed => snoozed \ {k} = snoozed
    OBVIOUS
  <2>3. QED  BY <1>1, <2>1, <2>2, PutOffCockpitInv
<1>4. QED  BY <1>2, <1>3

LEMMA SilentCockpitInv ==
    ASSUME CockpitInv,
           \/ \E c \in Conditions : ConditionTurns(c)
           \/ \E k \in Keys : SnoozeRunsOut(k) \/ SnoozeElsewhere(k)
    PROVE  CockpitInv'
<1>1. /\ changes' = changes + 1 /\ missed' = missed \cup OpenPages
      /\ UNCHANGED <<stream, inbox, timer, load, shown, act>>
  BY DEF ConditionTurns, SnoozeRunsOut, SnoozeElsewhere, Silently, Change, ComeBack
<1>2. holds' \in SUBSET Conditions /\ snoozed' \in SUBSET Keys
  BY DEF ConditionTurns, SnoozeRunsOut, SnoozeElsewhere, CockpitInv, PageTypes
<1>3. PageTypes'
  BY <1>1, <1>2 DEF CockpitInv, PageTypes
<1>4. \A q \in OpenPages' : Excused(q)'
  BY <1>1 DEF OpenPages, Excused
<1>5. QED  BY <1>1, <1>3, <1>4, ChangeCockpitInv

\* A handler has changed an alert, and is about to tell.
LEMMA TellingCockpitInv ==
    ASSUME CockpitInv, AlertInv, NEW h \in Requests,
           handler' = [handler EXCEPT ![h] = Telling], changes' = changes + 1,
           act' \in [Pages -> {NoAct, Posted} \cup Posting],
           UNCHANGED <<pageVars, holds, snoozed, shown>>
    PROVE  CockpitInv'
<1>1. handler'[h] = Telling
  BY DEF AlertInv, AlertTypes
<1>2. UNCHANGED <<stream, inbox, timer, load, holds, snoozed, shown>>
  BY DEF pageVars
<1>3. PageTypes'
  BY <1>2 DEF CockpitInv, PageTypes
<1>4. QED  BY <1>1, <1>2, <1>3, ChangeCockpitInv DEF Excused

LEMMA ReportCockpitInv ==
    ASSUME CockpitInv, AlertInv, NEW h \in Requests, Report(h)
    PROVE  CockpitInv'
<1>1. UNCHANGED <<pageVars, holds, snoozed, shown, act>>
  BY DEF Report
<1>2. CASE (\E r \in Routes : FindNone(h, r)) /\ changes' = changes
  <2>1. PICK r \in Routes : handler[h] = Idle /\ handler' = [handler EXCEPT ![h] = Creating(r)]
                            /\ alert' = alert
    BY <1>2 DEF FindNone
  <2>2. \A k \in Requests : handler[k] = Telling => handler'[k] = Telling
    BY <2>1, StepsDiffer DEF AlertInv, AlertTypes
  <2>3. UNCHANGED <<stream, inbox, hot, timer, load, missed>> /\ changes' = changes
    BY <1>1, <1>2 DEF pageVars
  <2>4. PageTypes' /\ changes <= changes'
    BY <1>1, <2>3 DEF CockpitInv, PageTypes
  <2>5. RowsStay
    BY <1>1, <2>1 DEF RowsStay, Open, Exists
  <2>6. \A q \in OpenPages' : q \in OpenPages /\ (Excused(q) => Excused(q)')
    BY <1>1, <2>2, <2>3 DEF OpenPages, Excused
  <2>7. QED  BY <1>1, <2>3, <2>4, <2>5, <2>6, QuietCockpitInv
<1>3. CASE /\ CreateDeviation(h) \/ Panic(h) \/ \E a \in Alerts, s \in Statuses : SetStatus(h, a, s)
           /\ Change
  <2>1. handler' = [handler EXCEPT ![h] = Telling] /\ changes' = changes + 1
    BY <1>3 DEF CreateDeviation, Panic, SetStatus, Change, ComeBack
  <2>2. act' \in [Pages -> {NoAct, Posted} \cup Posting]
    BY <1>1 DEF CockpitInv, PageTypes
  <2>3. QED  BY <1>1, <2>1, <2>2, TellingCockpitInv
<1>4. QED  BY <1>2, <1>3 DEF Report

LEMMA AcknowledgeCockpitInv ==
    ASSUME CockpitInv, AlertInv, NEW h \in Requests, NEW p \in Pages, NEW a \in Alerts,
           Acknowledge(p, h, a)
    PROVE  CockpitInv'
<1>1. /\ handler' = [handler EXCEPT ![h] = Telling] /\ changes' = changes + 1
      /\ act' = [act EXCEPT ![p] = [step |-> "posting", by |-> h]]
      /\ UNCHANGED <<pageVars, holds, snoozed, shown>>
  BY DEF Acknowledge, SetStatus, Change, ComeBack
<1>2. [step |-> "posting", by |-> h] \in Posting
  BY DEF Posting
<1>3. act' \in [Pages -> {NoAct, Posted} \cup Posting]
  BY <1>1, <1>2 DEF CockpitInv, PageTypes
<1>4. QED  BY <1>1, <1>3, TellingCockpitInv

\* Every page that listens hears of it, or is noted to have missed it.
LEMMA FinishCockpitInv ==
    ASSUME CockpitInv, AlertInv, NEW h \in Requests, Finish(h)
    PROVE  CockpitInv'
<1>1. /\ inbox' = [p \in Pages |-> IF stream[p] = "up"
                                     THEN inbox[p] + Cardinality({"safety"} \cap Listens[p])
                                     ELSE inbox[p]]
      /\ missed' = missed \cup {p \in OpenPages : stream[p] # "up"}
      /\ act' = [p \in Pages |-> IF act[p] = [step |-> "posting", by |-> h]
                                   THEN Posted ELSE act[p]]
      /\ alert' = alert
      /\ UNCHANGED <<stream, timer, load, holds, snoozed, shown, changes>>
  BY DEF Finish, Emit, Tell, Posted
<1>2. \A p \in Pages : Cardinality({"safety"} \cap Listens[p]) = 1
  <2> SUFFICES ASSUME NEW p \in Pages PROVE Cardinality({"safety"} \cap Listens[p]) = 1
    OBVIOUS
  <2>1. {"safety"} \cap Listens[p] = {"safety"}
    BY CockpitAssumption
  <2>2. QED  BY <2>1, FS_Singleton
<1>3. \A p \in Pages : inbox[p] \in Nat
  BY DEF CockpitInv, PageTypes
<1>4. \A p \in Pages : inbox'[p] = IF stream[p] = "up" THEN inbox[p] + 1 ELSE inbox[p]
  BY <1>1, <1>2
<1>5. PageTypes'
  <2>1. inbox' \in [Pages -> Nat]
    <3>1. \A p \in Pages : inbox'[p] \in Nat
      BY <1>3, <1>4
    <3>2. QED  BY <1>1, <3>1
  <2>2. act' \in [Pages -> {NoAct, Posted} \cup Posting]
    BY <1>1 DEF CockpitInv, PageTypes
  <2>3. QED  BY <1>1, <2>1, <2>2 DEF CockpitInv, PageTypes
<1>6. RowsStay
  BY <1>1 DEF RowsStay, Open, Exists
<1>7. ASSUME NEW p \in OpenPages PROVE Excused(p)'
  <2>1. CASE stream[p] = "up"
    <3>1. p \in Pages
      BY DEF OpenPages
    <3>2. inbox'[p] = inbox[p] + 1 /\ inbox[p] \in Nat
      BY <1>3, <1>4, <2>1, <3>1
    <3>3. inbox'[p] > 0
      BY <3>2
    <3>4. QED  BY <3>3 DEF Excused
  <2>2. CASE stream[p] # "up"
    BY <1>1, <2>2 DEF Excused
  <2>3. QED  BY <2>1, <2>2
<1>8. OpenPages' = OpenPages /\ changes <= changes'
  BY <1>1 DEF OpenPages, CockpitInv, PageTypes
<1>9. QED  BY <1>1, <1>5, <1>6, <1>7, <1>8, QuietCockpitInv

LEMMA ReloadCockpitInv ==
    ASSUME CockpitInv, NEW p \in Pages, Reload(p)
    PROVE  CockpitInv'
<1>1. PICK l \in Loads : load[l] = NoLoad /\ load' = [load EXCEPT ![l] = Asked(p)]
  BY DEF Reload
<1>2. /\ act' = [act EXCEPT ![p] = NoAct] /\ missed' = missed \ {p}
      /\ UNCHANGED <<alertVars, stream, inbox, timer, holds, snoozed, shown, changes>>
  BY DEF Reload
<1>3. PageTypes'
  BY <1>1, <1>2 DEF CockpitInv, PageTypes
<1>4. RowsStay /\ UNCHANGED handler
  BY <1>2 DEF RowsStay, Open, Exists, alertVars
<1>5. \A q \in OpenPages' \ {p} : q \in OpenPages /\ (Excused(q) => Excused(q)')
  BY <1>2, <1>4 DEF OpenPages, Excused, CockpitInv, PageTypes
<1>6. QED  BY <1>1, <1>2, <1>3, <1>4, <1>5, RunCockpitInv

LEMMA MountCockpitInv ==
    ASSUME CockpitInv, NEW p \in Pages, Browse(p), Mount(p)
    PROVE  CockpitInv'
<1>1. PICK l \in Loads : load[l] = NoLoad /\ load' = [load EXCEPT ![l] = Asked(p)]
  BY DEF Mount, Run
<1>2. /\ stream' = [stream EXCEPT ![p] = "down"] /\ missed' = missed \ {p}
      /\ shown' = [shown EXCEPT ![p] = Nothing] /\ act' = [act EXCEPT ![p] = NoAct]
      /\ UNCHANGED <<inbox, timer, alertVars, holds, snoozed, changes>>
  BY DEF Mount, Run, Browse
<1>3. Nothing \in View
  BY DEF Nothing, View
<1>4. PageTypes'
  BY <1>1, <1>2, <1>3 DEF CockpitInv, PageTypes
<1>5. RowsStay /\ UNCHANGED handler
  BY <1>2 DEF RowsStay, Open, Exists, alertVars
<1>6. \A q \in OpenPages' \ {p} : q \in OpenPages /\ (Excused(q) => Excused(q)')
  BY <1>2, <1>5 DEF OpenPages, Excused, CockpitInv, PageTypes
<1>7. \A q \in Pages : shown'[q] = shown[q] \/ (q = p /\ shown'[q] = Nothing)
  BY <1>2 DEF CockpitInv, PageTypes
<1>8. QED  BY <1>1, <1>2, <1>4, <1>5, <1>6, <1>7, RunCockpitInv

LEMMA UnmountCockpitInv ==
    ASSUME CockpitInv, NEW p \in Pages, Browse(p), Unmount(p)
    PROVE  CockpitInv'
<1>1. /\ stream' = [stream EXCEPT ![p] = Away] /\ inbox' = [inbox EXCEPT ![p] = 0]
      /\ timer' = timer \ {p} /\ missed' = missed \ {p}
      /\ load' = [l \in Loads |-> IF l \in InFlight(p) THEN NoLoad ELSE load[l]]
      /\ shown' = [shown EXCEPT ![p] = Nothing] /\ act' = [act EXCEPT ![p] = NoAct]
      /\ UNCHANGED <<alertVars, holds, snoozed, changes>>
  BY DEF Unmount, Browse
<1>2. Nothing \in View
  BY DEF Nothing, View
<1>3. PageTypes' /\ changes <= changes'
  BY <1>1, <1>2 DEF CockpitInv, PageTypes
<1>4. RowsStay /\ UNCHANGED handler
  BY <1>1 DEF RowsStay, Open, Exists, alertVars
<1>5. NoLoad \notin Reading
  BY DEF NoLoad, Reading
<1>6. TimesTell'
  <2>1. \A q \in Pages : shown'[q] = shown[q] \/ shown'[q] = Nothing
    BY <1>1 DEF CockpitInv, PageTypes
  <2>2. \A l \in Loads : load'[l] = load[l] \/ ~Read(l)'
    BY <1>1, <1>5 DEF Read
  <2>3. QED  BY <1>3, <1>4, <2>1, <2>2, TimesKept DEF CockpitInv
<1>7. ASSUME NEW q \in Pages \ {p} PROVE PageInv(q)'
  <2>1. ASSUME NEW l \in Loads, l \in InFlight(p) PROVE load[l].page = p /\ load[l] # Asked(q)
    BY <2>1, LoadsDiffer DEF InFlight
  <2>2. Readings(q)' = Readings(q) /\ \A l \in Readings(q) : load'[l] = load[l]
    BY <1>1, <1>5, <2>1 DEF Readings, Read
  <2>3. Waits(q) => Waits(q)'
    BY <1>1, <2>1 DEF Waits
  <2>4. Excused(q) => Excused(q)'
    BY <1>1, <1>4 DEF Excused, CockpitInv, PageTypes
  <2>5. shown'[q] = shown[q] /\ (q \in OpenPages' => q \in OpenPages)
    BY <1>1 DEF CockpitInv, PageTypes, OpenPages
  <2>6. NewestIsTrue(q) => NewestIsTrue(q)'
    BY <1>4, <2>2, <2>5, StillTrue DEF NewestIsTrue, Behind
  <2>7. QED  BY <2>3, <2>4, <2>5, <2>6 DEF CockpitInv, PageInv
<1>8. PageInv(p)'
  BY <1>1 DEF CockpitInv, PageTypes, PageInv, OpenPages
<1>9. QED  BY <1>3, <1>6, <1>7, <1>8 DEF CockpitInv

LEMMA RestartCockpitInv ==
    ASSUME CockpitInv, Restart
    PROVE  CockpitInv'
<1>1. /\ changes' = changes + 1
      /\ load' = [l \in Loads |-> NoLoad] /\ act' = [p \in Pages |-> NoAct]
      /\ missed' = missed \cup OpenPages
      /\ stream' = [p \in Pages |-> IF p \in Pages /\ stream[p] = "up" THEN "down" ELSE stream[p]]
      /\ inbox' = [p \in Pages |-> IF p \in Pages THEN 0 ELSE inbox[p]]
      /\ UNCHANGED <<timer, holds, snoozed, shown>>
  BY DEF Restart, Change, ComeBack, Cut
<1>2. PageTypes'
  BY <1>1 DEF CockpitInv, PageTypes
<1>3. ASSUME NEW q \in OpenPages' PROVE Excused(q)'
  <2>1. q \in Pages /\ stream'[q] # Away
    BY <1>3 DEF OpenPages
  <2>2. stream'[q] = IF stream[q] = "up" THEN "down" ELSE stream[q]
    BY <1>1, <2>1
  <2>3. stream[q] # Away
    BY <2>1, <2>2 DEF Away
  <2>4. q \in missed'
    BY <1>1, <2>1, <2>3 DEF OpenPages
  <2>5. QED  BY <2>4 DEF Excused
<1>4. \A l \in Loads : ~Read(l)'
  BY <1>1 DEF Read, NoLoad, Reading
<1>5. QED  BY <1>1, <1>2, <1>3, <1>4, ChangeCockpitInv

LEMMA DropCockpitInv ==
    ASSUME CockpitInv, NEW p \in Pages, Drop(p), Change,
           UNCHANGED <<alertVars, holds, snoozed, shown, act>>
    PROVE  CockpitInv'
<1>1. /\ stream[p] = "up" /\ changes' = changes + 1
      /\ stream' = [q \in Pages |-> IF q \in {p} /\ stream[q] = "up" THEN "down" ELSE stream[q]]
      /\ inbox' = [q \in Pages |-> IF q \in {p} THEN 0 ELSE inbox[q]]
      /\ missed' = IF inbox[p] > 0 THEN missed \cup {p} ELSE missed
      /\ UNCHANGED <<timer, load>>
  BY DEF Drop, Cut, Change, ComeBack
<1>2. PageTypes' /\ changes <= changes'
  BY <1>1 DEF CockpitInv, PageTypes
<1>3. RowsStay /\ UNCHANGED handler
  BY DEF RowsStay, Open, Exists, alertVars
<1>4. \A q \in OpenPages' : q \in OpenPages /\ (Excused(q) => Excused(q)')
  BY <1>1, <1>3 DEF OpenPages, Excused, Away
<1>5. QED  BY <1>1, <1>2, <1>3, <1>4, QuietCockpitInv

\* What the page does by itself.
LEMMA PageStepCockpitInv ==
    ASSUME CockpitInv, PageStep, UNCHANGED <<alertVars, cockpitVars>>
    PROVE  CockpitInv'
<1>1. RowsStay /\ UNCHANGED <<handler, holds, snoozed, shown, act, changes>>
  BY DEF RowsStay, Open, Exists, alertVars, cockpitVars
<1>2. changes <= changes'
  BY <1>1 DEF CockpitInv, PageTypes
<1>3. PICK p \in Pages :
        Connect(p) \/ Refuse(p) \/ Hear(p) \/ Fire(p) \/ Fallback(p) \/ Cool(p)
  BY DEF PageStep
<1>4. inbox' \in [Pages -> Nat]
  BY <1>3 DEF Connect, Refuse, Hear, Fire, Fallback, Cool, CockpitInv, PageTypes
<1>5. /\ stream' \in [Pages -> {Away, "down", "up", "refused"}]
      /\ OpenPages' = OpenPages
  BY <1>3 DEF Connect, Refuse, Hear, Fire, Fallback, Cool, CockpitInv, PageTypes, OpenPages, Away
<1>6. \A q \in Pages \ {p} : inbox'[q] = inbox[q] /\ (q \in timer => q \in timer')
                             /\ (q \in missed => q \in missed')
  BY <1>3 DEF Connect, Refuse, Hear, Fire, Fallback, Cool, Run, CockpitInv, PageTypes
<1>7. \A q \in Pages \ {p} : Excused(q) => Excused(q)'
  BY <1>1, <1>6 DEF Excused
<1>8. CASE Run(p)
  <2>1. PICK l \in Loads : load[l] = NoLoad /\ load' = [load EXCEPT ![l] = Asked(p)]
    BY <1>8 DEF Run
  <2>2. PageTypes'
    BY <1>1, <1>4, <1>5, <2>1 DEF CockpitInv, PageTypes
  <2>3. \A q \in OpenPages' \ {p} : q \in OpenPages /\ (Excused(q) => Excused(q)')
    BY <1>5, <1>7 DEF OpenPages
  <2>4. QED  BY <1>1, <2>1, <2>2, <2>3, RunCockpitInv
<1>9. CASE load' = load /\ (p \in missed => p \in missed')
           /\ (p \in timer \/ inbox[p] > 0 => p \in timer' \/ inbox'[p] > 0)
  <2>1. PageTypes'
    BY <1>1, <1>4, <1>5, <1>9 DEF CockpitInv, PageTypes
  <2>2. Excused(p) => Excused(p)'
    BY <1>1, <1>9 DEF Excused
  <2>3. \A q \in OpenPages' : q \in OpenPages /\ (Excused(q) => Excused(q)')
    BY <1>5, <1>7, <2>2 DEF OpenPages
  <2>4. QED  BY <1>1, <1>2, <1>9, <2>1, <2>3, QuietCockpitInv
<1>10. QED
  BY <1>3, <1>8, <1>9 DEF Connect, Refuse, Hear, Fire, Fallback, Cool

LEMMA StepCockpitInv ==
    ASSUME CockpitInv, AlertInv, [Next]_vars
    PROVE  CockpitInv'
<1>1. CASE \E h \in Requests : Report(h) \/ Finish(h)
             \/ \E p \in Pages, a \in Alerts : Acknowledge(p, h, a)
  BY <1>1, ReportCockpitInv, FinishCockpitInv, AcknowledgeCockpitInv
<1>2. CASE \E p \in Pages : Snooze(p) \/ Unsnooze(p) \/ Reload(p) \/ Browse(p)
  BY <1>2, SnoozeCockpitInv, ReloadCockpitInv, MountCockpitInv, UnmountCockpitInv DEF Browse
<1>3. CASE \E l \in Loads : Serve(l) \/ Answer(l) \/ LoadFails(l)
  BY <1>3, CockpitAssumption, ReadRowsCockpitInv, LeaveOutCockpitInv, AnswerCockpitInv,
     LoadFailsCockpitInv DEF Serve
<1>4. CASE \/ \E c \in Conditions : ConditionTurns(c)
           \/ \E k \in Keys : SnoozeRunsOut(k) \/ SnoozeElsewhere(k)
  BY <1>4, SilentCockpitInv
<1>5. CASE Restart
  BY <1>5, RestartCockpitInv
<1>6. CASE /\ \E p \in Pages : Drop(p)
           /\ Change /\ UNCHANGED <<alertVars, holds, snoozed, shown, act>>
  BY <1>6, DropCockpitInv
<1>7. CASE PageStep /\ UNCHANGED <<alertVars, cockpitVars>>
  BY <1>7, PageStepCockpitInv
<1>8. CASE UNCHANGED vars
  <2>1. UNCHANGED <<alert, handler, stream, inbox, timer, load, missed, cockpitVars>>
    BY <1>8 DEF vars, alertVars, pageVars
  <2>2. UNCHANGED <<holds, snoozed, shown, act, changes>>
    BY <2>1 DEF cockpitVars
  <2>3. RowsStay
    BY <2>1, <2>2 DEF RowsStay, Open, Exists
  <2>4. PageTypes' /\ changes <= changes'
    BY <2>1, <2>2 DEF CockpitInv, PageTypes
  <2>5. \A q \in OpenPages' : q \in OpenPages /\ (Excused(q) => Excused(q)')
    BY <2>1, <2>2 DEF OpenPages, Excused
  <2>6. QED  BY <2>1, <2>2, <2>3, <2>4, <2>5, QuietCockpitInv
<1>9. QED  BY <1>1, <1>2, <1>3, <1>4, <1>5, <1>6, <1>7, <1>8 DEF Next

\* For any alerts, routes, conditions, pages and loads: a page that shows something else
\* than the rows is about to be put right, or has missed what no event tells and waits
\* for the slow poll.  The bus and the throttle of the page lose nothing in between.
THEOREM StalePagesHaveCause ==
    Spec => []StaleHasCause
<1>1. Init => CockpitInv
  BY CockpitAssumption, InitCockpitInv
<1>2. CockpitInv => StaleHasCause
  <2> SUFFICES ASSUME CockpitInv, NEW p \in OpenPages
               PROVE  \/ Current(p) \/ Excused(p)
                      \/ \E l \in InFlight(p) : UpToDate(l)
    BY DEF StaleHasCause, Excused
  <2>1. p \in Pages
    BY DEF OpenPages
  <2>2. Excused(p) \/ Waits(p) \/ NewestIsTrue(p)
    BY <2>1 DEF CockpitInv, PageInv
  <2>3. CASE Waits(p)
    <3>1. PICK l \in Loads : load[l] = Asked(p)
      BY <2>3 DEF Waits
    <3>2. l \in InFlight(p) /\ load[l].step = "asked"
      BY <2>1, <3>1, LoadsDiffer DEF InFlight
    <3>3. QED  BY <3>2 DEF UpToDate
  <2>4. CASE NewestIsTrue(p)
    <3>1. Readings(p) \subseteq InFlight(p)
      BY <2>1, LoadsDiffer DEF Readings, Read, InFlight
    <3>2. QED  BY <2>4, <3>1 DEF NewestIsTrue
  <2>5. QED  BY <2>2, <2>3, <2>4
<1>3. QED  BY <1>1, <1>2, StepCockpitInv, AlertInvHolds, PTL DEF Spec
=============================================================================
