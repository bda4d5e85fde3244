------------------------------ MODULE Cockpit ------------------------------
(***************************************************************************)
(* The dispatcher's cockpit: the queue of exceptions that                  *)
(* services/exceptions.ts computes from the rows each time it is asked     *)
(* for, the exceptions put off (SnoozedException), and the page            *)
(* Excepciones.tsx that shows both and is kept up to date by the realtime  *)
(* bus.                                                                    *)
(*                                                                         *)
(* An exception is named by its key: an open alert by its id, and the      *)
(* others (a late route, a silent vehicle, a low battery, a failed         *)
(* delivery, an SLA, addresses to confirm, papers to renew) by a condition *)
(* that comes and goes without an event of its own.                        *)
(***************************************************************************)
EXTENDS SafetyAlerts, LivePage

CONSTANTS
    Conditions,
    MaxChanges   \* bound on the changes to the rows

ASSUME CockpitAssumption ==
    /\ Conditions \cap Alerts = {} /\ MaxChanges \in Nat
    /\ \A p \in Pages : "safety" \in Listens[p]

VARIABLES
    holds,     \* the conditions there are
    snoozed,   \* the SnoozedException rows that have not run out
    shown,     \* what each page shows: its queue, its list of the put off, and
               \* how many changes there had been when that was first read
    act,       \* the request each page has made and waits for
    changes    \* the changes so far

cockpitVars == <<holds, snoozed, shown, act, changes>>
vars == <<alertVars, pageVars, cockpitVars>>

Keys == Alerts \cup Conditions
PanicAlerts == {a \in Alerts : Exists(a) /\ alert[a].about = PANIC}
Queue == (Open \cup holds) \ snoozed
Nothing == [items |-> {}, listed |-> {}, asOf |-> 0]
NoAct == [step |-> "none"]

Init ==
    /\ AlertsInit /\ PagesInit
    /\ holds = {} /\ snoozed = {}
    /\ shown = [p \in Pages |-> Nothing]
    /\ act = [p \in Pages |-> NoAct]
    /\ changes = 0

\* Every change to the rows is counted.  What was put off comes back once, which
\* needs no bound.
ComeBack == changes' = changes + 1
Change == changes < MaxChanges /\ ComeBack

-----------------------------------------------------------------------------
\* GET /exceptions.  computeExceptions reads the rows; the list of the put off
\* is asked for at the same time.
ReadRows(l) ==
    /\ load[l].step = "asked"
    /\ load' = [load EXCEPT ![l] = [step |-> "rows", page |-> @.page, asOf |-> changes,
                                    found |-> Open \cup holds, listed |-> snoozed]]
    /\ UNCHANGED <<alertVars, stream, inbox, hot, timer, missed, cockpitVars>>

\* Its last query: the put off are left out of the queue.
LeaveOutSnoozed(l) ==
    /\ load[l].step = "rows"
    /\ load' = [load EXCEPT ![l].step = "done", ![l].found = @ \ snoozed]
    /\ UNCHANGED <<alertVars, stream, inbox, hot, timer, missed, cockpitVars>>

\* load() of the page shows the answer, also when it is older than what it shows.
Answer(l) ==
    /\ load[l].step = "done"
    /\ LET p == load[l].page IN
         /\ shown' = [shown EXCEPT ![p] = [items |-> load[l].found, listed |-> load[l].listed,
                                           asOf |-> load[l].asOf]]
         /\ missed' = IF load[l].asOf < shown[p].asOf THEN missed \cup {p} ELSE missed
    /\ load' = [load EXCEPT ![l] = NoLoad]
    /\ UNCHANGED <<alertVars, stream, inbox, hot, timer, holds, snoozed, act, changes>>

\* A load that fails is left to the slow poll.
LoadFails(l) ==
    /\ load[l] # NoLoad
    /\ Change
    /\ load' = [load EXCEPT ![l] = NoLoad]
    /\ missed' = missed \cup {load[l].page}
    /\ UNCHANGED <<alertVars, stream, inbox, hot, timer, holds, snoozed, shown, act>>

-----------------------------------------------------------------------------
\* The dispatcher's actions: a request, and a load when it has been answered.

\* runAction on an alert: PATCH /safety/alerts/:id.
Acknowledge(p, h, a) ==
    /\ stream[p] # Away /\ act[p] = NoAct
    /\ a \in shown[p].items
    /\ SetStatus(h, a, "ATTENDED")
    /\ Change
    /\ act' = [act EXCEPT ![p] = [step |-> "posting", by |-> h]]
    /\ UNCHANGED <<pageVars, holds, snoozed, shown>>

\* The page puts off any exception but a panic, one action at a time here: the page
\* itself only keeps the buttons of one exception from being pressed again.
CanSnooze(p) == shown[p].items \ PanicAlerts

\* POST and DELETE /exceptions/snooze: no event tells the other pages.  The
\* answer may be lost.
PutOff(p, keys) ==
    /\ stream[p] # Away /\ act[p] = NoAct
    /\ snoozed' = keys
    /\ \/ act' = [act EXCEPT ![p] = [step |-> "posted"]] /\ missed' = missed \cup (OpenPages \ {p})
       \/ UNCHANGED act /\ missed' = missed \cup OpenPages
    /\ UNCHANGED <<alertVars, stream, inbox, hot, timer, load, holds, shown>>

Snooze(p) == \E k \in CanSnooze(p) : Change /\ PutOff(p, snoozed \cup {k})
Unsnooze(p) ==
    \E k \in shown[p].listed :
        /\ IF k \in snoozed THEN ComeBack ELSE UNCHANGED changes
        /\ PutOff(p, snoozed \ {k})

\* `await load()`.
Reload(p) ==
    /\ act[p].step = "posted"
    /\ \E l \in Loads : load[l] = NoLoad /\ load' = [load EXCEPT ![l] = Asked(p)]
    /\ act' = [act EXCEPT ![p] = NoAct]
    /\ missed' = missed \ {p}
    /\ UNCHANGED <<alertVars, stream, inbox, hot, timer, holds, snoozed, shown, changes>>

-----------------------------------------------------------------------------
\* The rest of the system.

\* Rows that change by themselves, or by requests that emit nothing the page
\* waits for: a condition comes or goes, a put-off exception comes back.
Silently ==
    /\ missed' = missed \cup OpenPages
    /\ UNCHANGED <<alertVars, stream, inbox, hot, timer, load, shown, act>>

ConditionTurns(c) ==
    /\ holds' = IF c \in holds THEN holds \ {c} ELSE holds \cup {c}
    /\ Change /\ UNCHANGED snoozed /\ Silently

SnoozeRunsOut(k) ==
    /\ k \in snoozed /\ snoozed' = snoozed \ {k}
    /\ ComeBack /\ UNCHANGED holds /\ Silently

\* The API puts off what any other client names, an open panic too.
SnoozeElsewhere(k) ==
    /\ k \in Open \cap PanicAlerts
    /\ snoozed' = snoozed \cup {k}
    /\ Change /\ UNCHANGED holds /\ Silently

\* Positions, panics and dispatchers on other pages.
Report(h) ==
    /\ \/ (\E r \in Routes : FindNone(h, r)) /\ UNCHANGED changes
       \/ CreateDeviation(h) /\ Change
       \/ Panic(h) /\ Change
       \/ (\E a \in Alerts, s \in Statuses : SetStatus(h, a, s)) /\ Change
    /\ UNCHANGED <<pageVars, holds, snoozed, shown, act>>

\* A handler's last step: the event, and the answer to whoever asked.
Finish(h) ==
    /\ Tell(h)
    /\ Emit({"safety"})
    /\ act' = [p \in Pages |-> IF act[p] = [step |-> "posting", by |-> h]
                                 THEN [step |-> "posted"] ELSE act[p]]
    /\ UNCHANGED <<stream, hot, timer, load, holds, snoozed, shown, changes>>

\* closeAllStreams, or a crash: the subscribers and the requests in flight go.
Restart ==
    /\ Change
    /\ CutHandlers /\ Cut(Pages)
    /\ load' = [l \in Loads |-> NoLoad]
    /\ act' = [p \in Pages |-> NoAct]
    /\ missed' = missed \cup OpenPages
    /\ UNCHANGED <<hot, timer, holds, snoozed, shown>>

Browse(p) ==
    /\ Mount(p) \/ Unmount(p)
    /\ shown' = [shown EXCEPT ![p] = Nothing]
    /\ act' = [act EXCEPT ![p] = NoAct]
    /\ UNCHANGED <<alertVars, holds, snoozed, changes>>

Serve(l) == ReadRows(l) \/ LeaveOutSnoozed(l)

Next ==
    \/ \E h \in Requests :
         \/ Report(h) \/ Finish(h)
         \/ \E p \in Pages, a \in Alerts : Acknowledge(p, h, a)
    \/ \E p \in Pages : Snooze(p) \/ Unsnooze(p) \/ Reload(p) \/ Browse(p)
    \/ \E l \in Loads : Serve(l) \/ Answer(l) \/ LoadFails(l)
    \/ \E c \in Conditions : ConditionTurns(c)
    \/ \E k \in Keys : SnoozeRunsOut(k) \/ SnoozeElsewhere(k)
    \/ Restart
    \/ (\E p \in Pages : Drop(p)) /\ Change /\ UNCHANGED <<alertVars, holds, snoozed, shown, act>>
    \/ PageStep /\ UNCHANGED <<alertVars, cockpitVars>>

\* Requests end, timers fire, the slow poll goes on for as long as a page is open.
Fairness ==
    /\ \A h \in Requests : WF_vars(Finish(h))
    /\ \A l \in Loads : WF_vars(Serve(l)) /\ WF_vars(Answer(l))
    /\ \A p \in Pages : WF_vars(Fallback(p) /\ UNCHANGED <<alertVars, cockpitVars>>)

Spec == Init /\ [][Next]_vars /\ Fairness

-----------------------------------------------------------------------------
\* Properties.

\* What the reads of a load have found so far is still so.
UpToDate(l) ==
    /\ load[l].step = "rows" => load[l].found = Open \cup holds
    /\ load[l].step = "done" => load[l].found = Queue
    /\ load[l].step # "asked" => load[l].listed = snoozed

Current(p) == shown[p].items = Queue /\ shown[p].listed = snoozed

\* A page that shows something else than the rows is about to be put right: a
\* handler has still to emit, an event is on its way, a reload is put off, in
\* flight, or due after the page's own action; or the page has missed what no
\* event tells and waits for the slow poll.  The bus and the throttle lose
\* nothing in between.
StaleHasCause ==
    \A p \in OpenPages :
        \/ Current(p)
        \/ p \in missed
        \/ \E h \in Requests : handler[h] = Telling
        \/ inbox[p] > 0 \/ p \in timer
        \/ \E l \in InFlight(p) : UpToDate(l)
        \/ act[p].step = "posted"

\* A panic reaches the screen of a dispatcher who keeps the page open, if nobody
\* attends it before or puts it off past the page: streams that break, events that
\* are lost, loads that overtake each other and what the page puts off do not hide it.
PanicReachesScreen ==
    \A p \in Pages, a \in Alerts :
        (stream[p] # Away /\ a \in Open \cap PanicAlerts)
            ~> (stream[p] = Away \/ a \notin Open \/ a \in snoozed \/ a \in shown[p].items)
=============================================================================
