------------------------------ MODULE LivePage ------------------------------
(***************************************************************************)
(* The realtime bus of services/realtime.ts and the pages that live on it  *)
(* (useRealtimeReload in apps/web/src/realtime.ts).  The bus is a set of   *)
(* subscribers in the memory of the one container that serves streams: an  *)
(* event reaches the pages whose stream is up, and nobody keeps it for the *)
(* others.  A page reloads when it is opened, when it hears an event it    *)
(* listens to (at once, or at the end of the throttle window) and every    *)
(* fallbackMs.                                                             *)
(*                                                                         *)
(* What a load reads and shows is left to the module that composes this    *)
(* one: here a load is in flight or not.                                   *)
(***************************************************************************)
EXTENDS Naturals, FiniteSets

CONSTANTS
    Pages,
    Loads,      \* bound on the loads in flight
    Listens     \* the events each page listens to

VARIABLES
    stream,     \* the EventSource of each page, and its subscription
    inbox,      \* the events on their way to it
    hot,        \* the pages inside the throttle window
    timer,      \* the pages with a reload put off to the end of it
    load,       \* the loads in flight
    missed      \* history: the pages that something they show has changed for,
                \* since they last reloaded, and that no event will tell

pageVars == <<stream, inbox, hot, timer, load, missed>>

NoLoad == [step |-> "none"]
Asked(p) == [step |-> "asked", page |-> p]
Away == "away"
OpenPages == {p \in Pages : stream[p] # Away}
InFlight(p) == {l \in Loads : load[l] # NoLoad /\ load[l].page = p}

PagesInit ==
    /\ stream = [p \in Pages |-> Away]
    /\ inbox = [p \in Pages |-> 0]
    /\ hot = {} /\ timer = {}
    /\ load = [l \in Loads |-> NoLoad]
    /\ missed = {}

-----------------------------------------------------------------------------
\* The bus.

\* emitTenant: what each subscriber that listens to one of the events gets.
Emit(events) ==
    /\ inbox' = [p \in Pages |-> IF stream[p] = "up"
                                   THEN inbox[p] + Cardinality(events \cap Listens[p])
                                   ELSE inbox[p]]
    /\ missed' = missed \cup {p \in OpenPages : stream[p] # "up"}

\* The streams end, and what was on its way with them: the browser connects again.
Cut(pages) ==
    /\ stream' = [p \in Pages |-> IF p \in pages /\ stream[p] = "up" THEN "down" ELSE stream[p]]
    /\ inbox' = [p \in Pages |-> IF p \in pages THEN 0 ELSE inbox[p]]

\* GET /realtime/stream: the subscription, once the token and the tenant have
\* been looked at.
Connect(p) ==
    /\ stream[p] = "down"
    /\ stream' = [stream EXCEPT ![p] = "up"]
    /\ UNCHANGED <<inbox, hot, timer, load, missed>>

\* ... or a refusal (an expired token, a suspended tenant), after which the
\* browser does not connect again.
Refuse(p) ==
    /\ stream[p] = "down"
    /\ stream' = [stream EXCEPT ![p] = "refused"]
    /\ UNCHANGED <<inbox, hot, timer, load, missed>>

\* A connection that breaks: safeWrite and the listeners of openSseStream take
\* the subscriber out.
Drop(p) ==
    /\ stream[p] = "up"
    /\ Cut({p})
    /\ missed' = IF inbox[p] > 0 THEN missed \cup {p} ELSE missed
    /\ UNCHANGED <<hot, timer, load>>

-----------------------------------------------------------------------------
\* useRealtimeReload.

\* run(): remembers when, and reloads.
Run(p) ==
    /\ \E l \in Loads : load[l] = NoLoad /\ load' = [load EXCEPT ![l] = Asked(p)]
    /\ hot' = hot \cup {p}
    /\ missed' = missed \ {p}

\* The page is opened: it loads, and then asks for its stream.
Mount(p) ==
    /\ stream[p] = Away
    /\ Run(p)
    /\ stream' = [stream EXCEPT ![p] = "down"]
    /\ UNCHANGED <<inbox, timer>>

\* The page is left: its stream, its interval and its timer end, and the answers
\* still to come have nowhere to go.
Unmount(p) ==
    /\ stream[p] # Away
    /\ stream' = [stream EXCEPT ![p] = Away]
    /\ inbox' = [inbox EXCEPT ![p] = 0]
    /\ hot' = hot \ {p} /\ timer' = timer \ {p} /\ missed' = missed \ {p}
    /\ load' = [l \in Loads |-> IF l \in InFlight(p) THEN NoLoad ELSE load[l]]

HearThrottled(p) ==
    /\ inbox[p] > 0
    /\ inbox' = [inbox EXCEPT ![p] = @ - 1]
    /\ IF p \notin hot THEN Run(p) ELSE UNCHANGED <<hot, load, missed>>
    /\ UNCHANGED <<stream, timer>>

\* onEvent.
Hear(p) ==
    /\ inbox[p] > 0
    /\ inbox' = [inbox EXCEPT ![p] = @ - 1]
    /\ IF p \notin hot THEN Run(p) /\ UNCHANGED timer
       ELSE timer' = timer \cup {p} /\ UNCHANGED <<hot, load, missed>>
    /\ UNCHANGED stream

\* The put-off reload.
Fire(p) ==
    /\ p \in timer
    /\ timer' = timer \ {p}
    /\ Run(p)
    /\ UNCHANGED <<stream, inbox>>

FallbackOnlyWhenUp(p) ==
    /\ stream[p] = "up"
    /\ Run(p)
    /\ UNCHANGED <<stream, inbox, timer>>

\* The slow poll.
Fallback(p) ==
    /\ stream[p] # Away
    /\ Run(p)
    /\ UNCHANGED <<stream, inbox, timer>>

\* throttleMs have passed since the last run.
Cool(p) ==
    /\ p \in hot
    /\ hot' = hot \ {p}
    /\ UNCHANGED <<stream, inbox, timer, load, missed>>

\* What the page does by itself, whatever it shows.
PageStep ==
    \E p \in Pages :
        Connect(p) \/ Refuse(p) \/ Hear(p) \/ Fire(p) \/ Fallback(p) \/ Cool(p)
=============================================================================
