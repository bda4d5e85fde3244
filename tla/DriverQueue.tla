---------------------------- MODULE DriverQueue ----------------------------
(***************************************************************************)
(* The offline queue of the driver's app, apps/driver/src/api.ts:          *)
(* apiOrQueue, flushQueue, retryAction and discardAction over the queue in *)
(* localStorage, which survives the page.                                  *)
(*                                                                         *)
(* The page runs one thing at a time and gives way only at the await of a  *)
(* request.  So a step here goes from one await to the next: everything a  *)
(* flush does between two answers is one action.                           *)
(***************************************************************************)
EXTENDS Naturals, Sequences, SequencesExt

CONSTANTS
    Actions,    \* what the driver does once each: an arrival, a delivery, ...
    MaxFaults   \* bound on the answers lost and the pages killed

ASSUME MaxFaultsAssumption == MaxFaults \in Nat

VARIABLES
    queue,     \* localStorage: a sequence of entries
    elapsed,   \* the actions whose nextAttemptAt has passed
    flush,     \* the flush in progress: what is left of its copy of the queue
               \* (todo), what it will write back (kept) and what was due when
               \* it began (now)
    live,      \* the call of apiOrQueue for each action
    faults,    \* answers lost and pages killed so far
    executed,  \* history: the actions the server carried out
    discarded, \* history: the actions the driver discarded
    settled    \* history: the actions queued while no flush was in progress

vars == <<queue, elapsed, flush, live, faults, executed, discarded, settled>>

NoFlush == [on |-> FALSE, todo |-> <<>>, kept |-> <<>>, now |-> {}]

InQueue(a) == \E i \in DOMAIN queue : queue[i].act = a

\* What becomes of a request: the server carried it out or not (an error may
\* come after a commit), and the app gets the answer, an error or nothing.
Outcome == [ran : {TRUE}, answer : {"ok"}]
           \cup [ran : BOOLEAN, answer : {"network", "error"}]

Init ==
    /\ queue = <<>>
    /\ elapsed = {}
    /\ flush = NoFlush
    /\ live = [a \in Actions |-> "new"]
    /\ faults = 0
    /\ executed = {} /\ discarded = {} /\ settled = {}

\* The effects of an outcome that do not depend on who made the request.
Answered(a, o) ==
    /\ o.answer = "network" => faults < MaxFaults
    /\ faults' = IF o.answer = "network" THEN faults + 1 ELSE faults
    /\ executed' = IF o.ran THEN executed \cup {a} ELSE executed

-----------------------------------------------------------------------------
\* apiOrQueue.

Call(a) ==
    /\ live[a] = "new"
    /\ live' = [live EXCEPT ![a] = "sent"]
    /\ UNCHANGED <<queue, elapsed, flush, faults, executed, discarded, settled>>

\* Only a network failure queues the action; an error is shown to the driver.
CallAnswer(a, o) ==
    /\ live[a] = "sent"
    /\ Answered(a, o)
    /\ live' = [live EXCEPT ![a] = IF o.answer = "network" THEN "queued" ELSE o.answer]
    /\ IF o.answer = "network"
       THEN /\ queue' = Append(queue, [act |-> a, status |-> "PENDING"])
            /\ elapsed' = elapsed \cup {a}
            /\ settled' = IF flush.on THEN settled ELSE settled \cup {a}
       ELSE UNCHANGED <<queue, elapsed, settled>>
    /\ UNCHANGED <<flush, discarded>>

-----------------------------------------------------------------------------
\* flushQueue.

\* Entries in ERROR, or still in backoff when the flush began, are kept without
\* being sent: how many come before the next one to send.
ToSend(entry, now) == entry.status = "PENDING" /\ entry.act \in now
Skipped(todo, now) ==
    CHOOSE n \in 0..Len(todo) :
        /\ \A i \in 1..n : ~ToSend(todo[i], now)
        /\ n < Len(todo) => ToSend(todo[n + 1], now)

\* Go to the next entry to send or, at the end, write back what was kept.
AdvanceForever(todo, kept, now) ==
    LET n == Skipped(todo, now)
        rest == SubSeq(todo, n + 1, Len(todo))
        all == kept \o SubSeq(todo, 1, n)
    IN IF rest = <<>>
       THEN queue' = all /\ flush' = [NoFlush EXCEPT !.on = TRUE]
       ELSE queue' = queue /\ flush' = [on |-> TRUE, todo |-> rest, kept |-> all, now |-> now]

Advance(todo, kept, now) ==
    LET n == Skipped(todo, now)
        rest == SubSeq(todo, n + 1, Len(todo))
        all == kept \o SubSeq(todo, 1, n)
    IN IF rest = <<>>
       THEN queue' = all /\ flush' = NoFlush
       ELSE queue' = queue /\ flush' = [on |-> TRUE, todo |-> rest, kept |-> all, now |-> now]

\* From the "online" event and from the timer of the queue's panel.
FlushStart ==
    /\ ~flush.on
    /\ queue # <<>>
    /\ Advance(queue, <<>>, elapsed)
    /\ UNCHANGED <<elapsed, live, faults, executed, discarded, settled>>

\* Sent: forgotten.  Network failure: kept, with a new backoff.  Rejected: kept,
\* in ERROR, not dropped silently.
Kept(entry, o) ==
    CASE o.answer = "ok"      -> <<>>
      [] o.answer = "network" -> <<entry>>
      [] o.answer = "error"   -> <<[entry EXCEPT !.status = "ERROR"]>>

FlushAnswerDropsRejected(o) ==
    /\ flush.on
    /\ flush.todo # <<>>
    /\ Answered(Head(flush.todo).act, o)
    /\ Advance(Tail(flush.todo),
               IF o.answer = "error" THEN flush.kept
               ELSE flush.kept \o Kept(Head(flush.todo), o), flush.now)
    /\ elapsed' = IF o.answer = "network" THEN elapsed \ {Head(flush.todo).act} ELSE elapsed
    /\ UNCHANGED <<live, discarded, settled>>

FlushAnswer(o) ==
    /\ flush.on
    /\ flush.todo # <<>>
    /\ Answered(Head(flush.todo).act, o)
    /\ Advance(Tail(flush.todo), flush.kept \o Kept(Head(flush.todo), o), flush.now)
    /\ elapsed' = IF o.answer = "network" THEN elapsed \ {Head(flush.todo).act} ELSE elapsed
    /\ UNCHANGED <<live, discarded, settled>>

\* Time passes beyond an entry's nextAttemptAt.
BackoffOver(a) ==
    /\ InQueue(a) /\ a \notin elapsed
    /\ elapsed' = elapsed \cup {a}
    /\ UNCHANGED <<queue, flush, live, faults, executed, discarded, settled>>

-----------------------------------------------------------------------------
\* The buttons of the queue's panel, on an entry in ERROR.

RetryAction(i) ==
    /\ i \in DOMAIN queue /\ queue[i].status = "ERROR"
    /\ queue' = [queue EXCEPT ![i].status = "PENDING"]
    /\ elapsed' = elapsed \cup {queue[i].act}
    /\ UNCHANGED <<flush, live, faults, executed, discarded, settled>>

DiscardAction(i) ==
    /\ i \in DOMAIN queue /\ queue[i].status = "ERROR"
    /\ queue' = RemoveAt(queue, i)
    /\ discarded' = discarded \cup {queue[i].act}
    /\ UNCHANGED <<elapsed, flush, live, faults, executed, settled>>

\* The page is killed: localStorage survives, with the nextAttemptAt it had, the
\* flush and the calls do not.
\* The server may still carry out the requests that were on their way.
Sent == {a \in Actions : live[a] = "sent"}
          \cup {flush.todo[i].act : i \in DOMAIN flush.todo \cap {1}}

Kill(ran) ==
    /\ faults < MaxFaults
    /\ faults' = faults + 1
    /\ executed' = executed \cup ran
    /\ flush' = NoFlush
    /\ elapsed' = elapsed \cup flush.now
    /\ live' = [a \in Actions |-> IF live[a] = "sent" THEN "killed" ELSE live[a]]
    /\ UNCHANGED <<queue, discarded, settled>>

Next ==
    \/ \E a \in Actions :
         Call(a) \/ BackoffOver(a) \/ \E o \in Outcome : CallAnswer(a, o)
    \/ FlushStart
    \/ \E o \in Outcome : FlushAnswer(o)
    \/ \E i \in DOMAIN queue : RetryAction(i) \/ DiscardAction(i)
    \/ \E ran \in SUBSET Sent : Kill(ran)

Spec == Init /\ [][Next]_vars

\* The timer of the panel fires every 15 s and requests end (with an answer or
\* a network error); backoffs are bounded by five minutes.
FairSpec ==
    /\ Spec
    /\ WF_vars(FlushStart)
    /\ WF_vars(\E o \in Outcome : FlushAnswer(o))
    /\ \A a \in Actions : WF_vars(BackoffOver(a))

-----------------------------------------------------------------------------
\* Properties.

\* An action queued while no flush was in progress is never lost: it stays in
\* the queue until the server carries it out or the driver discards it,
\* through kills in the middle of a flush, retries, discards and rejections.
SettledActionsKept ==
    \A a \in settled : InQueue(a) \/ a \in executed \/ a \in discarded

\* The queue keeps coming to rest: nothing in it waits to be sent.
QueueDrains == []<>(\A i \in DOMAIN queue : queue[i].status = "ERROR")

\* No queued action is lost (the queue persists between sessions, and what the
\* server rejects is not dropped in silence).
NothingLost ==
    \A a \in Actions : live[a] = "queued" =>
        InQueue(a) \/ a \in executed \/ a \in discarded
=============================================================================
