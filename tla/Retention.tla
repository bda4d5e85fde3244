------------------------------ MODULE Retention ------------------------------
(***************************************************************************)
(* The nightly job of services/routeTrack.ts (run by jobs/retention.ts):   *)
(* pruneTelemetry builds the track of each completed route from its pings  *)
(* and then deletes the pings that are past their retention, for one       *)
(* tenant, while drivers go on sending pings and finishing routes.         *)
(*                                                                         *)
(* A track keeps a sample of the pings read; here, all of them.  A ping is *)
(* recorded when it is stored, as the driver's app does.                   *)
(***************************************************************************)
EXTENDS Naturals, FiniteSets

CONSTANTS
    Routes, Pings,
    RouteOf,      \* TelemetryPing.routeId
    Jobs,         \* the runs of the job there may be at a time
    MaxRoutes,    \* opts.maxRoutes
    BatchSize,    \* opts.batchSize
    MaxBatches,   \* opts.maxBatches
    MaxCrashes    \* bound on the runs that end before their end

RetentionAssumption ==
    /\ IsFiniteSet(Routes) /\ RouteOf \in [Pings -> Routes]
    /\ MaxRoutes \in Nat \ {0} /\ BatchSize \in Nat \ {0} /\ MaxBatches \in Nat \ {0}
    /\ MaxCrashes \in Nat

VARIABLES
    completed,   \* the routes with status COMPLETED
    stored,      \* the TelemetryPing rows
    expired,     \* the pings older than the retention
    track,       \* Route.trackJson, as the set of pings it was made from
    built,       \* the routes with trackBuiltAt
    job,         \* what each run of the job is doing
    crashes,     \* how many runs have crashed
    deleted,     \* history: the pings the job deleted
    unsaved,     \* history: those deleted by a run that had left their route out
    late         \* history: the pings stored after their route was completed

history == <<deleted, unsaved, late>>
vars == <<completed, stored, expired, track, built, job, crashes, history>>

Idle == [step |-> "idle"]
Of(r) == {p \in stored : RouteOf[p] = r}
PendingCompleted == completed
Pending == {r \in completed : r \notin built}
Smaller(m, n) == IF m < n THEN m ELSE n

Init ==
    /\ completed = {} /\ stored = {} /\ expired = {}
    /\ track = [r \in Routes |-> {}] /\ built = {}
    /\ job = [j \in Jobs |-> Idle]
    /\ crashes = 0
    /\ deleted = {} /\ unsaved = {} /\ late = {}

-----------------------------------------------------------------------------
\* What goes on outside the job.

\* POST /tracking/pings; the app may still send one when its route is over.
Ping(p) ==
    /\ p \notin stored \cup deleted
    /\ stored' = stored \cup {p}
    /\ late' = IF RouteOf[p] \in completed THEN late \cup {p} ELSE late
    /\ UNCHANGED <<completed, expired, track, built, job, crashes, deleted, unsaved>>

Complete(r) ==
    /\ r \notin completed
    /\ completed' = completed \cup {r}
    /\ UNCHANGED <<stored, expired, track, built, job, crashes, history>>

\* Ninety days go by: a route takes a day, so it is completed by then.
Expire(p) ==
    /\ p \in stored \ expired
    /\ RouteOf[p] \in completed
    /\ expired' = expired \cup {p}
    /\ UNCHANGED <<completed, stored, track, built, job, crashes, history>>

-----------------------------------------------------------------------------
\* pruneTelemetry.

\* The cutoff is computed once, from the time at which the run starts.
JobStart(j) ==
    /\ job[j] = Idle
    /\ job' = [job EXCEPT ![j] = [step |-> "select", old |-> expired]]
    /\ UNCHANGED <<completed, stored, expired, track, built, crashes, history>>

\* The routes completed and without a track, MaxRoutes of them in no order.
Select(j) ==
    /\ job[j].step = "select"
    /\ \E S \in SUBSET Pending :
         /\ Cardinality(S) = Smaller(MaxRoutes, Cardinality(Pending))
         /\ job' = [job EXCEPT ![j] =
                      IF S = {} THEN [step |-> "prune", old |-> @.old, left |-> {}, batch |-> 0]
                      ELSE [step |-> "read", old |-> @.old, left |-> Pending \ S, todo |-> S]]
    /\ UNCHANGED <<completed, stored, expired, track, built, crashes, history>>

\* buildRouteTrack: the pings are read...
ReadPings(j) ==
    /\ job[j].step = "read"
    /\ \E r \in job[j].todo :
         job' = [job EXCEPT ![j] = [step |-> "write", old |-> @.old, left |-> @.left,
                                    todo |-> @.todo \ {r}, route |-> r, read |-> Of(r)]]
    /\ UNCHANGED <<completed, stored, expired, track, built, crashes, history>>

WriteTrackUnmarked(j) ==
    /\ job[j].step = "write"
    /\ track' = [track EXCEPT ![job[j].route] = job[j].read]
    /\ job' = [job EXCEPT ![j] =
                 IF @.todo = {} THEN [step |-> "prune", old |-> @.old, left |-> @.left, batch |-> 0]
                 ELSE [step |-> "read", old |-> @.old, left |-> @.left, todo |-> @.todo]]
    /\ UNCHANGED <<completed, stored, expired, built, crashes, history>>

\* ...and the track is written with its mark.
WriteTrack(j) ==
    /\ job[j].step = "write"
    /\ track' = [track EXCEPT ![job[j].route] = job[j].read]
    /\ built' = built \cup {job[j].route}
    /\ job' = [job EXCEPT ![j] =
                 IF @.todo = {} THEN [step |-> "prune", old |-> @.old, left |-> @.left, batch |-> 0]
                 ELSE [step |-> "read", old |-> @.old, left |-> @.left, todo |-> @.todo]]
    /\ UNCHANGED <<completed, stored, expired, crashes, history>>

\* A batch: some of the pings past the cutoff are found and deleted by id.  A
\* batch that is not full, or the last allowed, ends the run.
Delete(j, doomed) ==
    \E B \in SUBSET doomed :
        /\ Cardinality(B) = Smaller(BatchSize, Cardinality(doomed))
        /\ stored' = stored \ B
        /\ deleted' = deleted \cup B
        /\ unsaved' = unsaved \cup {p \in B : RouteOf[p] \in job[j].left}
        /\ job' = [job EXCEPT ![j] =
                     IF Cardinality(B) < BatchSize \/ @.batch + 1 = MaxBatches THEN Idle
                     ELSE [step |-> "prune", old |-> @.old, left |-> @.left,
                           batch |-> @.batch + 1]]
        /\ UNCHANGED <<completed, expired, track, built, crashes, late>>

PruneMovingCutoff(j) ==
    /\ job[j].step = "prune"
    /\ Delete(j, stored \cap expired)

Prune(j) ==
    /\ job[j].step = "prune"
    /\ Delete(j, stored \cap job[j].old)

\* A query throws (the job exits with 1) or the service stops it.
Crash(j) ==
    /\ crashes < MaxCrashes
    /\ job[j] # Idle
    /\ job' = [job EXCEPT ![j] = Idle]
    /\ crashes' = crashes + 1
    /\ UNCHANGED <<completed, stored, expired, track, built, history>>

JobStep(j) == Select(j) \/ ReadPings(j) \/ WriteTrack(j) \/ Prune(j)

Next ==
    \/ \E p \in Pings : Ping(p) \/ Expire(p)
    \/ \E r \in Routes : Complete(r)
    \/ \E j \in Jobs : JobStart(j) \/ JobStep(j) \/ Crash(j)

Spec == Init /\ [][Next]_vars

\* The job runs every night, and to its end but for the crashes allowed.
FairSpec == Spec /\ \A j \in Jobs : WF_vars(JobStart(j)) /\ WF_vars(JobStep(j))

-----------------------------------------------------------------------------
\* Properties.

Run ==
    {Idle}
    \cup [step : {"select"}, old : SUBSET Pings]
    \cup [step : {"read"}, old : SUBSET Pings, left : SUBSET Routes, todo : (SUBSET Routes) \ {{}}]
    \cup [step : {"write"}, old : SUBSET Pings, left : SUBSET Routes, todo : SUBSET Routes,
         route : Routes, read : SUBSET Pings]
    \cup [step : {"prune"}, old : SUBSET Pings, left : SUBSET Routes, batch : 0..(MaxBatches - 1)]

\* Types, and that a ping is in the table or was deleted, not both, and has time to
\* expire only when its route is over.
TypeOK ==
    /\ completed \subseteq Routes /\ built \subseteq completed
    /\ stored \subseteq Pings /\ stored \cap deleted = {}
    /\ deleted \subseteq expired /\ expired \subseteq Pings
    /\ \A p \in expired : RouteOf[p] \in completed
    /\ track \in [Routes -> SUBSET Pings]
    /\ job \in [Jobs -> Run]
    /\ crashes \in 0..MaxCrashes
    /\ unsaved \subseteq deleted /\ late \subseteq Pings

\* "Builds the tracks first and deletes afterwards, so that no completed route
\* loses its history": a ping deleted from a completed route is in its track,
\* unless it was stored when the route was already over, or the run that deleted
\* it had no room for the route.  A crash at any step loses nothing more.
HistoryKept ==
    \A p \in deleted : RouteOf[p] \in completed =>
        p \in track[RouteOf[p]] \/ p \in late \/ p \in unsaved

\* "Idempotent: marks trackBuiltAt and does not process again the routes already
\* marked": a track, once built, is not replaced.
BuiltOnce ==
    [][\A r \in built : track'[r] = track[r]]_vars

\* Every completed route gets its track in the end, although a run takes only
\* MaxRoutes of the backlog, in no order, and may crash.
TracksAreBuilt ==
    \A r \in Routes : r \in completed ~> r \in built
=============================================================================
