-------------------------- MODULE BackgroundProofs --------------------------
(***************************************************************************)
(* Proofs about Background, for any routes, pings, actions, commands and   *)
(* bounds: what the nightly job deletes is in a track (as long as one run  *)
(* goes at a time: the job is started once a night), a device carries out  *)
(* its commands once and in order, the vehicle's row says what its engine  *)
(* is, and a flush of the driver's queue loses nothing it was given.       *)
(***************************************************************************)
EXTENDS Background, FiniteSetTheorems, SequenceTheorems, WellFoundedInduction, TLAPS

-----------------------------------------------------------------------------
\* The nightly job (Retention).

OneRun == \A j, k \in Jobs : j = k

\* The routes a run has selected and not yet built.
Chosen(j) ==
    CASE job[j].step = "read"  -> job[j].todo
      [] job[j].step = "write" -> job[j].todo \cup {job[j].route}
      [] OTHER -> {}

ChosenAreUnbuilt ==
    \A j \in Jobs : /\ Chosen(j) \subseteq completed \ built
                    /\ job[j].step = "write" => job[j].route \notin job[j].todo

\* Every ping a run may delete is of a route that has its track, that the run is
\* going to build before it deletes, or that it left out.
OldIsCovered ==
    \A j \in Jobs :
        /\ job[j] # Idle => job[j].old \subseteq expired
        /\ job[j].step \in {"read", "write", "prune"} =>
             \A p \in job[j].old : RouteOf[p] \in built \cup job[j].left \cup Chosen(j)

\* What a run has read of a route is all there is to read of it.
ReadIsWhole ==
    \A j \in Jobs : job[j].step = "write" =>
        \A p \in Of(job[j].route) : p \in job[j].read \/ p \in late

TrackIsWhole == \A r \in built : \A p \in Of(r) : p \in track[r] \/ p \in late

\* A route without a track has lost only what the run that left it out deleted.
LostWasLeftOut == \A p \in deleted : RouteOf[p] \notin built => p \in unsaved

HistoryInv ==
    /\ TypeOK
    /\ ChosenAreUnbuilt
    /\ OldIsCovered
    /\ ReadIsWhole /\ TrackIsWhole
    /\ LostWasLeftOut
    /\ HistoryKept

-----------------------------------------------------------------------------
LEMMA InitHistoryInv == RetentionAssumption /\ Init => HistoryInv
  BY DEF RetentionAssumption, Init, history, HistoryInv, TypeOK, Run, Idle, ChosenAreUnbuilt,
         Chosen, OldIsCovered, ReadIsWhole, TrackIsWhole, Of, LostWasLeftOut, HistoryKept

\* What goes on outside the job.
LEMMA OutsideHistoryInv ==
    ASSUME RetentionAssumption, HistoryInv, NEW p \in Pings, NEW r \in Routes,
           Ping(p) \/ Expire(p) \/ Complete(r)
    PROVE  HistoryInv'
<1>1. UNCHANGED <<track, built, job, crashes, deleted, unsaved>>
  BY DEF Ping, Expire, Complete, history
<1>2. completed \subseteq completed' /\ expired \subseteq expired' /\ late \subseteq late'
  BY DEF Ping, Expire, Complete, history
<1>3. TypeOK'
  <2>1. CASE Ping(p)
    BY <1>1, <2>1 DEF HistoryInv, TypeOK, Ping
  <2>2. CASE Expire(p)
    BY <1>1, <2>2 DEF HistoryInv, TypeOK, Expire, history
  <2>3. CASE Complete(r)
    BY <1>1, <2>3 DEF HistoryInv, TypeOK, Complete, history
  <2>4. QED  BY <2>1, <2>2, <2>3
<1>4. ChosenAreUnbuilt' /\ OldIsCovered'
  BY <1>1, <1>2 DEF HistoryInv, ChosenAreUnbuilt, OldIsCovered, Chosen
<1>5. \A q \in stored' \ stored : RouteOf[q] \in completed => q \in late'
  BY DEF Ping, Expire, Complete, history
<1>6. ReadIsWhole'
  <2> SUFFICES ASSUME NEW j \in Jobs, job[j].step = "write",
                      NEW q \in stored', RouteOf[q] = job[j].route
               PROVE  q \in job[j].read \/ q \in late'
    BY <1>1 DEF ReadIsWhole, Of
  <2>1. RouteOf[q] \in completed
    BY DEF HistoryInv, ChosenAreUnbuilt, Chosen
  <2>2. QED  BY <1>2, <1>5, <2>1 DEF HistoryInv, ReadIsWhole, Of
<1>7. TrackIsWhole'
  BY <1>1, <1>2, <1>5 DEF HistoryInv, TypeOK, TrackIsWhole, Of
<1>8. LostWasLeftOut' /\ HistoryKept'
  BY <1>1, <1>2 DEF HistoryInv, TypeOK, LostWasLeftOut, HistoryKept
<1>9. QED  BY <1>3, <1>4, <1>6, <1>7, <1>8 DEF HistoryInv

-----------------------------------------------------------------------------
\* The job's own steps.  With one run at a time, a step of j is the only one there is.

LEMMA StartHistoryInv ==
    ASSUME OneRun, HistoryInv, NEW j \in Jobs, JobStart(j)
    PROVE  HistoryInv'
<1>1. /\ job' = [job EXCEPT ![j] = [step |-> "select", old |-> expired]]
      /\ UNCHANGED <<completed, stored, expired, track, built, crashes, deleted, unsaved, late>>
  BY DEF JobStart, history
<1>2. [step |-> "select", old |-> expired] \in Run
  BY DEF HistoryInv, TypeOK, Run
<1>3. TypeOK'
  BY <1>1, <1>2 DEF HistoryInv, TypeOK
<1>4. \A k \in Jobs : job'[k] = [step |-> "select", old |-> expired]
  BY <1>1 DEF OneRun, HistoryInv, TypeOK
<1>5. ChosenAreUnbuilt' /\ OldIsCovered' /\ ReadIsWhole'
  BY <1>1, <1>4 DEF ChosenAreUnbuilt, OldIsCovered, ReadIsWhole, Chosen
<1>6. TrackIsWhole' /\ LostWasLeftOut' /\ HistoryKept'
  BY <1>1 DEF HistoryInv, TrackIsWhole, Of, LostWasLeftOut, HistoryKept
<1>7. QED  BY <1>3, <1>5, <1>6 DEF HistoryInv

LEMMA SelectHistoryInv ==
    ASSUME RetentionAssumption, OneRun, HistoryInv, NEW j \in Jobs, Select(j)
    PROVE  HistoryInv'
<1> DEFINE old == job[j].old
<1>1. PICK S \in SUBSET Pending :
        /\ Cardinality(S) = Smaller(MaxRoutes, Cardinality(Pending))
        /\ job' = [job EXCEPT ![j] =
                     IF S = {} THEN [step |-> "prune", old |-> @.old, left |-> {}, batch |-> 0]
                     ELSE [step |-> "read", old |-> @.old, left |-> Pending \ S, todo |-> S]]
  BY DEF Select
<1>2. /\ job[j].step = "select"
      /\ UNCHANGED <<completed, stored, expired, track, built, crashes, deleted, unsaved, late>>
  BY DEF Select, history
<1>3. job[j] \in [step : {"select"}, old : SUBSET Pings]
  BY <1>2 DEF HistoryInv, TypeOK, Run, Idle
<1>4. S = {} => Pending = {}
  <2>1. Pending \in SUBSET Routes
    BY DEF Pending, HistoryInv, TypeOK
  <2>2. IsFiniteSet(Pending)
    BY <2>1, FS_Subset DEF RetentionAssumption
  <2>3. Cardinality(Pending) \in Nat /\ (Cardinality(Pending) = 0 => Pending = {})
    BY <2>2, FS_CardinalityType, FS_EmptySet
  <2>4. S = {} => Cardinality(S) = 0
    BY FS_EmptySet
  <2>5. QED  BY <1>1, <2>3, <2>4 DEF Smaller, RetentionAssumption
<1>5. PICK next \in Run :
        /\ job' = [job EXCEPT ![j] = next]
        /\ next = IF S = {} THEN [step |-> "prune", old |-> old, left |-> {}, batch |-> 0]
                  ELSE [step |-> "read", old |-> old, left |-> Pending \ S, todo |-> S]
  <2>1. [step |-> "prune", old |-> old, left |-> {}, batch |-> 0] \in Run
    BY <1>3 DEF Run, RetentionAssumption
  <2>2. S # {} => [step |-> "read", old |-> old, left |-> Pending \ S, todo |-> S] \in Run
    BY <1>3 DEF Run, Pending, HistoryInv, TypeOK
  <2>3. QED  BY <1>1, <2>1, <2>2
<1>6. \A k \in Jobs : k = j /\ job'[k] = next
  BY <1>5 DEF OneRun, HistoryInv, TypeOK
<1>7. Chosen(j)' = S
  BY <1>5, <1>6 DEF Chosen
<1>8. TypeOK'
  BY <1>2, <1>5 DEF HistoryInv, TypeOK
<1>9. ChosenAreUnbuilt'
  BY <1>2, <1>5, <1>6, <1>7 DEF ChosenAreUnbuilt, Pending
<1>10. OldIsCovered'
  <2>1. old \subseteq expired /\ next.old = old
    BY <1>2, <1>5 DEF HistoryInv, OldIsCovered, Idle
  <2>2. \A p \in old : RouteOf[p] \in completed
    BY <2>1 DEF HistoryInv, TypeOK
  <2>3. \A p \in old : RouteOf[p] \in built \cup next.left \cup S
    BY <1>4, <1>5, <2>2 DEF Pending
  <2>4. QED  BY <1>2, <1>6, <1>7, <2>1, <2>3 DEF OldIsCovered
<1>11. ReadIsWhole'
  BY <1>5, <1>6 DEF ReadIsWhole
<1>12. TrackIsWhole' /\ LostWasLeftOut' /\ HistoryKept'
  BY <1>2 DEF HistoryInv, TrackIsWhole, Of, LostWasLeftOut, HistoryKept
<1>13. QED  BY <1>8, <1>9, <1>10, <1>11, <1>12 DEF HistoryInv

LEMMA ReadPingsHistoryInv ==
    ASSUME OneRun, HistoryInv, NEW j \in Jobs, ReadPings(j)
    PROVE  HistoryInv'
<1> DEFINE was == job[j]
<1>1. PICK r \in was.todo :
        job' = [job EXCEPT ![j] = [step |-> "write", old |-> @.old, left |-> @.left,
                                   todo |-> @.todo \ {r}, route |-> r, read |-> Of(r)]]
  BY DEF ReadPings
<1> DEFINE next == [step |-> "write", old |-> was.old, left |-> was.left,
                    todo |-> was.todo \ {r}, route |-> r, read |-> Of(r)]
<1>2. /\ was.step = "read"
      /\ UNCHANGED <<completed, stored, expired, track, built, crashes, deleted, unsaved, late>>
  BY DEF ReadPings, history
<1>3. was \in [step : {"read"}, old : SUBSET Pings, left : SUBSET Routes,
              todo : (SUBSET Routes) \ {{}}]
  BY <1>2 DEF HistoryInv, TypeOK, Run, Idle
<1>4. next \in Run /\ job' = [job EXCEPT ![j] = next]
  BY <1>1, <1>3 DEF Run, Of, HistoryInv, TypeOK
<1>5. \A k \in Jobs : k = j /\ job'[k] = next
  BY <1>4 DEF OneRun, HistoryInv, TypeOK
<1>6. Chosen(j)' = was.todo /\ Chosen(j) = was.todo
  <2>1. Chosen(j) = was.todo
    BY <1>2 DEF Chosen
  <2>2. job'[j].step = "write" /\ job'[j].todo \cup {job'[j].route} = was.todo
    BY <1>5
  <2>3. Chosen(j)' = was.todo
    BY <2>2 DEF Chosen
  <2>4. QED  BY <2>1, <2>3
<1>7. TypeOK'
  BY <1>2, <1>4 DEF HistoryInv, TypeOK
<1>8. ChosenAreUnbuilt'
  BY <1>2, <1>5, <1>6 DEF HistoryInv, ChosenAreUnbuilt
<1>9. OldIsCovered'
  <2>1. /\ was.old \subseteq expired
        /\ \A p \in was.old : RouteOf[p] \in built \cup was.left \cup was.todo
    BY <1>2, <1>6 DEF HistoryInv, OldIsCovered, Idle
  <2>2. QED  BY <1>2, <1>5, <1>6, <2>1 DEF OldIsCovered
<1>10. ReadIsWhole'
  <2>1. \A k \in Jobs : job'[k].route = r /\ job'[k].read = Of(r)
    BY <1>5
  <2>2. QED  BY <1>2, <2>1 DEF ReadIsWhole, Of
<1>11. TrackIsWhole' /\ LostWasLeftOut' /\ HistoryKept'
  BY <1>2 DEF HistoryInv, TrackIsWhole, Of, LostWasLeftOut, HistoryKept
<1>12. QED  BY <1>7, <1>8, <1>9, <1>10, <1>11 DEF HistoryInv

LEMMA WriteTrackHistoryInv ==
    ASSUME RetentionAssumption, OneRun, HistoryInv, NEW j \in Jobs, WriteTrack(j)
    PROVE  /\ HistoryInv'
           /\ \A r \in built : track'[r] = track[r]
<1> DEFINE was == job[j]
           r == was.route
<1>1. /\ was.step = "write"
      /\ track' = [track EXCEPT ![r] = was.read]
      /\ built' = built \cup {r}
      /\ UNCHANGED <<completed, stored, expired, crashes, deleted, unsaved, late>>
  BY DEF WriteTrack, history
<1>2. was \in [step : {"write"}, old : SUBSET Pings, left : SUBSET Routes, todo : SUBSET Routes,
              route : Routes, read : SUBSET Pings]
  BY <1>1 DEF HistoryInv, TypeOK, Run, Idle
<1>3. PICK next \in Run :
        /\ job' = [job EXCEPT ![j] = next]
        /\ next = IF was.todo = {}
                  THEN [step |-> "prune", old |-> was.old, left |-> was.left, batch |-> 0]
                  ELSE [step |-> "read", old |-> was.old, left |-> was.left, todo |-> was.todo]
  <2>1. [step |-> "prune", old |-> was.old, left |-> was.left, batch |-> 0] \in Run
    BY <1>2 DEF Run, RetentionAssumption
  <2>2. was.todo # {} =>
          [step |-> "read", old |-> was.old, left |-> was.left, todo |-> was.todo] \in Run
    BY <1>2 DEF Run
  <2>3. QED  BY <2>1, <2>2 DEF WriteTrack
<1>4. \A k \in Jobs : k = j /\ job'[k] = next
  BY <1>3 DEF OneRun, HistoryInv, TypeOK
<1>5. Chosen(j)' = was.todo /\ Chosen(j) = was.todo \cup {r}
  <2>1. Chosen(j) = was.todo \cup {r}
    BY <1>1 DEF Chosen
  <2>2. Chosen(j)' = CASE next.step = "read"  -> next.todo
                       [] next.step = "write" -> next.todo \cup {next.route}
                       [] OTHER -> {}
    BY <1>4 DEF Chosen
  <2>3. IF was.todo = {} THEN next.step = "prune" ELSE next.step = "read" /\ next.todo = was.todo
    BY <1>3
  <2>4. QED  BY <2>1, <2>2, <2>3
<1>6. r \in completed \ built /\ was.todo \subseteq completed \ built
  BY <1>5 DEF HistoryInv, ChosenAreUnbuilt
<1>7. /\ track' \in [Routes -> SUBSET Pings]
      /\ track'[r] = was.read
      /\ \A s \in Routes \ {r} : track'[s] = track[s]
  BY <1>1, <1>2 DEF HistoryInv, TypeOK
<1>8. TypeOK'
  BY <1>1, <1>3, <1>6, <1>7 DEF HistoryInv, TypeOK
<1>9. ChosenAreUnbuilt'
  <2>1. r \notin was.todo
    BY <1>1 DEF HistoryInv, ChosenAreUnbuilt
  <2>2. \A k \in Jobs : job'[k].step # "write"
    BY <1>3, <1>4
  <2>3. QED  BY <1>1, <1>4, <1>5, <1>6, <2>1, <2>2 DEF ChosenAreUnbuilt
<1>10. OldIsCovered'
  <2>1. /\ was.old \subseteq expired
        /\ \A p \in was.old : RouteOf[p] \in built \cup was.left \cup was.todo \cup {r}
    BY <1>1, <1>5 DEF HistoryInv, OldIsCovered, Idle
  <2>2. next.old = was.old /\ next.left = was.left
    BY <1>3
  <2>3. QED  BY <1>1, <1>4, <1>5, <2>1, <2>2 DEF OldIsCovered
<1>11. ReadIsWhole'
  BY <1>3, <1>4 DEF ReadIsWhole
<1>12. TrackIsWhole'
  <2> SUFFICES ASSUME NEW s \in built', NEW p \in stored, RouteOf[p] = s
               PROVE  p \in track'[s] \/ p \in late
    BY <1>1 DEF TrackIsWhole, Of
  <2>1. CASE s = r
    BY <1>1, <1>7, <2>1 DEF HistoryInv, ReadIsWhole, Of
  <2>2. CASE s # r
    BY <1>1, <1>7, <2>2 DEF HistoryInv, TypeOK, TrackIsWhole, Of
  <2>3. QED  BY <2>1, <2>2
<1>13. LostWasLeftOut'
  BY <1>1 DEF HistoryInv, LostWasLeftOut
<1>14. HistoryKept'
  <2> SUFFICES ASSUME NEW p \in deleted, RouteOf[p] \in completed
               PROVE  p \in track'[RouteOf[p]] \/ p \in late \/ p \in unsaved
    BY <1>1 DEF HistoryKept
  <2>1. CASE RouteOf[p] = r
    BY <1>6, <2>1 DEF HistoryInv, LostWasLeftOut
  <2>2. CASE RouteOf[p] # r
    BY <1>7, <2>2 DEF HistoryInv, TypeOK, HistoryKept
  <2>3. QED  BY <2>1, <2>2
<1>15. \A s \in built : track'[s] = track[s]
  BY <1>6, <1>7 DEF HistoryInv, TypeOK
<1>16. QED  BY <1>8, <1>9, <1>10, <1>11, <1>12, <1>13, <1>14, <1>15 DEF HistoryInv

LEMMA PruneHistoryInv ==
    ASSUME RetentionAssumption, OneRun, HistoryInv, NEW j \in Jobs, Prune(j)
    PROVE  HistoryInv'
<1> DEFINE was == job[j]
<1>1. PICK B \in SUBSET (stored \cap was.old) :
        /\ stored' = stored \ B
        /\ deleted' = deleted \cup B
        /\ unsaved' = unsaved \cup {p \in B : RouteOf[p] \in was.left}
        /\ job' = [job EXCEPT ![j] =
                     IF Cardinality(B) < BatchSize \/ was.batch + 1 = MaxBatches THEN Idle
                     ELSE [step |-> "prune", old |-> was.old, left |-> was.left,
                           batch |-> was.batch + 1]]
        /\ UNCHANGED <<completed, expired, track, built, crashes, late>>
  BY DEF Prune, Delete
<1>2. was \in [step : {"prune"}, old : SUBSET Pings, left : SUBSET Routes,
              batch : 0..(MaxBatches - 1)]
  BY DEF Prune, HistoryInv, TypeOK, Run, Idle
<1>3. PICK next \in Run :
        /\ job' = [job EXCEPT ![j] = next]
        /\ \/ next = Idle
           \/ next.step = "prune" /\ next.old = was.old /\ next.left = was.left
  <2>1. CASE Cardinality(B) < BatchSize \/ was.batch + 1 = MaxBatches
    BY <1>1, <2>1 DEF Run
  <2>2. CASE ~(Cardinality(B) < BatchSize \/ was.batch + 1 = MaxBatches)
    <3> DEFINE next == [step |-> "prune", old |-> was.old, left |-> was.left,
                        batch |-> was.batch + 1]
    <3>1. next \in Run
      BY <1>2, <2>2 DEF Run, RetentionAssumption
    <3>2. QED  BY <1>1, <2>2, <3>1
  <2>3. QED  BY <2>1, <2>2
<1>4. \A k \in Jobs : k = j /\ job'[k] = next
  BY <1>3 DEF OneRun, HistoryInv, TypeOK
<1>5. Chosen(j)' = {} /\ Chosen(j) = {} /\ next.step # "write"
  BY <1>2, <1>3, <1>4 DEF Chosen, Idle
<1>6. was.old \subseteq expired /\ \A p \in was.old : RouteOf[p] \in built \cup was.left
  BY <1>2, <1>5 DEF HistoryInv, OldIsCovered, Idle
<1>7. TypeOK'
  BY <1>1, <1>3, <1>6 DEF HistoryInv, TypeOK
<1>8. ChosenAreUnbuilt' /\ ReadIsWhole'
  BY <1>4, <1>5 DEF ChosenAreUnbuilt, ReadIsWhole
<1>9. OldIsCovered'
  BY <1>1, <1>3, <1>4, <1>5, <1>6 DEF OldIsCovered, Idle
<1>10. TrackIsWhole'
  BY <1>1 DEF HistoryInv, TrackIsWhole, Of
<1>11. LostWasLeftOut'
  BY <1>1, <1>6 DEF HistoryInv, LostWasLeftOut
<1>12. HistoryKept'
  <2> SUFFICES ASSUME NEW p \in B, RouteOf[p] \in completed
               PROVE  p \in track[RouteOf[p]] \/ p \in late \/ p \in unsaved'
    BY <1>1 DEF HistoryInv, HistoryKept
  <2>1. CASE RouteOf[p] \in built
    BY <1>1, <2>1 DEF HistoryInv, TrackIsWhole, Of
  <2>2. CASE RouteOf[p] \in was.left
    BY <1>1, <2>2
  <2>3. QED  BY <1>1, <1>6, <2>1, <2>2
<1>13. QED  BY <1>7, <1>8, <1>9, <1>10, <1>11, <1>12 DEF HistoryInv

LEMMA CrashHistoryInv ==
    ASSUME RetentionAssumption, OneRun, HistoryInv, NEW j \in Jobs, Crash(j)
    PROVE  HistoryInv'
<1>1. /\ job' = [job EXCEPT ![j] = Idle] /\ crashes' = crashes + 1 /\ crashes < MaxCrashes
      /\ UNCHANGED <<completed, stored, expired, track, built, deleted, unsaved, late>>
  BY DEF Crash, history
<1>2. TypeOK'
  BY <1>1 DEF RetentionAssumption, HistoryInv, TypeOK, Run
<1>3. \A k \in Jobs : job'[k] = Idle
  BY <1>1 DEF OneRun, HistoryInv, TypeOK
<1>4. ChosenAreUnbuilt' /\ OldIsCovered' /\ ReadIsWhole'
  BY <1>3 DEF ChosenAreUnbuilt, OldIsCovered, ReadIsWhole, Chosen, Idle
<1>5. TrackIsWhole' /\ LostWasLeftOut' /\ HistoryKept'
  BY <1>1 DEF HistoryInv, TrackIsWhole, Of, LostWasLeftOut, HistoryKept
<1>6. QED  BY <1>2, <1>4, <1>5 DEF HistoryInv

LEMMA StepHistoryInv ==
    ASSUME RetentionAssumption, OneRun, HistoryInv, [Next]_vars
    PROVE  /\ HistoryInv'
           /\ \A r \in built : track'[r] = track[r]
<1>1. CASE \E p \in Pings : Ping(p) \/ Expire(p)
  <2>1. PICK p \in Pings : Ping(p) \/ Expire(p)
    BY <1>1
  <2>2. RouteOf[p] \in Routes /\ track' = track
    BY <2>1 DEF RetentionAssumption, Ping, Expire
  <2>3. QED  BY <2>1, <2>2, OutsideHistoryInv
<1>2. CASE \E r \in Routes : Complete(r)
  <2>1. CASE Pings = {}
    BY <1>2, <2>1 DEF Complete, history, HistoryInv, TypeOK, ChosenAreUnbuilt, OldIsCovered, Chosen,
                     ReadIsWhole, TrackIsWhole, Of, LostWasLeftOut, HistoryKept
  <2>2. CASE Pings # {}
    BY <1>2, <2>2, OutsideHistoryInv DEF Complete
  <2>3. QED  BY <2>1, <2>2
<1>3. CASE \E j \in Jobs : WriteTrack(j)
  BY <1>3, WriteTrackHistoryInv
<1>4. CASE \E j \in Jobs : JobStart(j) \/ Select(j) \/ ReadPings(j) \/ Prune(j) \/ Crash(j)
  <2>1. HistoryInv'
    BY <1>4, StartHistoryInv, SelectHistoryInv, ReadPingsHistoryInv, PruneHistoryInv,
       CrashHistoryInv
  <2>2. track' = track
    BY <1>4 DEF JobStart, Select, ReadPings, Prune, Delete, Crash
  <2>3. QED  BY <2>1, <2>2
<1>5. CASE UNCHANGED vars
  BY <1>5 DEF vars, history, HistoryInv, TypeOK, ChosenAreUnbuilt, OldIsCovered, Chosen,
              ReadIsWhole, TrackIsWhole, Of, LostWasLeftOut, HistoryKept
<1>6. QED  BY <1>1, <1>2, <1>3, <1>4, <1>5 DEF Next, JobStep

LEMMA InvariantHolds ==
    ASSUME RetentionAssumption, OneRun
    PROVE  Spec => []HistoryInv
<1>1. Init => HistoryInv
  BY InitHistoryInv
<1>2. HistoryInv /\ [Next]_vars => HistoryInv'
  BY StepHistoryInv
<1>3. QED  BY <1>1, <1>2, PTL DEF Spec

\* For any routes, pings and bounds: with one run of the job at a time, no completed
\* route loses its history, wherever runs crash and whatever is sent meanwhile, but
\* for what came when the route was over and for what a run with no room for the
\* route deleted.
THEOREM HistoryIsKept ==
    ASSUME RetentionAssumption, OneRun
    PROVE  Spec => []HistoryKept
<1>1. HistoryInv => HistoryKept
  BY DEF HistoryInv
<1>2. QED  BY InvariantHolds, <1>1, PTL

\* For any routes, pings and bounds: with one run of the job at a time, a track once
\* built is never written again.
THEOREM TracksAreBuiltOnce ==
    ASSUME RetentionAssumption, OneRun
    PROVE  Spec => BuiltOnce
<1>1. HistoryInv /\ [Next]_vars => [\A r \in built : track'[r] = track[r]]_vars
  BY StepHistoryInv
<1>2. QED  BY InvariantHolds, <1>1, PTL DEF Spec, BuiltOnce

-----------------------------------------------------------------------------
\* The device of a vehicle (EngineCommands).

\* Induction over the numbers, in the form in which it needs no operator parameter.
LEMMA LeastNumber ==
    ASSUME NEW S \in SUBSET Nat, S # {}
    PROVE  \E n \in S : \A m \in S : n <= m
<1> DEFINE less == {ss \in Nat \X Nat : ss[1] < ss[2]}
<1>1. IsWellFoundedOn(less, Nat)
  BY NatLessThanWellFounded DEF OpToRel
<1>2. \A m, n \in S : m < n => <<m, n>> \in less
  OBVIOUS
<1> HIDE DEF less
<1>3. PICK n \in S : \A m \in S : <<m, n>> \notin less
  BY <1>1, WFMin
<1>4. \A m \in S : ~(m < n)
  BY <1>2, <1>3
<1>5. \A m \in S : m \in Nat /\ n \in Nat
  OBVIOUS
<1>6. \A m \in S : n <= m
  BY <1>4, <1>5
<1>7. QED  BY <1>6

Command == [type : Device!CommandType, status : {"PENDING", "SENT", "ACK"}]
Unsent == {i \in DOMAIN commands : commands[i].status = "PENDING"}
Running == {"ack", "reflect"}

DeviceTypes ==
    /\ commands \in Seq(Command)
    /\ asking \in Device!CommandType \cup {"nothing"}
    /\ step \in {"poll", "mark", "run", "ack", "reflect", "ping", "sleep"}
    /\ batch \in SUBSET DOMAIN commands
    /\ batch = {} <=> step \in {"poll", "ping", "sleep"}
    /\ ran \in Seq(Nat)
    /\ {engineOn, immobilized, engine, disturbed} \subseteq BOOLEAN

\* A poll hands over everything there is: what is still unsent is later.
UnsentLast == \A i \in DOMAIN commands \ Unsent, j \in Unsent : i < j

\* What the device has in hand was read before anything still unsent came.
BatchFirst ==
    IF step = "mark" THEN batch \subseteq Unsent /\ \A i \in batch, j \in Unsent \ batch : i < j
    ELSE batch \cap Unsent = {}

\* What it has carried out comes before what it has in hand; while it tells of a
\* command, that is the last one it carried out.
RanInOrder ==
    /\ \A k \in DOMAIN ran : ran[k] \in DOMAIN commands \ Unsent
    /\ \A k, l \in DOMAIN ran : k < l => ran[k] < ran[l]
    /\ step = "run" => \A k \in DOMAIN ran : \A i \in batch : ran[k] < i
    /\ step \in Running => ran # <<>> /\ ran[Len(ran)] = Device!Current
    /\ \A i \in DOMAIN commands : commands[i].status = "ACK" => \E k \in DOMAIN ran : ran[k] = i

\* Undisturbed, the row is what the engine is, or is being told.
RowFollows ==
    ~disturbed => IF step \in Running THEN engine = (commands[Device!Current].type = "ENGINE_ON")
                  ELSE immobilized = ~engine /\ engineOn = engine

DeviceInv == DeviceTypes /\ UnsentLast /\ BatchFirst /\ RanInOrder /\ RowFollows

LEMMA InitDeviceInv == Device!Init => DeviceInv
<1> SUFFICES ASSUME Device!Init PROVE DeviceInv
  OBVIOUS
<1>1. /\ commands = <<>> /\ ran = <<>> /\ DOMAIN commands = {} /\ DOMAIN ran = {} /\ batch = {}
      /\ step = "poll" /\ asking = "nothing"
  BY DEF Device!Init
<1>2. engine = TRUE /\ engineOn = TRUE /\ immobilized = FALSE /\ disturbed = FALSE
  BY DEF Device!Init
<1>3. DeviceTypes
  <2>1. commands \in Seq(Command) /\ ran \in Seq(Nat) /\ batch \in SUBSET DOMAIN commands
    BY <1>1
  <2>2. {engineOn, immobilized, engine, disturbed} \subseteq BOOLEAN
    BY <1>2
  <2>3. QED  BY <1>1, <2>1, <2>2 DEF DeviceTypes
<1>4. Unsent = {}
  BY <1>1 DEF Unsent
<1>5. UnsentLast /\ BatchFirst /\ RanInOrder
  BY <1>1, <1>4 DEF UnsentLast, BatchFirst, RanInOrder, Running
<1>6. RowFollows
  BY <1>1, <1>2 DEF RowFollows, Running
<1>7. QED  BY <1>3, <1>5, <1>6 DEF DeviceInv

\* The command in hand that the device takes.
LEMMA CurrentIsFirst ==
    ASSUME DeviceTypes, batch # {}
    PROVE  /\ Device!Current \in batch
           /\ \A i \in batch : Device!Current <= i
<1>1. batch \in SUBSET Nat
  BY DEF DeviceTypes
<1>2. \E i \in batch : \A k \in batch : i <= k
  BY <1>1, LeastNumber
<1>3. QED  BY <1>2 DEF Device!Current

LEMMA ReadDeviceInv ==
    ASSUME DeviceInv, NEW type \in Device!CommandType, Device!RequestRead(type)
    PROVE  DeviceInv'
<1>1. /\ asking' = type
      /\ UNCHANGED <<commands, lastSpeed, engineOn, immobilized, engine, moving, step, batch, ran,
                     disturbed>>
  BY DEF Device!RequestRead, Device!server, Device!device
<1>2. Device!Current' = Device!Current
  BY <1>1 DEF Device!Current
<1>3. DeviceTypes'
  BY <1>1 DEF DeviceInv, DeviceTypes
<1>4. QED
  BY <1>1, <1>2, <1>3 DEF DeviceInv, UnsentLast, BatchFirst, RanInOrder, RowFollows, Unsent

LEMMA CreateDeviceInv ==
    ASSUME DeviceInv, Device!RequestCreate
    PROVE  DeviceInv'
<1> DEFINE new == [type |-> asking, status |-> "PENDING"]
<1>1. /\ commands' = Append(commands, new) /\ asking' = "nothing" /\ asking # "nothing"
      /\ UNCHANGED <<lastSpeed, engineOn, immobilized, engine, moving, step, batch, ran,
                     disturbed>>
  BY DEF Device!RequestCreate, Device!device
<1>2. new \in Command /\ commands \in Seq(Command)
  BY <1>1 DEF DeviceInv, DeviceTypes, Command
<1>3. /\ commands' \in Seq(Command)
      /\ DOMAIN commands = 1..Len(commands)
      /\ DOMAIN commands' = 1..(Len(commands) + 1) /\ Len(commands) \in Nat
      /\ \A i \in DOMAIN commands : commands'[i] = commands[i]
      /\ commands'[Len(commands) + 1] = new
  BY <1>1, <1>2
<1>4. Device!Current' = Device!Current
  BY <1>1 DEF Device!Current
<1>5. DeviceTypes'
  BY <1>1, <1>3 DEF DeviceInv, DeviceTypes
<1>6. Unsent' = Unsent \cup {Len(commands) + 1}
  BY <1>3 DEF Unsent
<1>7. UnsentLast'
  BY <1>3, <1>6 DEF DeviceInv, UnsentLast
<1>8. batch \subseteq DOMAIN commands
  BY DEF DeviceInv, DeviceTypes
<1>9. BatchFirst'
  <2>1. Len(commands) + 1 \notin batch
    BY <1>3, <1>8
  <2>2. \A i \in batch : i < Len(commands) + 1
    BY <1>3, <1>8
  <2>3. QED  BY <1>1, <1>6, <2>1, <2>2 DEF DeviceInv, BatchFirst
<1>10. RanInOrder'
  <2>1. \A k \in DOMAIN ran : ran[k] \in DOMAIN commands' \ Unsent'
    BY <1>3, <1>6 DEF DeviceInv, RanInOrder
  <2>2. \A i \in DOMAIN commands' :
          commands'[i].status = "ACK" => \E k \in DOMAIN ran : ran[k] = i
    BY <1>3 DEF DeviceInv, RanInOrder
  <2>3. QED  BY <1>1, <1>4, <2>1, <2>2 DEF DeviceInv, RanInOrder
<1>11. RowFollows'
  <2>1. CASE step \in Running
    <3>1. Device!Current \in DOMAIN commands
      BY <1>8, <2>1, CurrentIsFirst DEF DeviceInv, DeviceTypes, Running
    <3>2. QED  BY <1>1, <1>3, <1>4, <2>1, <3>1 DEF DeviceInv, RowFollows
  <2>2. CASE step \notin Running
    BY <1>1, <2>2 DEF DeviceInv, RowFollows
  <2>3. QED  BY <2>1, <2>2
<1>12. QED  BY <1>5, <1>7, <1>9, <1>10, <1>11 DEF DeviceInv

LEMMA PollReadDeviceInv ==
    ASSUME DeviceInv, Device!PollRead
    PROVE  DeviceInv'
<1>1. /\ step = "poll" /\ batch' = Unsent /\ step' = IF batch' = {} THEN "ping" ELSE "mark"
      /\ UNCHANGED <<commands, engineOn, immobilized, asking, engine, ran, disturbed>>
  BY DEF Device!PollRead, Device!server, Device!Waiting, Unsent
<1>2. Unsent' = Unsent
  BY <1>1 DEF Unsent
<1>3. DeviceTypes'
  BY <1>1 DEF DeviceInv, DeviceTypes, Unsent
<1>4. UnsentLast' /\ BatchFirst' /\ RanInOrder' /\ RowFollows'
  BY <1>1, <1>2 DEF DeviceInv, UnsentLast, BatchFirst, RanInOrder, RowFollows, Running
<1>5. QED  BY <1>3, <1>4 DEF DeviceInv

LEMMA PollMarkDeviceInv ==
    ASSUME DeviceInv, Device!PollMark
    PROVE  DeviceInv'
<1>1. /\ step = "mark" /\ step' = "run"
      /\ commands' = [i \in DOMAIN commands |->
                        IF i \in batch THEN [commands[i] EXCEPT !.status = "SENT"] ELSE commands[i]]
      /\ UNCHANGED <<engineOn, immobilized, asking, engine, batch, ran, disturbed>>
  BY DEF Device!PollMark
<1>2. commands \in Seq(Command) /\ batch \subseteq DOMAIN commands
  BY DEF DeviceInv, DeviceTypes
<1>3. /\ commands' \in Seq(Command) /\ DOMAIN commands' = DOMAIN commands
      /\ \A i \in batch : commands'[i].status = "SENT"
      /\ \A i \in DOMAIN commands \ batch : commands'[i] = commands[i]
      /\ \A i \in DOMAIN commands : commands'[i].type = commands[i].type
  <2>1. \A i \in DOMAIN commands : commands[i] \in Command
    BY <1>2
  <2>2. \A i \in DOMAIN commands : commands'[i] \in Command
    BY <1>1, <2>1 DEF Command
  <2>3. DOMAIN commands = 1..Len(commands) /\ Len(commands) \in Nat
    BY <1>2
  <2>4. commands' \in [1..Len(commands) -> Command]
    BY <1>1, <2>2, <2>3
  <2>5. commands' \in Seq(Command)
    BY <2>3, <2>4
  <2>6. QED  BY <1>1, <1>2, <2>1, <2>5 DEF Command
<1>4. Unsent' = Unsent \ batch
  BY <1>2, <1>3 DEF Unsent
<1>5. /\ batch \subseteq Unsent /\ \A i \in batch, j \in Unsent \ batch : i < j
      /\ \A k \in DOMAIN ran : ran[k] \in DOMAIN commands \ Unsent
  BY <1>1 DEF DeviceInv, BatchFirst, RanInOrder
<1>6. DeviceTypes'
  BY <1>1, <1>3 DEF DeviceInv, DeviceTypes
<1>7. UnsentLast' /\ BatchFirst'
  BY <1>1, <1>3, <1>4, <1>5 DEF DeviceInv, UnsentLast, BatchFirst
<1>8. RanInOrder'
  <2>1. \A k \in DOMAIN ran, i \in batch : ran[k] < i
    BY <1>5 DEF DeviceInv, UnsentLast
  <2>2. \A i \in DOMAIN commands :
          commands'[i].status = "ACK" => \E k \in DOMAIN ran : ran[k] = i
    BY <1>3 DEF DeviceInv, RanInOrder
  <2>3. QED  BY <1>1, <1>3, <1>4, <1>5, <2>1, <2>2 DEF DeviceInv, RanInOrder, Running
<1>9. RowFollows'
  BY <1>1 DEF DeviceInv, RowFollows, Running
<1>10. QED  BY <1>6, <1>7, <1>8, <1>9 DEF DeviceInv

LEMMA RunDeviceInv ==
    ASSUME DeviceInv, Device!Run
    PROVE  DeviceInv'
<1>1. /\ step = "run" /\ step' = "ack"
      /\ engine' = (commands[Device!Current].type = "ENGINE_ON")
      /\ ran' = Append(ran, Device!Current)
      /\ UNCHANGED <<commands, engineOn, immobilized, asking, batch, disturbed>>
  BY DEF Device!Run, Device!server
<1>2. /\ Device!Current \in batch /\ Device!Current' = Device!Current
      /\ Device!Current \in Nat
  <2>1. batch # {} /\ batch \subseteq Nat
    BY <1>1 DEF DeviceInv, DeviceTypes
  <2>2. Device!Current' = Device!Current
    BY <1>1 DEF Device!Current
  <2>3. QED  BY <2>1, <2>2, CurrentIsFirst DEF DeviceInv
<1>3. Unsent' = Unsent
  BY <1>1 DEF Unsent
<1>4. /\ ran \in Seq(Nat) /\ ran' \in Seq(Nat) /\ Len(ran') = Len(ran) + 1 /\ Len(ran) \in Nat
      /\ DOMAIN ran = 1..Len(ran) /\ DOMAIN ran' = 1..(Len(ran) + 1)
      /\ \A k \in DOMAIN ran : ran'[k] = ran[k]
      /\ ran'[Len(ran) + 1] = Device!Current
  BY <1>1, <1>2 DEF DeviceInv, DeviceTypes
<1>5. DeviceTypes'
  BY <1>1, <1>4 DEF DeviceInv, DeviceTypes
<1>6. UnsentLast' /\ BatchFirst'
  BY <1>1, <1>3 DEF DeviceInv, UnsentLast, BatchFirst
<1>7. RanInOrder'
  <2>1. \A k \in DOMAIN ran' : ran'[k] \in DOMAIN commands \ Unsent
    <3>1. Device!Current \in DOMAIN commands \ Unsent
      BY <1>1, <1>2 DEF DeviceInv, DeviceTypes, BatchFirst
    <3>2. QED  BY <1>4, <3>1 DEF DeviceInv, RanInOrder
  <2>2. \A k, l \in DOMAIN ran' : k < l => ran'[k] < ran'[l]
    <3>1. \A k \in DOMAIN ran : ran[k] < Device!Current
      BY <1>1, <1>2 DEF DeviceInv, RanInOrder
    <3>2. ASSUME NEW k \in 1..(Len(ran) + 1), NEW l \in 1..(Len(ran) + 1), k < l
          PROVE  ran'[k] < ran'[l]
      <4>1. k \in DOMAIN ran /\ ran'[k] = ran[k]
        <5>1. PICK n \in Nat : n = Len(ran)
          BY <1>4
        <5>2. k \in 1..n
          BY <3>2, <5>1
        <5>3. DOMAIN ran = 1..n
          BY <1>4, <5>1
        <5>4. QED  BY <1>4, <5>2, <5>3
      <4>2. CASE l \in DOMAIN ran
        <5>1. ran[k] < ran[l]
          BY <3>2, <4>1, <4>2 DEF DeviceInv, RanInOrder
        <5>2. QED  BY <1>4, <4>1, <4>2, <5>1
      <4>3. CASE l = Len(ran) + 1
        BY <1>4, <3>1, <4>1, <4>3
      <4>4. QED  BY <1>4, <4>2, <4>3
    <3>3. QED  BY <1>4, <3>2
  <2>3. ran' # <<>> /\ ran'[Len(ran')] = Device!Current'
    BY <1>2, <1>4
  <2>4. \A i \in DOMAIN commands :
          commands[i].status = "ACK" => \E k \in DOMAIN ran' : ran'[k] = i
    BY <1>4 DEF DeviceInv, RanInOrder
  <2>5. QED  BY <1>1, <1>3, <2>1, <2>2, <2>3, <2>4 DEF RanInOrder
<1>8. RowFollows'
  BY <1>1, <1>2 DEF RowFollows, Running
<1>9. QED  BY <1>5, <1>6, <1>7, <1>8 DEF DeviceInv

LEMMA AckDeviceInv ==
    ASSUME DeviceInv, Device!Ack
    PROVE  DeviceInv'
<1> DEFINE c == Device!Current
<1>1. /\ step = "ack" /\ step' = "reflect" /\ commands' = [commands EXCEPT ![c].status = "ACK"]
      /\ UNCHANGED <<engineOn, immobilized, asking, engine, batch, ran, disturbed>>
  BY DEF Device!Ack, Device!WithStatus
<1>2. c \in batch /\ c' = c
  <2>1. batch # {}
    BY <1>1 DEF DeviceInv, DeviceTypes
  <2>2. c' = c
    BY <1>1 DEF Device!Current
  <2>3. QED  BY <2>1, <2>2, CurrentIsFirst DEF DeviceInv
<1> HIDE DEF c
<1>3. commands \in Seq(Command) /\ c \in DOMAIN commands /\ c \notin Unsent
  BY <1>1, <1>2 DEF DeviceInv, DeviceTypes, BatchFirst
<1>4. /\ commands' \in Seq(Command) /\ DOMAIN commands' = DOMAIN commands
      /\ commands'[c].status = "ACK" /\ commands'[c].type = commands[c].type
      /\ \A i \in DOMAIN commands \ {c} : commands'[i] = commands[i]
  <2>0. commands[c] \in Command
    BY <1>3
  <2>1. [commands[c] EXCEPT !.status = "ACK"] \in Command
    BY <2>0 DEF Command
  <2>2. commands' = [commands EXCEPT ![c] = [commands[c] EXCEPT !.status = "ACK"]]
    BY <1>1, <1>3
  <2>3. DOMAIN commands' = DOMAIN commands /\ commands'[c] = [commands[c] EXCEPT !.status = "ACK"]
    BY <1>3, <2>2
  <2>4. commands' \in Seq(Command)
    BY <1>3, <2>1, <2>2
  <2>5. QED  BY <1>3, <2>0, <2>1, <2>2, <2>3, <2>4 DEF Command
<1>5. Unsent' = Unsent
  BY <1>3, <1>4 DEF Unsent
<1>6. DeviceTypes'
  BY <1>1, <1>4 DEF DeviceInv, DeviceTypes
<1>7. UnsentLast' /\ BatchFirst'
  BY <1>1, <1>4, <1>5 DEF DeviceInv, UnsentLast, BatchFirst
<1>8. ran # <<>> /\ ran[Len(ran)] = c
  BY <1>1 DEF DeviceInv, RanInOrder, Running, c
<1>9. RanInOrder'
  <2>1. \E k \in DOMAIN ran : ran[k] = c
    BY <1>8 DEF DeviceInv, DeviceTypes
  <2>2. \A i \in DOMAIN commands :
          commands'[i].status = "ACK" => \E k \in DOMAIN ran : ran[k] = i
    BY <1>4, <2>1 DEF DeviceInv, RanInOrder
  <2>3. Device!Current' = Device!Current
    BY <1>2 DEF c
  <2>4. QED  BY <1>1, <1>4, <1>5, <2>2, <2>3 DEF DeviceInv, RanInOrder, Running
<1>10. RowFollows'
  BY <1>1, <1>2, <1>4 DEF DeviceInv, RowFollows, Running, c
<1>11. QED  BY <1>6, <1>7, <1>9, <1>10 DEF DeviceInv

LEMMA ReflectDeviceInv ==
    ASSUME DeviceInv, Device!Reflect
    PROVE  DeviceInv'
<1> DEFINE c == Device!Current
<1>1. /\ step = "reflect" /\ batch' = batch \ {c}
      /\ step' = IF batch \ {c} = {} THEN "ping" ELSE "run"
      /\ engineOn' = (commands[c].type # "ENGINE_OFF")
      /\ immobilized' = (commands[c].type = "ENGINE_OFF")
      /\ UNCHANGED <<commands, asking, engine, ran, disturbed>>
  BY DEF Device!Reflect
<1>2. c \in batch /\ \A i \in batch : c <= i
  <2>1. batch # {}
    BY <1>1 DEF DeviceInv, DeviceTypes
  <2>2. QED  BY <2>1, CurrentIsFirst DEF DeviceInv
<1>3. ran # <<>> /\ ran[Len(ran)] = c
  BY <1>1 DEF DeviceInv, RanInOrder, Running
<1> HIDE DEF c
<1>4. Unsent' = Unsent
  BY <1>1 DEF Unsent
<1>5. commands[c] \in Command
  BY <1>2 DEF DeviceInv, DeviceTypes
<1>6. DeviceTypes'
  BY <1>1 DEF DeviceInv, DeviceTypes
<1>7. UnsentLast' /\ BatchFirst'
  BY <1>1, <1>4 DEF DeviceInv, UnsentLast, BatchFirst
<1>8. RanInOrder'
  <2>1. ran \in Seq(Nat) /\ batch \subseteq Nat
    BY DEF DeviceInv, DeviceTypes
  <2>2. \A k \in DOMAIN ran : ran[k] <= c
    BY <1>3, <2>1 DEF DeviceInv, RanInOrder
  <2>3. \A k \in DOMAIN ran : \A i \in batch \ {c} : ran[k] < i
    BY <1>2, <2>1, <2>2
  <2>4. QED  BY <1>1, <1>4, <2>3 DEF DeviceInv, RanInOrder, Running
<1>9. RowFollows'
  <2>1. ~disturbed => engine = (commands[c].type = "ENGINE_ON")
    BY <1>1 DEF DeviceInv, RowFollows, Running, c
  <2>2. commands[c].type = "ENGINE_ON" \/ commands[c].type = "ENGINE_OFF"
    BY <1>5 DEF Command, Device!CommandType
  <2>3. QED  BY <1>1, <2>1, <2>2 DEF RowFollows, Running
<1>10. QED  BY <1>6, <1>7, <1>8, <1>9 DEF DeviceInv

\* The rest of the turn, and what ends it.
LEMMA OtherDeviceInv ==
    ASSUME DeviceInv,
           Device!Ping \/ Device!Wake \/ Device!Fail \/ Device!Restart \/ Device!Drive
             \/ UNCHANGED Device!vars
    PROVE  DeviceInv'
<1>1. UNCHANGED <<commands, asking, immobilized, ran>>
  BY DEF Device!Ping, Device!Wake, Device!Fail, Device!Restart, Device!Drive, Device!vars,
         Device!server, Device!device
<1>2. Unsent' = Unsent
  BY <1>1 DEF Unsent
<1>3. CASE UNCHANGED <<step, batch, engine, engineOn, disturbed>>
  <2>1. Device!Current' = Device!Current
    BY <1>3 DEF Device!Current
  <2>2. DeviceTypes'
    BY <1>1, <1>3 DEF DeviceInv, DeviceTypes
  <2>3. QED
    BY <1>1, <1>2, <1>3, <2>1, <2>2 DEF DeviceInv, UnsentLast, BatchFirst, RanInOrder, RowFollows
<1>4. CASE /\ step' \in {"poll", "sleep"} /\ batch' = {}
           /\ \/ disturbed' = TRUE /\ engineOn' = engineOn /\ (engine' = engine \/ engine' = TRUE)
              \/ /\ step \notin Running /\ disturbed' = disturbed
                 /\ engine' = engine /\ (engineOn' = engine \/ engineOn' = engineOn)
  <2>1. DeviceTypes'
    BY <1>1, <1>4 DEF DeviceInv, DeviceTypes
  <2>2. UnsentLast' /\ BatchFirst' /\ RanInOrder'
    BY <1>1, <1>2, <1>4 DEF DeviceInv, UnsentLast, BatchFirst, RanInOrder, Running
  <2>3. RowFollows'
    <3>1. step' \notin Running
      BY <1>4 DEF Running
    <3>2. CASE disturbed' = TRUE
      BY <3>2 DEF RowFollows
    <3>3. CASE /\ step \notin Running /\ disturbed' = disturbed
               /\ engine' = engine /\ (engineOn' = engine \/ engineOn' = engineOn)
      <4>1. ~disturbed => immobilized = ~engine /\ engineOn = engine
        BY <3>3 DEF DeviceInv, RowFollows
      <4>2. QED  BY <1>1, <3>1, <3>3, <4>1 DEF RowFollows
    <3>4. QED  BY <1>4, <3>2, <3>3
  <2>4. QED  BY <2>1, <2>2, <2>3 DEF DeviceInv
<1>5. CASE Device!Drive \/ UNCHANGED Device!vars
  BY <1>3, <1>5 DEF Device!Drive, Device!vars, Device!server, Device!device
<1>6. CASE Device!Wake
  <2>1. batch' = {}
    BY <1>6 DEF Device!Wake, DeviceInv, DeviceTypes
  <2>2. QED  BY <1>4, <1>6, <2>1 DEF Device!Wake, Device!server, Running
<1>7. CASE Device!Ping
  <2>1. batch' = {}
    BY <1>7 DEF Device!Ping, DeviceInv, DeviceTypes
  <2>2. QED  BY <1>4, <1>7, <2>1 DEF Device!Ping, Running
<1>8. CASE Device!Fail \/ Device!Restart
  BY <1>4, <1>8 DEF Device!Fail, Device!Restart, Device!server
<1>9. QED  BY <1>5, <1>6, <1>7, <1>8

LEMMA DeviceInvHolds == Device!Spec => []DeviceInv
<1>1. DeviceInv /\ [Device!Next]_(Device!vars) => DeviceInv'
  BY ReadDeviceInv, CreateDeviceInv, PollReadDeviceInv, PollMarkDeviceInv, RunDeviceInv,
     AckDeviceInv, ReflectDeviceInv, OtherDeviceInv DEF Device!Next, Device!Turn
<1>2. QED  BY InitDeviceInv, <1>1, PTL DEF Device!Spec

-----------------------------------------------------------------------------
\* The driver's queue (DriverQueue).

Entry == [act : Actions, status : {"PENDING", "ERROR"}]
\* The actions of a sequence of entries.
Acts(s) == {s[i].act : i \in DOMAIN s}
Flushing == [on : BOOLEAN, todo : Seq(Entry), kept : Seq(Entry), now : SUBSET Actions]

QueueTypes ==
    /\ queue \in Seq(Entry)
    /\ elapsed \in SUBSET Actions
    /\ flush \in Flushing

\* What a flush has in hand is what it will write back.
QueueInv ==
    /\ QueueTypes
    /\ settled \subseteq Acts(queue) \cup executed \cup discarded
    /\ flush.on =>
         settled \subseteq Acts(flush.kept) \cup Acts(flush.todo) \cup executed \cup discarded

-----------------------------------------------------------------------------
\* What DriverQueue does to its sequences, told by the actions in them.

LEMMA ActsOfConcat ==
    ASSUME NEW s \in Seq(Entry), NEW t \in Seq(Entry)
    PROVE  /\ s \o t \in Seq(Entry)
           /\ Acts(s \o t) = Acts(s) \cup Acts(t)
<1>1. /\ s \o t \in Seq(Entry) /\ Len(s) \in Nat /\ Len(t) \in Nat
      /\ DOMAIN (s \o t) = 1..(Len(s) + Len(t))
      /\ \A i \in 1..(Len(s) + Len(t)) :
           (s \o t)[i] = IF i <= Len(s) THEN s[i] ELSE t[i - Len(s)]
  BY ConcatProperties
<1>2. DOMAIN s = 1..Len(s) /\ DOMAIN t = 1..Len(t)
  OBVIOUS
<1>3. Acts(s \o t) \subseteq Acts(s) \cup Acts(t)
  <2> SUFFICES ASSUME NEW i \in 1..(Len(s) + Len(t))
               PROVE  (s \o t)[i].act \in Acts(s) \cup Acts(t)
    BY <1>1 DEF Acts
  <2>1. CASE i <= Len(s)
    BY <1>1, <1>2, <2>1 DEF Acts
  <2>2. CASE ~(i <= Len(s))
    <3>1. i - Len(s) \in DOMAIN t /\ (s \o t)[i] = t[i - Len(s)]
      BY <1>1, <1>2, <2>2
    <3>2. QED  BY <3>1 DEF Acts
  <2>3. QED  BY <2>1, <2>2
<1>4. Acts(s) \subseteq Acts(s \o t)
  <2> SUFFICES ASSUME NEW i \in DOMAIN s PROVE s[i].act \in Acts(s \o t)
    BY DEF Acts
  <2>1. i \in DOMAIN (s \o t) /\ (s \o t)[i] = s[i]
    BY <1>1, <1>2
  <2>2. QED  BY <2>1 DEF Acts
<1>5. Acts(t) \subseteq Acts(s \o t)
  <2> SUFFICES ASSUME NEW i \in DOMAIN t PROVE t[i].act \in Acts(s \o t)
    BY DEF Acts
  <2>1. i + Len(s) \in DOMAIN (s \o t) /\ (s \o t)[i + Len(s)] = t[i]
    BY <1>1, <1>2
  <2>2. QED  BY <2>1 DEF Acts
<1>6. QED  BY <1>1, <1>3, <1>4, <1>5

LEMMA ActsOfSplit ==
    ASSUME NEW s \in Seq(Entry), NEW n \in 0..Len(s)
    PROVE  /\ SubSeq(s, 1, n) \in Seq(Entry) /\ SubSeq(s, n + 1, Len(s)) \in Seq(Entry)
           /\ Acts(SubSeq(s, 1, n)) \cup Acts(SubSeq(s, n + 1, Len(s))) = Acts(s)
<1>1. SubSeq(s, 1, n) \in Seq(Entry) /\ SubSeq(s, n + 1, Len(s)) \in Seq(Entry)
  BY SubSeqProperties
<1>2. SubSeq(s, 1, n) \o SubSeq(s, n + 1, Len(s)) = SubSeq(s, 1, Len(s))
  <2>1. 1 \in 1..(Len(s) + 1) /\ n \in (1 - 1)..Len(s) /\ Len(s) \in n..Len(s)
    OBVIOUS
  <2>2. QED  BY <2>1, ConcatAdjacentSubSeq
<1>3. SubSeq(s, 1, Len(s)) = s
  BY SubSeqFull
<1>4. Acts(SubSeq(s, 1, n) \o SubSeq(s, n + 1, Len(s)))
        = Acts(SubSeq(s, 1, n)) \cup Acts(SubSeq(s, n + 1, Len(s)))
  BY <1>1, ActsOfConcat
<1>5. QED  BY <1>1, <1>2, <1>3, <1>4

LEMMA SkippedIsAPlace ==
    ASSUME NEW todo \in Seq(Entry), NEW now
    PROVE  Phone!Skipped(todo, now) \in 0..Len(todo)
<1> DEFINE stops == {n \in 0..Len(todo) : n < Len(todo) => Phone!ToSend(todo[n + 1], now)}
<1>1. Len(todo) \in stops /\ stops \in SUBSET Nat
  OBVIOUS
<1>2. PICK n \in stops : \A m \in stops : n <= m
  <2> HIDE DEF stops
  <2>1. QED  BY <1>1, LeastNumber
<1>3. \A i \in 1..n : ~Phone!ToSend(todo[i], now)
  <2> SUFFICES ASSUME NEW i \in 1..n, Phone!ToSend(todo[i], now) PROVE FALSE
    OBVIOUS
  <2>1. i - 1 \in stops /\ i - 1 < n
    <3>1. i - 1 \in 0..Len(todo) /\ (i - 1) + 1 = i /\ i - 1 < n
      OBVIOUS
    <3>2. QED  BY <3>1
  <2>2. i - 1 \in Int /\ n \in Int
    OBVIOUS
  <2> HIDE DEF stops
  <2>3. n <= i - 1
    BY <1>2, <2>1
  <2>4. QED  BY <2>1, <2>2, <2>3
<1>4. \E k \in 0..Len(todo) :
        /\ \A i \in 1..k : ~Phone!ToSend(todo[i], now)
        /\ k < Len(todo) => Phone!ToSend(todo[k + 1], now)
  BY <1>3
<1>5. QED  BY <1>4 DEF Phone!Skipped

LEMMA AdvanceKeepsActs ==
    ASSUME NEW todo \in Seq(Entry), NEW kept \in Seq(Entry), NEW now \in SUBSET Actions,
           queue \in Seq(Entry), Phone!Advance(todo, kept, now)
    PROVE  /\ queue' \in Seq(Entry) /\ flush' \in Flushing
           /\ IF flush'.on
              THEN /\ queue' = queue
                   /\ Acts(flush'.kept) \cup Acts(flush'.todo) = Acts(kept) \cup Acts(todo)
              ELSE Acts(queue') = Acts(kept) \cup Acts(todo)
<1>1. PICK n \in 0..Len(todo) : n = Phone!Skipped(todo, now)
  BY SkippedIsAPlace
<1> DEFINE skipped == SubSeq(todo, 1, n)
           rest == SubSeq(todo, n + 1, Len(todo))
           all == kept \o skipped
<1>2. IF rest = <<>>
      THEN queue' = all /\ flush' = Phone!NoFlush
      ELSE queue' = queue /\ flush' = [on |-> TRUE, todo |-> rest, kept |-> all, now |-> now]
  BY <1>1 DEF Phone!Advance
<1>3. /\ skipped \in Seq(Entry) /\ rest \in Seq(Entry)
      /\ Acts(skipped) \cup Acts(rest) = Acts(todo)
  BY ActsOfSplit
<1> HIDE DEF skipped, rest
<1>4. all \in Seq(Entry) /\ Acts(all) = Acts(kept) \cup Acts(skipped)
  BY <1>3, ActsOfConcat
<1> HIDE DEF all
<1>5. CASE rest = <<>>
  <2>1. Acts(rest) = {}
    BY <1>5 DEF Acts
  <2>2. queue' = all /\ flush' = [on |-> FALSE, todo |-> <<>>, kept |-> <<>>, now |-> {}]
    BY <1>2, <1>5 DEF Phone!NoFlush
  <2>3. flush' \in Flushing /\ ~flush'.on
    BY <2>2 DEF Flushing
  <2>4. QED  BY <1>3, <1>4, <2>1, <2>2, <2>3
<1>6. CASE rest # <<>>
  <2>1. queue' = queue /\ flush' = [on |-> TRUE, todo |-> rest, kept |-> all, now |-> now]
    BY <1>2, <1>6
  <2>2. /\ flush' \in Flushing /\ flush'.on /\ flush'.todo = rest /\ flush'.kept = all
    BY <1>3, <1>4, <2>1 DEF Flushing
  <2>3. QED  BY <1>3, <1>4, <2>1, <2>2
<1>7. QED  BY <1>5, <1>6

-----------------------------------------------------------------------------
LEMMA InitQueueInv == Phone!Init => QueueInv
<1> SUFFICES ASSUME Phone!Init PROVE QueueInv
  OBVIOUS
<1>1. /\ queue = <<>> /\ elapsed = {} /\ settled = {}
      /\ flush = [on |-> FALSE, todo |-> <<>>, kept |-> <<>>, now |-> {}]
  BY DEF Phone!Init, Phone!NoFlush
<1>2. flush \in Flushing /\ ~flush.on
  BY <1>1 DEF Flushing
<1>3. queue \in Seq(Entry)
  BY <1>1
<1>4. QED  BY <1>1, <1>2, <1>3 DEF QueueInv, QueueTypes

LEMMA CallQueueInv ==
    ASSUME QueueInv, NEW a \in Actions, Phone!Call(a) \/ Phone!BackoffOver(a)
    PROVE  QueueInv'
<1>1. /\ UNCHANGED <<queue, flush, executed, discarded, settled>>
      /\ elapsed' \in SUBSET Actions
  BY DEF Phone!Call, Phone!BackoffOver, QueueInv, QueueTypes
<1>2. QED  BY <1>1 DEF QueueInv, QueueTypes, Acts

LEMMA CallAnswerQueueInv ==
    ASSUME QueueInv, NEW a \in Actions, NEW o \in Phone!Outcome, Phone!CallAnswer(a, o)
    PROVE  QueueInv'
<1>1. /\ executed \subseteq executed' /\ UNCHANGED <<flush, discarded>>
  BY DEF Phone!CallAnswer, Phone!Answered
<1>2. queue \in Seq(Entry) /\ elapsed \in SUBSET Actions /\ flush \in Flushing
  BY DEF QueueInv, QueueTypes
<1>3. CASE o.answer = "network"
  <2> DEFINE new == [act |-> a, status |-> "PENDING"]
  <2>1. /\ queue' = queue \o <<new>> /\ elapsed' = elapsed \cup {a}
        /\ settled' = IF flush.on THEN settled ELSE settled \cup {a}
    BY <1>2, <1>3 DEF Phone!CallAnswer
  <2>2. new \in Entry
    BY DEF Entry
  <2>3. <<new>> \in Seq(Entry) /\ Acts(<<new>>) = {a}
    BY <2>2 DEF Acts
  <2> HIDE DEF new
  <2>4. queue' \in Seq(Entry) /\ Acts(queue') = Acts(queue) \cup {a}
    <3>1. Acts(queue \o <<new>>) = Acts(queue) \cup Acts(<<new>>)
      BY <1>2, <2>3, ActsOfConcat
    <3>2. queue \o <<new>> \in Seq(Entry)
      BY <1>2, <2>3
    <3>3. QED  BY <2>1, <2>3, <3>1, <3>2
  <2>5. QueueTypes'
    BY <1>1, <1>2, <2>1, <2>4 DEF QueueTypes
  <2>6. settled' \subseteq Acts(queue') \cup executed' \cup discarded'
    BY <1>1, <2>1, <2>4 DEF QueueInv
  <2>7. flush'.on => settled' \subseteq
          Acts(flush'.kept) \cup Acts(flush'.todo) \cup executed' \cup discarded'
    BY <1>1, <2>1 DEF QueueInv
  <2>8. QED  BY <2>5, <2>6, <2>7 DEF QueueInv
<1>4. CASE o.answer # "network"
  <2>1. UNCHANGED <<queue, elapsed, settled>>
    BY <1>4 DEF Phone!CallAnswer
  <2>2. QueueTypes'
    BY <1>1, <1>2, <2>1 DEF QueueTypes
  <2>3. settled' \subseteq Acts(queue') \cup executed' \cup discarded'
    BY <1>1, <2>1 DEF QueueInv
  <2>4. flush'.on => settled' \subseteq
          Acts(flush'.kept) \cup Acts(flush'.todo) \cup executed' \cup discarded'
    BY <1>1, <2>1 DEF QueueInv
  <2>5. QED  BY <2>2, <2>3, <2>4 DEF QueueInv
<1>5. QED  BY <1>3, <1>4

LEMMA FlushStartQueueInv ==
    ASSUME QueueInv, Phone!FlushStart
    PROVE  QueueInv'
<1>1. /\ ~flush.on /\ Phone!Advance(queue, <<>>, elapsed)
      /\ UNCHANGED <<elapsed, executed, discarded, settled>>
  BY DEF Phone!FlushStart
<1>2. /\ queue \in Seq(Entry) /\ elapsed \in SUBSET Actions /\ <<>> \in Seq(Entry)
      /\ Acts(<<>>) = {}
  BY DEF QueueInv, QueueTypes, Acts
<1>3. /\ queue' \in Seq(Entry) /\ flush' \in Flushing
      /\ IF flush'.on
         THEN /\ queue' = queue
              /\ Acts(flush'.kept) \cup Acts(flush'.todo) = Acts(<<>>) \cup Acts(queue)
         ELSE Acts(queue') = Acts(<<>>) \cup Acts(queue)
  BY <1>1, <1>2, AdvanceKeepsActs
<1>4. QED  BY <1>1, <1>2, <1>3 DEF QueueInv, QueueTypes

LEMMA FlushAnswerQueueInv ==
    ASSUME QueueInv, NEW o \in Phone!Outcome, Phone!FlushAnswer(o)
    PROVE  QueueInv'
<1> DEFINE head == Head(flush.todo)
           left == Tail(flush.todo)
           again == Phone!Kept(head, o)
<1>1. /\ flush.on /\ flush.todo # <<>> /\ Phone!Answered(head.act, o)
      /\ Phone!Advance(left, flush.kept \o again, flush.now)
      /\ elapsed' = IF o.answer = "network" THEN elapsed \ {head.act} ELSE elapsed
      /\ UNCHANGED <<discarded, settled>>
  BY DEF Phone!FlushAnswer
<1>2. /\ queue \in Seq(Entry) /\ elapsed \in SUBSET Actions /\ flush \in Flushing
      /\ flush.todo \in Seq(Entry) /\ flush.kept \in Seq(Entry) /\ flush.now \in SUBSET Actions
  BY DEF QueueInv, QueueTypes, Flushing
<1>3. /\ head \in Entry /\ left \in Seq(Entry)
      /\ Acts(flush.todo) = {head.act} \cup Acts(left)
  <2>1. head \in Entry /\ left \in Seq(Entry) /\ <<head>> \in Seq(Entry)
    BY <1>1, <1>2, HeadTailProperties
  <2>2. flush.todo = <<head>> \o left
    BY <1>1, <1>2
  <2> HIDE DEF head, left
  <2>3. Acts(<<head>>) = {head.act}
    BY DEF Acts
  <2>4. Acts(<<head>> \o left) = Acts(<<head>>) \cup Acts(left)
    BY <2>1, ActsOfConcat
  <2>5. QED  BY <2>1, <2>2, <2>3, <2>4
<1> HIDE DEF head, left
<1>4. /\ again \in Seq(Entry)
      /\ head.act \in Acts(again) \/ head.act \in executed'
  <2>1. CASE o.answer = "ok"
    <3>1. o.ran = TRUE
      BY <2>1 DEF Phone!Outcome
    <3>2. again = <<>>
      BY <2>1 DEF Phone!Kept
    <3>3. QED  BY <1>1, <3>1, <3>2 DEF Phone!Answered
  <2>2. CASE o.answer = "network"
    <3>1. again = <<head>>
      BY <2>2 DEF Phone!Kept
    <3>2. QED  BY <1>3, <3>1 DEF Acts
  <2>3. CASE o.answer = "error"
    <3> DEFINE e == [head EXCEPT !.status = "ERROR"]
    <3>1. again = <<e>>
      BY <2>3 DEF Phone!Kept
    <3>2. e \in Entry /\ e.act = head.act
      BY <1>3 DEF Entry
    <3> HIDE DEF e
    <3>3. QED  BY <3>1, <3>2 DEF Acts
  <2>4. QED  BY <2>1, <2>2, <2>3 DEF Phone!Outcome
<1> HIDE DEF again
<1>5. /\ flush.kept \o again \in Seq(Entry)
      /\ Acts(flush.kept \o again) = Acts(flush.kept) \cup Acts(again)
  BY <1>2, <1>4, ActsOfConcat
<1> DEFINE kept == flush.kept \o again
<1>6. kept \in Seq(Entry) /\ Acts(kept) = Acts(flush.kept) \cup Acts(again)
  BY <1>5
<1>7. Phone!Advance(left, kept, flush.now)
  BY <1>1
<1> HIDE DEF kept
<1>8. /\ queue' \in Seq(Entry) /\ flush' \in Flushing
      /\ IF flush'.on
         THEN /\ queue' = queue
              /\ Acts(flush'.kept) \cup Acts(flush'.todo) = Acts(kept) \cup Acts(left)
         ELSE Acts(queue') = Acts(kept) \cup Acts(left)
  BY <1>2, <1>3, <1>6, <1>7, AdvanceKeepsActs
<1>9. executed \subseteq executed'
  BY <1>1 DEF Phone!Answered
<1>10. settled \subseteq Acts(kept) \cup Acts(left) \cup executed' \cup discarded
  <2>1. settled \subseteq Acts(flush.kept) \cup Acts(flush.todo) \cup executed \cup discarded
    BY <1>1 DEF QueueInv
  <2>2. QED  BY <1>3, <1>4, <1>6, <1>9, <2>1
<1>11. elapsed' \in SUBSET Actions
  BY <1>1, <1>2
<1>12. QED  BY <1>1, <1>8, <1>9, <1>10, <1>11 DEF QueueInv, QueueTypes

LEMMA ButtonQueueInv ==
    ASSUME QueueInv, NEW i \in DOMAIN queue, Phone!RetryAction(i) \/ Phone!DiscardAction(i)
    PROVE  QueueInv'
<1>1. /\ queue \in Seq(Entry) /\ elapsed \in SUBSET Actions /\ queue[i] \in Entry
      /\ i \in 1..Len(queue)
  BY DEF QueueInv, QueueTypes
<1>2. CASE Phone!RetryAction(i)
  <2> DEFINE e == [queue[i] EXCEPT !.status = "PENDING"]
  <2>1. /\ queue' = [queue EXCEPT ![i].status = "PENDING"] /\ elapsed' = elapsed \cup {queue[i].act}
        /\ UNCHANGED <<flush, executed, discarded, settled>>
    BY <1>2 DEF Phone!RetryAction
  <2>2. e \in Entry /\ e.act = queue[i].act
    BY <1>1 DEF Entry
  <2>3. queue' = [queue EXCEPT ![i] = e]
    BY <1>1, <2>1
  <2> HIDE DEF e
  <2>4. /\ queue' \in Seq(Entry) /\ DOMAIN queue' = DOMAIN queue
        /\ \A k \in DOMAIN queue : queue'[k].act = queue[k].act
    BY <1>1, <2>2, <2>3
  <2>5. Acts(queue') = Acts(queue)
    BY <2>4 DEF Acts
  <2>6. queue[i].act \in Actions
    BY <1>1 DEF Entry
  <2>7. QED  BY <1>1, <2>1, <2>4, <2>5, <2>6 DEF QueueInv, QueueTypes
<1>3. CASE Phone!DiscardAction(i)
  <2> DEFINE before == SubSeq(queue, 1, i - 1)
             after == SubSeq(queue, i + 1, Len(queue))
             this == SubSeq(queue, i, Len(queue))
  <2>1. /\ queue' = before \o after /\ discarded' = discarded \cup {queue[i].act}
        /\ UNCHANGED <<elapsed, flush, live, executed, settled>>
    BY <1>3 DEF Phone!DiscardAction, Phone!RemoveAt
  <2>2. /\ before \in Seq(Entry) /\ this \in Seq(Entry)
        /\ Acts(before) \cup Acts(this) = Acts(queue)
    <3>1. i - 1 \in 0..Len(queue) /\ (i - 1) + 1 = i
      BY <1>1
    <3>2. QED  BY <1>1, <3>1, ActsOfSplit
  <2>3. after \in Seq(Entry)
    BY <1>1, ActsOfSplit
  <2>4. Acts(this) = {queue[i].act} \cup Acts(after)
    <3>1. this = <<queue[i]>> \o after
      <4>1. Len(queue) \in i..Len(queue)
        BY <1>1
      <4>2. QED  BY <1>1, <4>1, SubSeqRecursiveFirst
    <3>2. <<queue[i]>> \in Seq(Entry)
      BY <1>1
    <3> HIDE DEF after
    <3>3. Acts(<<queue[i]>> \o after) = Acts(<<queue[i]>>) \cup Acts(after)
      BY <2>3, <3>2, ActsOfConcat
    <3>4. Acts(<<queue[i]>>) = {queue[i].act}
      BY DEF Acts
    <3>5. QED  BY <3>1, <3>3, <3>4
  <2> HIDE DEF before, after, this
  <2>5. queue' \in Seq(Entry) /\ Acts(queue') = Acts(before) \cup Acts(after)
    BY <2>1, <2>2, <2>3, ActsOfConcat
  <2>6. QED  BY <2>1, <2>2, <2>4, <2>5 DEF QueueInv, QueueTypes
<1>4. QED  BY <1>2, <1>3

LEMMA KillQueueInv ==
    ASSUME QueueInv, NEW carried \in SUBSET Phone!Sent, Phone!Kill(carried)
    PROVE  QueueInv'
<1>1. /\ flush' = [on |-> FALSE, todo |-> <<>>, kept |-> <<>>, now |-> {}]
      /\ executed' = executed \cup carried /\ elapsed' = elapsed \cup flush.now
      /\ UNCHANGED <<queue, discarded, settled>>
  BY DEF Phone!Kill, Phone!NoFlush
<1>2. flush' \in Flushing /\ ~flush'.on
  BY <1>1 DEF Flushing
<1>3. elapsed' \in SUBSET Actions
  BY <1>1 DEF QueueInv, QueueTypes, Flushing
<1>4. QED  BY <1>1, <1>2, <1>3 DEF QueueInv, QueueTypes

LEMMA QueueInvHolds == Phone!Spec => []QueueInv
<1>1. QueueInv /\ [Phone!Next]_(Phone!vars) => QueueInv'
  <2>1. QueueInv /\ UNCHANGED Phone!vars => QueueInv'
    BY DEF QueueInv, QueueTypes, Phone!vars
  <2>2. QueueInv /\ Phone!Next => QueueInv'
    BY CallQueueInv, CallAnswerQueueInv, FlushStartQueueInv, FlushAnswerQueueInv, ButtonQueueInv,
       KillQueueInv DEF Phone!Next
  <2>3. QED  BY <2>1, <2>2
<1>2. QED  BY InitQueueInv, <1>1, PTL DEF Phone!Spec

-----------------------------------------------------------------------------
\* The loops together.

\* For any constants: the loops share nothing, so every behaviour of the three together
\* is one of each of the modules they are written in.
THEOREM LoopsImplementParts ==
    BackgroundSpec => Spec /\ Device!Spec /\ Phone!Spec
<1>1. BackgroundInit => Init /\ Device!Init /\ Phone!Init
  BY DEF BackgroundInit
<1>2. [BackgroundNext]_backgroundVars
        => [Next]_vars /\ [Device!Next]_(Device!vars) /\ [Phone!Next]_(Phone!vars)
  <2>1. ASSUME OfPhone(Phone!Next)
        PROVE  UNCHANGED vars /\ UNCHANGED Device!vars
    BY <2>1 DEF OfPhone, deviceVars, Device!vars, Device!server, Device!device
  <2>2. ASSUME OfDevice(Device!Next)
        PROVE  UNCHANGED vars /\ UNCHANGED Phone!vars
    BY <2>2 DEF OfDevice, phoneVars, Phone!vars
  <2>3. ASSUME OfJob(Next)
        PROVE  UNCHANGED Phone!vars /\ UNCHANGED Device!vars
    BY <2>3 DEF OfJob, phoneVars, Phone!vars, deviceVars, Device!vars, Device!server, Device!device
  <2>4. ASSUME UNCHANGED backgroundVars
        PROVE  UNCHANGED vars /\ UNCHANGED Phone!vars /\ UNCHANGED Device!vars
    BY <2>4 DEF backgroundVars, phoneVars, Phone!vars, deviceVars, Device!vars, Device!server,
                Device!device
  <2>5. QED  BY <2>1, <2>2, <2>3, <2>4 DEF BackgroundNext, OfPhone, OfDevice, OfJob
<1>3. QED  BY <1>1, <1>2, PTL DEF BackgroundSpec, Spec, Device!Spec, Phone!Spec

\* For any bound on the commands, with or without failures: however answers are lost
\* and the device restarts, a command is carried out at most once, never after a later
\* one, and before it is acknowledged.
THEOREM CommandsRunOnceInOrder ==
    BackgroundSpec => []RunOnceInOrder
<1>1. DeviceInv => RunOnceInOrder
  BY DEF DeviceInv, RanInOrder, RunOnceInOrder, Device!RunOnceInOrder
<1>2. QED  BY LoopsImplementParts, DeviceInvHolds, <1>1, PTL

\* For any bound on the commands: until a request fails, between two turns of the
\* device the vehicle's row shows the engine as it is, and blocked when it is off.
THEOREM RowFollowsEngine ==
    BackgroundSpec => []RowMatchesEngine
<1>1. DeviceInv => RowMatchesEngine
  <2> SUFFICES ASSUME DeviceInv, ~disturbed, step \in {"sleep", "poll"}
               PROVE  immobilized = ~engine /\ engineOn = engine
    BY DEF RowMatchesEngine, Device!RowMatchesEngine
  <2>1. step \notin Running
    BY DEF Running
  <2>2. QED  BY <2>1 DEF DeviceInv, RowFollows
<1>2. QED  BY LoopsImplementParts, DeviceInvHolds, <1>1, PTL

\* For any actions and number of faults: what the driver's app queued while no flush
\* was in progress stays in the queue until the server carries it out or the driver
\* discards it, through kills in the middle of a flush, retries and rejections.
THEOREM NoSettledActionLost ==
    BackgroundSpec => []SettledActionsKept
<1>1. QueueInv => SettledActionsKept
  BY DEF QueueInv, QueueTypes, Acts, SettledActionsKept, Phone!SettledActionsKept, Phone!InQueue
<1>2. QED  BY LoopsImplementParts, QueueInvHolds, <1>1, PTL
=============================================================================
