--------------------------- MODULE DriverDayProofs ---------------------------
(***************************************************************************)
(* Proofs about DriverDay: for any actions, stops, dispatchers, starts and *)
(* faults, a route is handed over once, and once on its way only a start   *)
(* that is late takes it back, unless two dispatches found it PLANNED.     *)
(***************************************************************************)
EXTENDS DriverDay, FiniteSetTheorems, WellFoundedInduction, NaturalsInduction, TLAPS

Statuses == {"PLANNED", "DISPATCHED", "IN_PROGRESS", "COMPLETED"}
Rows(R) == [status : Statuses, driver : {Me, Other, None}, stop : [Stops -> R]]

\* The requests on their way, of the page's calls.
Calls == {a \in Actions : live[a] = "sent"}

DayTypes ==
    /\ \E R : server \in Rows(R)
    /\ desk \in [Desks -> {"idle", "read"}] /\ crossed \in BOOLEAN
    /\ start \in [Starts -> {"idle", "sent", "read"}]
    /\ \E V : live \in [Actions -> V]
    /\ IsFiniteSet(Calls)

\* A route that nobody has handed over is nobody's, and no start has found it otherwise;
\* until two cross, one who is about to hand it over has found it so, and it is still so.
DayInv ==
    /\ DayTypes
    /\ server.status = "PLANNED" => server.driver = None /\ Starting = {}
    /\ crossed \/ \A d \in Desks : desk[d] = "read" => server.status = "PLANNED"

-----------------------------------------------------------------------------
LEMMA MeIsSomebody == Me # None
<1> SUFFICES ASSUME Me = None PROVE FALSE
  OBVIOUS
<1>1. Cardinality({Me}) = 1 /\ IsFiniteSet({Me})
  BY FS_Singleton
<1>2. Cardinality({Me} \cup {Other}) \in {1, 2}
  BY <1>1, FS_AddElement
<1>3. {Me, Other, None} = {Me} \cup {Other}
  OBVIOUS
<1>4. QED  BY <1>2, <1>3, DayAssumption

LEMMA InitDayInv == DayInit => DayInv
<1> SUFFICES ASSUME DayInit PROVE DayInv
  OBVIOUS
<1>1. server \in Rows({"PENDING"})
  BY DEF DayInit, Rows, Statuses
<1>2. live \in [Actions -> {"new"}] /\ Calls = {}
  BY DEF DayInit, Init, Calls
<1>3. IsFiniteSet(Calls)
  BY <1>2, FS_EmptySet
<1>4. Starting = {}
  BY DEF DayInit, Starting
<1>5. QED  BY <1>1, <1>2, <1>3, <1>4 DEF DayInit, DayInv, DayTypes

-----------------------------------------------------------------------------
\* What the rows may become while nobody hands the route over.

Onward(rows, next) ==
    next.driver = rows.driver /\ next.status \in {rows.status, "COMPLETED"}

Became(a) == [arrive |-> "ARRIVED", complete |-> "COMPLETED", fail |-> "FAILED"][KindOf[a]]

\* An action of the driver carries the route nowhere else than to its end.
LEMMA HandleGoesOnward ==
    ASSUME NEW R, NEW rows \in Rows(R), NEW a, Became(a) \in R
    PROVE  Handle(rows, a) \in Rows(R) /\ Onward(rows, Handle(rows, a))
<1> DEFINE after == [rows EXCEPT !.stop[StopOf[a]] = Became(a)]
<1>1. /\ after \in Rows(R) /\ after.driver = rows.driver /\ after.status = rows.status
  BY DEF Rows
<1>2. Handle(rows, a) \in {after, [after EXCEPT !.status = "COMPLETED"]}
  BY DEF Handle, Became
<1> HIDE DEF after
<1>3. /\ [after EXCEPT !.status = "COMPLETED"] \in Rows(R)
      /\ [after EXCEPT !.status = "COMPLETED"].driver = after.driver
      /\ [after EXCEPT !.status = "COMPLETED"].status = "COMPLETED"
  BY <1>1 DEF Rows, Statuses
<1>4. QED  BY <1>1, <1>2, <1>3 DEF Onward

\* There is always room for one more status of a stop.
LEMMA RoomForOne ==
    ASSUME NEW R, NEW T, NEW rows \in Rows(R)
    PROVE  rows \in Rows(R \cup T)
  BY DEF Rows

-----------------------------------------------------------------------------
\* A loop over what the phone had sent.

LEMMA LeastNumber ==
    ASSUME NEW S \in SUBSET Nat, S # {}
    PROVE  \E n \in S : \A m \in S : n <= m
<1> DEFINE less == {ss \in Nat \X Nat : ss[1] < ss[2]}
<1>1. IsWellFoundedOn(less, Nat)
  BY NatLessThanWellFounded DEF OpToRel
<1>2. \A m, n \in S : m < n => <<m, n>> \in less
  OBVIOUS
<1> HIDE DEF less
<1>3. PICK n \in S : \A m \in S : <<m, n>> \notin less
  BY <1>1, WFMin
<1>4. \A m \in S : ~(m < n)
  BY <1>2, <1>3
<1>5. \A m \in S : m \in Nat /\ n \in Nat
  OBVIOUS
<1>6. \A m \in S : n <= m
  BY <1>4, <1>5
<1>7. QED  BY <1>6

\* What the loops over a sequence compute: each turn from the one before it.  There is
\* such a function ...
CanRun(S, n, from, T) ==
    \E f \in [0..n -> S] : f[0] = from /\ \A i \in 1..n : f[i] = T[i][f[i - 1]]

LEMMA TurnsExist ==
    ASSUME NEW n \in Nat, NEW S, NEW from \in S, NEW T \in [1..n -> [S -> S]]
    PROVE  CanRun(S, n, from, T)
<1> DEFINE Upto(m) == \E f \in [0..m -> S] : f[0] = from /\ \A i \in 1..m : f[i] = T[i][f[i - 1]]
           bad == {m \in 0..n : ~Upto(m)}
<1> SUFFICES ASSUME bad # {} PROVE FALSE
  <2>1. bad = {} => Upto(n)
    <3> HIDE DEF Upto
    <3>1. QED  OBVIOUS
  <2>2. QED  BY <2>1 DEF CanRun
<1>1. bad \in SUBSET Nat
  OBVIOUS
<1>2. PICK m \in bad : \A k \in bad : m <= k
  <2> HIDE DEF bad
  <2>1. QED  BY <1>1, LeastNumber
<1>3. m \in 0..n /\ ~Upto(m)
  OBVIOUS
<1>4. m # 0
  <2>1. Upto(0)
    <3> DEFINE f == [i \in 0..0 |-> from]
    <3>1. f \in [0..0 -> S] /\ f[0] = from /\ 1..0 = {}
      OBVIOUS
    <3>2. QED  BY <3>1
  <2>2. QED  BY <1>3, <2>1
<1>5. m - 1 \in 0..n /\ m - 1 \notin bad
  <2> HIDE DEF bad
  <2>1. m - 1 \in 0..n /\ ~(m <= m - 1)
    BY <1>3, <1>4
  <2>2. QED  BY <1>2, <2>1
<1>6. PICK g \in [0..(m - 1) -> S] : g[0] = from /\ \A i \in 1..(m - 1) : g[i] = T[i][g[i - 1]]
  BY <1>5
<1> DEFINE f == [i \in 0..m |-> IF i = m THEN T[m][g[m - 1]] ELSE g[i]]
<1> HIDE DEF bad
<1>7. f[0] = from /\ \A i \in 1..m : f[i] = T[i][f[i - 1]]
  BY <1>3, <1>4, <1>6
<1>8. f \in [0..m -> S]
  <2>1. T[m][g[m - 1]] \in S
    BY <1>3, <1>4, <1>6
  <2>2. QED  BY <1>3, <1>4, <1>6, <2>1
<1>9. Upto(m)
  BY <1>7, <1>8
<1>10. QED  BY <1>3, <1>9

\* ... and only one.
Follow(f, g, n) == f[0] = g[0] /\ \A i \in 1..n : f[i - 1] = g[i - 1] => f[i] = g[i]
Agree(f, g, n) == \A i \in 0..n : f[i] = g[i]

LEMMA TurnsAgree ==
    ASSUME NEW n \in Nat, NEW f, NEW g, Follow(f, g, n)
    PROVE  Agree(f, g, n)
<1> DEFINE bad == {m \in 0..n : f[m] # g[m]}
<1> SUFFICES ASSUME bad # {} PROVE FALSE
  BY DEF Agree
<1>1. bad \in SUBSET Nat
  OBVIOUS
<1>2. PICK m \in bad : \A k \in bad : m <= k
  <2> HIDE DEF bad
  <2>1. QED  BY <1>1, LeastNumber
<1>3. m \in 1..n /\ f[m] # g[m]
  BY <1>2 DEF Follow
<1>4. m - 1 \in 0..n /\ ~(m <= m - 1)
  BY <1>3
<1>5. f[m - 1] = g[m - 1]
  BY <1>2, <1>4
<1>6. QED  BY <1>3, <1>5 DEF Follow

\* What is carried out one after another once the page is gone.
Room(order, n, R) ==
    /\ server \in Rows(R)
    /\ n \in Nat /\ Len(order) = n /\ DOMAIN order = 1..n
    /\ \A i \in 1..n : Became(order[i]) \in R

Replayed(order, n, f) ==
    f[0] = server /\ \A i \in 1..n : f[i] = Handle(f[i - 1], order[i])

LEMMA ReplayExists ==
    ASSUME NEW R, NEW order, NEW n, Room(order, n, R)
    PROVE  \E f \in [0..n -> {r \in Rows(R) : Onward(server, r)}] : Replayed(order, n, f)
<1> DEFINE S == {r \in Rows(R) : Onward(server, r)}
           T == [i \in 1..n |-> [r \in S |-> Handle(r, order[i])]]
<1>1. server \in S
  BY DEF Room, Onward
<1>2. ASSUME NEW i \in 1..n, NEW r \in S PROVE Handle(r, order[i]) \in S
  <2>1. Handle(r, order[i]) \in Rows(R) /\ Onward(r, Handle(r, order[i]))
    BY HandleGoesOnward DEF Room
  <2>2. QED  BY <2>1 DEF Onward
<1>3. T \in [1..n -> [S -> S]]
  BY <1>2
<1>4. \A i \in 1..n, r \in S : T[i][r] = Handle(r, order[i])
  OBVIOUS
<1> HIDE DEF T, S
<1>5. PICK f \in [0..n -> S] : f[0] = server /\ \A i \in 1..n : f[i] = T[i][f[i - 1]]
  <2>1. CanRun(S, n, server, T)
    BY <1>1, <1>3, TurnsExist DEF Room
  <2>2. QED  BY <2>1 DEF CanRun
<1>6. \A i \in 1..n : f[i] = Handle(f[i - 1], order[i])
  <2>1. \A i \in 1..n : f[i - 1] \in S
    BY DEF Room
  <2>2. QED  BY <1>4, <1>5, <2>1
<1>7. QED  BY <1>5, <1>6 DEF Replayed, S

LEMMA ReplayGoesOnward ==
    ASSUME NEW R, NEW order, NEW n, Room(order, n, R), Replay(order)
    PROVE  /\ server' \in Rows(R) /\ Onward(server, server')
           /\ server.driver = Me \/ server' = server
<1> DEFINE IsRun(r) == r = [i \in 0..n |-> IF i = 0 THEN server ELSE Handle(r[i - 1], order[i])]
           run == CHOOSE r : IsRun(r)
<1>1. PICK f \in [0..n -> {r \in Rows(R) : Onward(server, r)}] : Replayed(order, n, f)
  BY ReplayExists
<1>2. IsRun(f)
  BY <1>1 DEF Replayed
<1>3. IsRun(run)
  <2> HIDE DEF IsRun
  <2>1. QED  BY <1>2
<1>4. PICK g : g = run /\ Replayed(order, n, g)
  <2>1. Replayed(order, n, run)
    <3> HIDE DEF run
    <3>1. QED  BY <1>3 DEF Replayed, Room
  <2> HIDE DEF run
  <2>2. QED  BY <2>1
<1>5. /\ \A i \in 1..n : ~Refuses(run[i - 1], order[i])
      /\ server' = run[n]
  BY DEF Replay, Room
<1> HIDE DEF run, IsRun
<1>6. Agree(f, g, n)
  BY <1>1, <1>4, TurnsAgree DEF Follow, Replayed, Room
<1>7. server' = f[n] /\ n \in 0..n
  BY <1>4, <1>5, <1>6 DEF Agree, Room
<1>8. CASE n = 0
  BY <1>1, <1>7, <1>8 DEF Replayed
<1>9. CASE n # 0
  <2>1. 1 \in 1..n /\ 1 - 1 = 0
    BY <1>9 DEF Room
  <2>2. ~Refuses(server, order[1])
    BY <1>4, <1>5, <2>1 DEF Replayed
  <2>3. QED  BY <1>1, <1>7, <2>2 DEF Refuses
<1>10. server' \in {r \in Rows(R) : Onward(server, r)}
  BY <1>1, <1>7
<1>11. QED  BY <1>8, <1>9, <1>10

-----------------------------------------------------------------------------
\* The steps.

\* Where the rows may go in a step, while no two dispatches have crossed.
Forward ==
    /\ server.driver # None => server'.driver = server.driver
    /\ OnItsWay(server) =>
         /\ OnItsWay(server') /\ Starting' \subseteq Starting
         /\ Starting = {} => server'.status \in {server.status, "COMPLETED"}

\* Starts may come to their end, and others be sent.
StartsEnd ==
    /\ start' \in [Starts -> {"idle", "sent", "read"}]
    /\ Starting' \subseteq Starting

\* The calls of the page stay finitely many: one more at a time.
LEMMA CallsStayFinite ==
    ASSUME DayTypes,
           \/ UNCHANGED live
           \/ \E a \in Actions : Call(a) \/ \E o \in Outcome : CallAnswer(a, o)
           \/ \E ran : Kill(ran)
    PROVE  (\E V : live \in [Actions -> V])' /\ IsFiniteSet(Calls)'
<1>1. PICK V : live \in [Actions -> V]
  BY DEF DayTypes
<1>2. CASE UNCHANGED live
  BY <1>1, <1>2 DEF DayTypes, Calls
<1>3. ASSUME NEW a \in Actions, Call(a)
      PROVE  (\E W : live \in [Actions -> W])' /\ IsFiniteSet(Calls)'
  <2>1. live' \in [Actions -> V \cup {"sent"}]
    BY <1>1, <1>3 DEF Call
  <2>2. Calls' \subseteq Calls \cup {a}
    BY <1>1, <1>3 DEF Call, Calls
  <2>3. IsFiniteSet(Calls \cup {a})
    BY FS_AddElement DEF DayTypes
  <2>4. QED  BY <2>1, <2>2, <2>3, FS_Subset
<1>4. ASSUME NEW a \in Actions, NEW o \in Outcome, CallAnswer(a, o)
      PROVE  (\E W : live \in [Actions -> W])' /\ IsFiniteSet(Calls)'
  <2>1. PICK w : w # "sent" /\ live' = [live EXCEPT ![a] = w]
    BY <1>4 DEF CallAnswer, Outcome
  <2>2. live' \in [Actions -> V \cup {w}]
    BY <1>1, <2>1
  <2>3. Calls' \subseteq Calls
    BY <1>1, <2>1 DEF Calls
  <2>4. QED  BY <2>2, <2>3, FS_Subset DEF DayTypes
<1>5. ASSUME NEW ran, Kill(ran)
      PROVE  (\E W : live \in [Actions -> W])' /\ IsFiniteSet(Calls)'
  <2>1. live' = [a \in Actions |-> IF live[a] = "sent" THEN "killed" ELSE live[a]]
    BY <1>5 DEF Kill
  <2>2. live' \in [Actions -> V \cup {"killed"}] /\ Calls' = {}
    BY <1>1, <2>1 DEF Calls
  <2>3. QED  BY <2>2, FS_EmptySet
<1>6. QED  BY <1>2, <1>3, <1>4, <1>5

\* What the API does with this driver's actions takes the route onward, and a route
\* about to be handed over is not his.
LEMMA OnwardDayInv ==
    ASSUME DayInv, NEW R, server' \in Rows(R), Onward(server, server'),
           server.driver = Me \/ server' = server, UNCHANGED <<desk, crossed>>,
           StartsEnd, (\E V : live \in [Actions -> V])', IsFiniteSet(Calls)'
    PROVE  DayInv' /\ Forward
<1>1. DayTypes'
  BY DEF DayInv, DayTypes, StartsEnd
<1>2. server.driver = Me => server.status # "PLANNED"
  BY MeIsSomebody DEF DayInv
<1>3. server'.status = "PLANNED" => server'.driver = None /\ Starting' = {}
  BY <1>2 DEF DayInv, Onward, StartsEnd
<1>4. crossed' \/ \A d \in Desks : desk'[d] = "read" => server'.status = "PLANNED"
  BY <1>2 DEF DayInv
<1>5. Forward
  BY DEF Onward, Forward, OnItsWay, StartsEnd
<1>6. QED  BY <1>1, <1>3, <1>4, <1>5 DEF DayInv

\* Most steps have nothing to do with the starts.
LEMMA StartsStay ==
    ASSUME DayInv, UNCHANGED start
    PROVE  StartsEnd
  BY DEF DayInv, DayTypes, StartsEnd, Starting

LEMMA DispatchReadDayInv ==
    ASSUME DayInv, NEW d \in Desks, DispatchRead(d)
    PROVE  DayInv' /\ Forward
<1>1. /\ UNCHANGED <<server, crossed, start, live>> /\ server.status = "PLANNED"
      /\ desk' = [desk EXCEPT ![d] = "read"]
  BY DEF DispatchRead, vars, startVars
<1>2. DayTypes'
  BY <1>1, CallsStayFinite DEF DayInv, DayTypes
<1>3. QED  BY <1>1, <1>2 DEF DayInv, Forward, OnItsWay, Starting

LEMMA DispatchWriteDayInv ==
    ASSUME DayInv, NEW d \in Desks, NEW driver \in {Me, Other}, DispatchWrite(d, driver)
    PROVE  DayInv' /\ (crossed' \/ Forward)
<1>1. PICK R : server \in Rows(R)
  BY DEF DayInv, DayTypes
<1>2. /\ server' = [server EXCEPT !.status = "DISPATCHED", !.driver = driver]
      /\ desk[d] = "read" /\ desk' = [desk EXCEPT ![d] = "idle"]
      /\ crossed' = (crossed \/ \E e \in Desks \ {d} : desk[e] = "read")
      /\ UNCHANGED <<live, start>>
  BY DEF DispatchWrite, vars, startVars
<1>3. /\ server' \in Rows(R) /\ server'.status = "DISPATCHED"
  BY <1>1, <1>2 DEF Rows, Statuses
<1>4. DayTypes'
  <2>1. desk' \in [Desks -> {"idle", "read"}] /\ crossed' \in BOOLEAN
    BY <1>2 DEF DayInv, DayTypes
  <2>2. QED  BY <1>2, <1>3, <2>1, CallsStayFinite DEF DayInv, DayTypes
<1>5. crossed' \/ \A e \in Desks : desk'[e] # "read"
  BY <1>2 DEF DayInv, DayTypes
<1>6. crossed \/ Forward
  BY <1>2 DEF DayInv, Forward, OnItsWay
<1>7. QED  BY <1>2, <1>3, <1>4, <1>5, <1>6 DEF DayInv

\* A start that finds the route handed over to its driver and not on its way ...
LEMMA StartReadDayInv ==
    ASSUME DayInv, NEW k \in Starts, StartRead(k)
    PROVE  DayInv' /\ Forward
<1>1. /\ UNCHANGED <<server, desk, crossed, live>> /\ server.status = "DISPATCHED"
      /\ start' = [start EXCEPT ![k] = "read"]
  BY DEF StartRead, vars
<1>2. DayTypes'
  BY <1>1, CallsStayFinite DEF DayInv, DayTypes
<1>3. QED  BY <1>1, <1>2 DEF DayInv, Forward, OnItsWay

\* ... writes it later, whatever it is by then: it has been handed over, so that nobody is
\* about to hand it over again.
LEMMA StartEndsStarts ==
    ASSUME DayInv, NEW k \in Starts, StartEnds(k)
    PROVE  StartsEnd
<1>1. start' = [start EXCEPT ![k] = "idle"]
  BY DEF StartEnds
<1>2. QED  BY <1>1 DEF DayInv, DayTypes, StartsEnd, Starting

LEMMA StartWriteDayInv ==
    ASSUME DayInv, NEW k \in Starts, StartWrite(k)
    PROVE  DayInv' /\ Forward
<1>1. /\ server' = [server EXCEPT !.status = "IN_PROGRESS"] /\ start[k] = "read"
      /\ UNCHANGED <<desk, crossed, live>>
  BY DEF StartWrite, vars
<1>2. PICK R : server \in Rows(R)
  BY DEF DayInv, DayTypes
<1>3. (\E V : live \in [Actions -> V])' /\ IsFiniteSet(Calls)'
  BY <1>1, CallsStayFinite DEF DayInv
<1>4. /\ server' \in Rows(R) /\ server'.status = "IN_PROGRESS"
      /\ server'.driver = server.driver
  BY <1>1, <1>2 DEF Rows, Statuses
<1>5. StartsEnd
  BY StartEndsStarts DEF StartWrite
<1>6. DayTypes'
  BY <1>1, <1>3, <1>4, <1>5 DEF DayInv, DayTypes, StartsEnd
<1>7. Starting # {} /\ server.status # "PLANNED"
  BY <1>1 DEF DayInv, Starting
<1>8. crossed \/ \A d \in Desks : desk[d] # "read"
  BY <1>7 DEF DayInv
<1>9. Forward
  BY <1>4, <1>5, <1>7 DEF Forward, OnItsWay, StartsEnd
<1>10. QED  BY <1>1, <1>4, <1>6, <1>8, <1>9 DEF DayInv

LEMMA ServedDayInv ==
    ASSUME DayInv, NEW a, NEW o \in Outcome, NEW unsigned, Served(a, o, unsigned),
           UNCHANGED <<desk, crossed, start>>,
           \/ UNCHANGED live
           \/ \E b \in Actions : CallAnswer(b, o)
    PROVE  DayInv' /\ Forward
<1>1. PICK R : server \in Rows(R)
  BY DEF DayInv, DayTypes
<1>2. (\E V : live \in [Actions -> V])' /\ IsFiniteSet(Calls)'
  BY CallsStayFinite DEF DayInv
<1>3. server \in Rows(R \cup {Became(a)})
  BY <1>1, RoomForOne
<1>4. CASE o.ran
  <2>1. server' = Handle(server, a) /\ server.driver = Me
    BY <1>4 DEF Served, Refuses
  <2>2. /\ server' \in Rows(R \cup {Became(a)}) /\ Onward(server, server')
    BY <1>3, <2>1, HandleGoesOnward
  <2>3. QED  BY <1>2, <2>1, <2>2, StartsStay, OnwardDayInv
<1>5. CASE ~o.ran
  <2>1. server' = server
    BY <1>5 DEF Served
  <2>2. QED  BY <1>1, <1>2, <2>1, StartsStay, OnwardDayInv DEF Onward
<1>6. QED  BY <1>4, <1>5

LEMMA ReopenDayInv ==
    ASSUME DayInv, Reopen
    PROVE  DayInv' /\ Forward
<1>1. PICK ran \in SUBSET Sent : Kill(ran) /\ \E order \in SetToSeqs(ran) : Replay(order)
  BY DEF Reopen
<1>2. PICK order \in SetToSeqs(ran) : Replay(order)
  BY <1>1
<1>3. IsFiniteSet(ran)
  <2> DEFINE Flushed == {flush.todo[i].act : i \in DOMAIN flush.todo \cap {1}}
  <2>1. IsFiniteSet({flush.todo[1].act})
    BY FS_Singleton
  <2>2. IsFiniteSet(Flushed)
    <3>1. Flushed \subseteq {flush.todo[1].act}
      OBVIOUS
    <3> HIDE DEF Flushed
    <3>2. QED  BY <2>1, <3>1, FS_Subset
  <2>3. Sent = Calls \cup Flushed
    BY DEF Sent, Calls
  <2> HIDE DEF Flushed
  <2>4. QED  BY <2>2, <2>3, FS_Union, FS_Subset DEF DayInv, DayTypes
<1>4. PICK n \in Nat : n = Cardinality(ran)
  BY <1>3, FS_CardinalityType
<1>5. order \in [1..n -> ran]
  BY <1>4 DEF SetToSeqs
<1>6. PICK R : server \in Rows(R)
  BY DEF DayInv, DayTypes
<1> DEFINE Q == R \cup {Became(a) : a \in ran}
<1>7. Room(order, n, Q)
  <2>1. server \in Rows(Q)
    BY <1>6, RoomForOne
  <2>2. Len(order) = n /\ DOMAIN order = 1..n
    BY <1>5
  <2>3. \A i \in 1..n : Became(order[i]) \in Q
    BY <1>5
  <2> HIDE DEF Q
  <2>4. QED  BY <2>1, <2>2, <2>3 DEF Room
<1> HIDE DEF Q
<1>8. /\ server' \in Rows(Q) /\ Onward(server, server')
      /\ server.driver = Me \/ server' = server
  BY <1>2, <1>7, ReplayGoesOnward
<1>9. (\E V : live \in [Actions -> V])' /\ IsFiniteSet(Calls)'
  BY <1>1, CallsStayFinite DEF DayInv
<1>10. UNCHANGED <<desk, crossed, start>>
  BY DEF Reopen
<1>11. QED  BY <1>8, <1>9, <1>10, StartsStay, OnwardDayInv

\* Everything else leaves the rows as they are.
LEMMA QuietDayInv ==
    ASSUME DayInv, UNCHANGED <<server, desk, crossed>>, StartsEnd,
           UNCHANGED live \/ \E a \in Actions : Call(a)
    PROVE  DayInv' /\ Forward
<1>1. PICK R : server \in Rows(R)
  BY DEF DayInv, DayTypes
<1>2. (\E V : live \in [Actions -> V])' /\ IsFiniteSet(Calls)'
  BY CallsStayFinite DEF DayInv
<1>3. QED  BY <1>1, <1>2, OnwardDayInv DEF Onward

LEMMA StepDayInv ==
    ASSUME DayInv, [DayNext]_allVars
    PROVE  DayInv' /\ (crossed' \/ Forward)
<1>1. ASSUME NEW d \in Desks, DispatchRead(d) PROVE DayInv' /\ Forward
  BY <1>1, DispatchReadDayInv
<1>2. ASSUME NEW d \in Desks, NEW driver \in {Me, Other}, DispatchWrite(d, driver)
      PROVE  DayInv' /\ (crossed' \/ Forward)
  BY <1>2, DispatchWriteDayInv
<1>3. CASE LoadDue \/ Poll \/ Pull \/ LoadAnswer \/ LoadFails
  BY <1>3, StartsStay, QuietDayInv
  DEF LoadDue, Poll, Pull, Load, LoadAnswer, LoadFails, vars, startVars
<1>4. ASSUME NEW k \in Starts, StartRoute(k) \/ StartRead(k) \/ StartWrite(k) \/ StartFails(k)
      PROVE  DayInv' /\ Forward
  <2>1. CASE StartRoute(k)
    <3>1. start' = [start EXCEPT ![k] = "sent"]
      BY <2>1 DEF StartRoute
    <3>2. StartsEnd
      BY <3>1 DEF DayInv, DayTypes, StartsEnd, Starting
    <3>3. QED  BY <2>1, <3>2, QuietDayInv DEF StartRoute, vars
  <2>2. CASE StartRead(k)
    BY <2>2, StartReadDayInv
  <2>3. CASE StartWrite(k)
    BY <2>3, StartWriteDayInv
  <2>4. CASE StartFails(k)
    <3>1. StartsEnd
      BY <2>4, StartEndsStarts DEF StartFails
    <3>2. QED  BY <2>4, <3>1, QuietDayInv DEF StartFails, vars
  <2>5. QED  BY <1>4, <2>1, <2>2, <2>3, <2>4
<1>5. CASE StartLost \/ CloseSheet \/ \E s \in Stops : OpenSheet(s)
  BY <1>5, StartsStay, QuietDayInv DEF StartLost, CloseSheet, OpenSheet, vars, startVars
<1>6. ASSUME NEW a \in Actions, Tap(a) PROVE DayInv' /\ Forward
  BY <1>6, StartsStay, QuietDayInv DEF Tap, startVars
<1>7. ASSUME NEW a \in Actions, NEW o \in Outcome, TapAnswer(a, o) PROVE DayInv' /\ Forward
  <2>1. CallAnswer(a, o) /\ Served(a, o, FALSE) /\ UNCHANGED <<desk, crossed, start>>
    BY <1>7 DEF TapAnswer, startVars
  <2>2. QED  BY <2>1, ServedDayInv
<1>8. CASE FlushBegins
  BY <1>8, StartsStay, QuietDayInv DEF FlushBegins, FlushStart, startVars
<1>9. ASSUME NEW o \in Outcome, FlushGoesOn(o) PROVE DayInv' /\ Forward
  <2>1. /\ Served(Head(flush.todo).act, o, bare) /\ UNCHANGED <<desk, crossed, start>>
        /\ UNCHANGED live
    BY <1>9 DEF FlushGoesOn, FlushAnswer, startVars
  <2>2. QED  BY <2>1, ServedDayInv
<1>10. CASE OnQueue
  BY <1>10, StartsStay, QuietDayInv
  DEF OnQueue, dayVars, startVars, BackoffOver, RetryAction, DiscardAction
<1>11. CASE Expire \/ LogOut \/ LogIn
  BY <1>11, StartsStay, QuietDayInv DEF Expire, LogOut, LogIn, vars, startVars
<1>12. CASE Reopen
  BY <1>12, ReopenDayInv
<1>13. CASE UNCHANGED allVars
  BY <1>13, StartsStay, QuietDayInv DEF allVars, dayVars, startVars, vars
<1>14. QED
  BY <1>1, <1>2, <1>3, <1>4, <1>5, <1>6, <1>7, <1>8, <1>9, <1>10, <1>11, <1>12, <1>13
  DEF DayNext

\* For any actions, stops, dispatchers, starts, loads and faults: whatever the phone sends
\* again and from however old a view, and in whatever order the API carries out what was on
\* its way when the page died, a route is handed to a driver once; once it is on its way it
\* is not waiting to be started again, and it goes back from its end only by a start that
\* had found it waiting; all of it unless two dispatches found it PLANNED.
THEOREM RoutesAreHandedOverOnce == DaySpec => HandedOverOnce
<1> DEFINE Goes == \/ crossed'
                   \/ /\ server.driver # None => server'.driver = server.driver
                      /\ OnItsWay(server) =>
                           /\ OnItsWay(server') /\ Starting' \subseteq Starting
                           /\ Starting = {} => server'.status \in {server.status, "COMPLETED"}
<1>1. DayInv /\ [DayNext]_allVars => DayInv' /\ [Goes]_allVars
  BY StepDayInv DEF Forward
<1>2. QED  BY InitDayInv, <1>1, PTL DEF DaySpec, HandedOverOnce
=============================================================================
