------------------------ MODULE RouteExecutionProofs ------------------------
(***************************************************************************)
(* Proofs about RouteExecution, for any routes, stops, orders and drivers  *)
(* and any number of requests in flight.                                   *)
(***************************************************************************)
EXTENDS RouteExecution, TLAPS

\* The rows and the handlers keep their types.
THEOREM TypeCorrect == Spec => []TypeOK
<1>1. Init => TypeOK
  BY RowsAssumption DEF Init, TypeOK, RouteStatus, StopStatus, OrderStatus, PodOrigin, RouteSteps, StopSteps, AfterCommit
<1>2. TypeOK /\ [Next]_vars => TypeOK'
  <2> SUFFICES ASSUME TypeOK, [Next]_vars PROVE TypeOK'
    OBVIOUS
  <2> USE RowsAssumption DEF TypeOK, RouteStatus, StopStatus, OrderStatus, PodOrigin,
            RouteSteps, StopSteps, AfterCommit, Begin, Goto, Finish, rows
  <2>1. ASSUME NEW h \in Handlers, Arrival(h) PROVE TypeOK'
    BY <2>1 DEF Arrival, DispatchRead, StartRead, ArriveRead, CompleteRead, FailRead
  <2>2. ASSUME NEW h \in Handlers, Continue(h) PROVE TypeOK'
    <3>1. CASE \E d \in Drivers : DispatchWrite(h, d)
      BY <3>1 DEF DispatchWrite
    <3>2. CASE StartRoute(h)
      BY <3>2 DEF StartRoute
    <3>3. CASE StartOrders(h)
      BY <3>3 DEF StartOrders
    <3>4. CASE ArriveWrite(h)
      BY <3>4 DEF ArriveWrite
    <3>5. CASE CompleteCommit(h)
      BY <3>5 DEF CompleteCommit, CompleteRows
    <3>6. CASE CompleteConflict(h)
      BY <3>6 DEF CompleteConflict
    <3>7. CASE Tell(h)
      BY <3>7 DEF Tell
    <3>8. CASE FailCommit(h)
      <4>1. PICK input \in FailInput : FailRows(target[h], input)
        BY <3>8 DEF FailCommit
      <4>2. input.outcome \in {"FAILED", "REJECTED"} /\ input.photo \in BOOLEAN
        BY DEF FailInput
      <4> QED
        BY <3>8, <4>1, <4>2 DEF FailCommit, FailRows
    <3>9. CASE CountOpen(h)
      BY <3>9 DEF CountOpen
    <3>10. CASE CloseRoute(h)
      BY <3>10 DEF CloseRoute
    <3> QED
      BY <2>2, <3>1, <3>2, <3>3, <3>4, <3>5, <3>6, <3>7, <3>8, <3>9, <3>10 DEF Continue
  <2>3. ASSUME NEW h \in Handlers, Abort(h) PROVE TypeOK'
    BY <2>3 DEF Abort
  <2>4. CASE UNCHANGED vars
    BY <2>4 DEF vars
  <2> QED
    BY <2>1, <2>2, <2>3, <2>4 DEF Next
<1> QED
  BY <1>1, <1>2, PTL DEF Spec

-----------------------------------------------------------------------------
\* The strengthened invariant holds: what a handler read or committed earlier
\* is still true, in the sense IInv states, when it acts on it.
THEOREM InductiveInvariant == Spec => []IInv
<1>1. Init => IInv
  <2> SUFFICES ASSUME Init PROVE IInv
    OBVIOUS
  <2>1. TypeOK
    BY RowsAssumption DEF Init, TypeOK, RouteStatus, StopStatus, OrderStatus, PodOrigin,
                          RouteSteps, StopSteps, AfterCommit
  <2> QED
    BY <2>1, RowsAssumption DEF Init, IInv, DeliveredHasPod, FinishedStopsAttended, OpenStop,
       ClosersSawAll, ClosedRouteAttended, TellersCommitted, OneTellerPerStop, ToldOnceAfterCommit
<1>2. TypeOK /\ TypeOK' /\ IInv /\ [Next]_vars => IInv'
  <2> SUFFICES ASSUME TypeOK, TypeOK', IInv, [Next]_vars PROVE IInv'
    OBVIOUS
  <2> USE RowsAssumption DEF TypeOK, RouteSteps, StopSteps, AfterCommit, Begin, Goto, Finish, rows, IInv,
       DeliveredHasPod, FinishedStopsAttended, OpenStop, ClosersSawAll, ClosedRouteAttended,
       TellersCommitted, OneTellerPerStop, ToldOnceAfterCommit
  <2>1. ASSUME NEW h \in Handlers, Arrival(h) PROVE IInv'
    BY <2>1 DEF Arrival, DispatchRead, StartRead, ArriveRead, CompleteRead, FailRead
  <2>2. ASSUME NEW h \in Handlers, Continue(h) PROVE IInv'
    <3>1. CASE \E d \in Drivers : DispatchWrite(h, d)
      BY <3>1 DEF DispatchWrite
    <3>2. CASE StartRoute(h)
      BY <3>2 DEF StartRoute
    <3>3. CASE StartOrders(h)
      BY <3>3 DEF StartOrders
    <3>4. CASE ArriveWrite(h)
      BY <3>4 DEF ArriveWrite
    <3>5. CASE CompleteCommit(h)
      <4> USE <3>5 DEF CompleteCommit, CompleteRows
      <4>1. target[h] \in Stops /\ pod[target[h]] = "none"
        OBVIOUS
      <4>2. DeliveredHasPod'
        BY <4>1
      <4>3. FinishedStopsAttended' /\ ClosersSawAll' /\ ClosedRouteAttended'
        BY <4>1
      <4>4. notices[target[h]] = 0
        BY <4>1
      <4>5. TellersCommitted'
        BY <4>1, <4>4
      <4>6. OneTellerPerStop'
        BY <4>1
      <4>7. ToldOnceAfterCommit'
        BY <4>1
      <4> QED
        BY <4>2, <4>3, <4>5, <4>6, <4>7
    <3>6. CASE CompleteConflict(h)
      BY <3>6 DEF CompleteConflict
    <3>7. CASE Tell(h)
      BY <3>7 DEF Tell
    <3>8. CASE FailCommit(h)
      <4>1. PICK input \in FailInput : FailRows(target[h], input)
        BY <3>8 DEF FailCommit
      <4>2. input.outcome \in {"FAILED", "REJECTED"} /\ input.photo \in BOOLEAN
        BY DEF FailInput
      <4> QED
        BY <3>8, <4>1, <4>2 DEF FailCommit, FailRows
    <3>9. CASE CountOpen(h)
      BY <3>9 DEF CountOpen, HasOpenStop
    <3>10. CASE CloseRoute(h)
      BY <3>10 DEF CloseRoute
    <3> QED
      BY <2>2, <3>1, <3>2, <3>3, <3>4, <3>5, <3>6, <3>7, <3>8, <3>9, <3>10 DEF Continue
  <2>3. ASSUME NEW h \in Handlers, Abort(h) PROVE IInv'
    BY <2>3 DEF Abort
  <2>4. CASE UNCHANGED vars
    BY <2>4 DEF vars
  <2> QED
    BY <2>1, <2>2, <2>3, <2>4 DEF Next
<1> QED
  BY <1>1, <1>2, TypeCorrect, PTL DEF Spec

\* A delivered order always has the evidence a completion created.
THEOREM DeliveredOrdersHavePod == Spec => []DeliveredHasPod
  BY InductiveInvariant, PTL DEF IInv

\* The merchant is told of a delivery at most once and only after its commit.
THEOREM MerchantToldOnce == Spec => []ToldOnceAfterCommit
  BY InductiveInvariant, PTL DEF IInv

\* A COMPLETED route has no stop that nobody attended.
THEOREM ClosedRoutesAreAttended == Spec => []ClosedRouteAttended
  BY InductiveInvariant, PTL DEF IInv

-----------------------------------------------------------------------------
\* A step of the ledger is any of its four operations.
LEMMA LedgerSteps ==
    /\ \A s \in Stops : Ledger!Attend(s) \/ Ledger!Announce(s) => Ledger!LNext
    /\ \A r \in Routes : Ledger!Close(r) \/ Ledger!Reopen(r) => Ledger!LNext
  BY DEF Ledger!LNext, Ledger!Attend, Ledger!Announce, Ledger!Close, Ledger!Reopen

\* Route execution implements the ledger: evidence, attendance and messages
\* only accumulate, and a route closes only over attended stops.
THEOREM Refinement == Spec => ImplementsLedger
<1>1. Init => Ledger!LInit
  BY DEF Init, Ledger!LInit
<1>2. IInv /\ [Next]_vars => [Ledger!LNext]_Ledger!ledger
  <2> SUFFICES ASSUME IInv, [Next]_vars PROVE [Ledger!LNext]_Ledger!ledger
    OBVIOUS
  <2> USE RowsAssumption DEF IInv, TypeOK, RouteSteps, StopSteps, AfterCommit, Begin, Goto, Finish, rows,
       Ledger!ledger
  <2>1. ASSUME NEW h \in Handlers, Arrival(h) PROVE UNCHANGED Ledger!ledger
    BY <2>1 DEF Arrival, DispatchRead, StartRead, ArriveRead, CompleteRead, FailRead
  <2>2. ASSUME NEW h \in Handlers, Continue(h) PROVE [Ledger!LNext]_Ledger!ledger
    <3>1. CASE \E d \in Drivers : DispatchWrite(h, d)
      <4>1. /\ pod' = pod /\ notices' = notices /\ attended' = attended
            /\ target[h] \in Routes
            /\ \A r \in Routes : routeStatus'[r] = "COMPLETED" <=>
                               routeStatus[r] = "COMPLETED" /\ r # target[h]
        BY <3>1 DEF DispatchWrite
      <4>2. {r \in Routes : routeStatus'[r] = "COMPLETED"}
              = {r \in Routes : routeStatus[r] = "COMPLETED"} \ {target[h]}
        BY <4>1
      <4>3. Ledger!Reopen(target[h])
        BY ONLY <4>1, <4>2 DEF Ledger!Reopen
      <4> QED
        BY ONLY <4>1, <4>3, LedgerSteps DEF Ledger!Reopen
    <3>2. CASE StartRoute(h)
      <4>1. /\ pod' = pod /\ notices' = notices /\ attended' = attended
            /\ target[h] \in Routes
            /\ \A r \in Routes : routeStatus'[r] = "COMPLETED" <=>
                               routeStatus[r] = "COMPLETED" /\ r # target[h]
        BY <3>2 DEF StartRoute
      <4>2. {r \in Routes : routeStatus'[r] = "COMPLETED"}
              = {r \in Routes : routeStatus[r] = "COMPLETED"} \ {target[h]}
        BY <4>1
      <4>3. Ledger!Reopen(target[h])
        BY ONLY <4>1, <4>2 DEF Ledger!Reopen
      <4> QED
        BY ONLY <4>1, <4>3, LedgerSteps DEF Ledger!Reopen
    <3>3. CASE StartOrders(h)
      BY <3>3 DEF StartOrders
    <3>4. CASE ArriveWrite(h)
      BY <3>4 DEF ArriveWrite
    <3>5. CASE CompleteCommit(h)
      <4>1. /\ target[h] \in Stops
            /\ attended' = attended \cup {target[h]}
            /\ notices' = notices /\ routeStatus' = routeStatus
            /\ \A s \in Stops : pod'[s] = "completion" <=>
                               pod[s] = "completion" \/ s = target[h]
        BY <3>5 DEF CompleteCommit, CompleteRows
      <4>2. {s \in Stops : pod'[s] = "completion"}
              = {s \in Stops : pod[s] = "completion"} \cup {target[h]}
        BY <4>1
      <4>3. Ledger!Attend(target[h])
        BY ONLY <4>1, <4>2 DEF Ledger!Attend
      <4> QED
        BY ONLY <4>1, <4>3, LedgerSteps DEF Ledger!Attend
    <3>6. CASE CompleteConflict(h)
      BY <3>6 DEF CompleteConflict
    <3>7. CASE Tell(h)
      <4>1. ASSUME notices' = notices PROVE [Ledger!LNext]_Ledger!ledger
        BY <3>7, <4>1 DEF Tell
      <4>2. ASSUME notices' = [notices EXCEPT ![target[h]] = @ + 1]
            PROVE  [Ledger!LNext]_Ledger!ledger
        <5>1. /\ target[h] \in Stops /\ pod[target[h]] = "completion"
              /\ pod' = pod /\ attended' = attended /\ routeStatus' = routeStatus
              /\ \A s \in Stops : notices'[s] > 0 <=> notices[s] > 0 \/ s = target[h]
          BY <3>7, <4>2 DEF Tell, TellersCommitted
        <5>2. {s \in Stops : notices'[s] > 0} = {s \in Stops : notices[s] > 0} \cup {target[h]}
          BY <5>1
        <5>3. Ledger!Announce(target[h])
          BY ONLY <5>1, <5>2 DEF Ledger!Announce
        <5> QED
          BY ONLY <5>1, <5>3, LedgerSteps DEF Ledger!Announce
      <4>3. \/ notices' = [notices EXCEPT ![target[h]] = @ + 0]
            \/ notices' = [notices EXCEPT ![target[h]] = @ + 1]
        BY <3>7 DEF Tell
      <4>4. [notices EXCEPT ![target[h]] = @ + 0] = notices
        OBVIOUS
      <4> QED
        BY ONLY <4>1, <4>2, <4>3, <4>4
    <3>8. CASE FailCommit(h)
      <4>1. /\ target[h] \in Stops
            /\ attended' = attended \cup {target[h]}
            /\ notices' = notices /\ routeStatus' = routeStatus
            /\ \A s \in Stops : pod'[s] = "completion" <=> pod[s] = "completion"
        BY <3>8 DEF FailCommit, FailRows, FailInput
      <4>2. {s \in Stops : pod'[s] = "completion"} = {s \in Stops : pod[s] = "completion"}
        BY <4>1
      <4>3. Ledger!Attend(target[h])
        BY ONLY <4>1, <4>2 DEF Ledger!Attend
      <4> QED
        BY ONLY <4>1, <4>3, LedgerSteps DEF Ledger!Attend
    <3>9. CASE CountOpen(h)
      BY <3>9 DEF CountOpen
    <3>10. CASE CloseRoute(h)
      <4> DEFINE r0 == RouteOf[target[h]]
      <4>1. /\ r0 \in Routes
            /\ attended' = attended /\ notices' = notices /\ pod' = pod
            /\ \A r \in Routes : routeStatus'[r] = "COMPLETED" <=>
                               routeStatus[r] = "COMPLETED" \/ r = r0
        BY <3>10 DEF CloseRoute
      <4>2. {s \in Stops : RouteOf[s] = r0} \subseteq attended
        BY <3>10 DEF CloseRoute, ClosersSawAll
      <4>3. {r \in Routes : routeStatus'[r] = "COMPLETED"}
              = {r \in Routes : routeStatus[r] = "COMPLETED"} \cup {r0}
        BY <4>1
      <4> HIDE DEF r0
      <4>4. Ledger!Close(r0)
        BY ONLY <4>1, <4>2, <4>3 DEF Ledger!Close, Ledger!StopsOn
      <4> QED
        BY ONLY <4>1, <4>4, LedgerSteps DEF Ledger!Close
    <3> QED
      BY <2>2, <3>1, <3>2, <3>3, <3>4, <3>5, <3>6, <3>7, <3>8, <3>9, <3>10 DEF Continue
  <2>3. ASSUME NEW h \in Handlers, Abort(h) PROVE UNCHANGED Ledger!ledger
    BY <2>3 DEF Abort
  <2>4. CASE UNCHANGED vars
    BY <2>4 DEF vars
  <2> QED
    BY <2>1, <2>2, <2>3, <2>4 DEF Next
<1> QED
  BY <1>1, <1>2, InductiveInvariant, PTL DEF Spec, ImplementsLedger, Ledger!LedgerSpec
=============================================================================
