----------------------------- MODULE DeskProofs -----------------------------
(***************************************************************************)
(* Proofs about the dispatcher's desk.  One request applies a proposal at  *)
(* a time, no order is routed twice by confirming it again, and a proposal *)
(* that is left applied has all its orders in routes.  While no two        *)
(* requests cross, there is one order of each external reference and what  *)
(* was rescheduled stays so.  And the series show the days that are over   *)
(* whole.  For all proposals, orders, references, requests, days and       *)
(* things that are counted, failures and restarts included.                *)
(***************************************************************************)
EXTENDS Desk, FiniteSetTheorems, TLAPS

\* Every behaviour of the desk is, for each of its four parts, one of that part:
\* so what is proved of a part alone holds on the desk.
THEOREM DeskImplementsParts ==
    DeskSpec => Spec /\ Intake!Spec /\ PlacesSpec /\ Analytics!Spec
<1>1. DeskInit => Init /\ Intake!Init /\ PlacesInit /\ Analytics!Init
  BY DEF DeskInit
<1>2. [DeskNext]_deskVars => [Next]_vars
  BY DEF DeskNext, deskVars
<1>3. [DeskNext]_deskVars => [Intake!Next]_(Intake!vars)
  BY DEF DeskNext, deskVars, intakeVars, Intake!vars
<1>4. [DeskNext]_deskVars => [PlacesNext]_placeVars
  BY DEF DeskNext, deskVars
<1>5. [DeskNext]_deskVars => [Analytics!Next]_(Analytics!vars)
  BY DEF DeskNext, deskVars, seriesVars, Analytics!vars
<1>6. QED
  BY <1>1, <1>2, <1>3, <1>4, <1>5, PTL
  DEF DeskSpec, Spec, Intake!Spec, PlacesSpec, Analytics!Spec

-----------------------------------------------------------------------------
\* The proposals of the AI.

\* An order that only one proposal is about.
Exclusive(o) == \A p, q \in Proposals : o \in OrdersOf[p] \cap OrdersOf[q] => p = q

\* What a handler is yet to route is its proposal's, and in no route so far.
PlanIsFresh ==
    \A h \in Handlers : \A o \in plan[h] :
        /\ Applying(h)
        /\ o \in OrdersOf[of[h]]
        /\ Exclusive(o) => trips[o] = 0

IInv == TypeOK /\ OneApplier /\ PlanIsFresh /\ RoutedOnce

-----------------------------------------------------------------------------
\* Types hold always: statuses, counts and control points stay in their sets,
\* and a handler keeps a plan only while it persists it or gives up.
THEOREM TypeCorrect == Spec => []TypeOK
<1> USE ProposalsAssumption
<1>1. Init => TypeOK
  BY DEF Init, TypeOK
<1>2. TypeOK /\ [Next]_vars => TypeOK'
  <2> SUFFICES ASSUME TypeOK, [Next]_vars PROVE TypeOK'
    OBVIOUS
  <2>1. ASSUME NEW p \in Proposals, RunAction(p) PROVE TypeOK'
    BY <2>1 DEF TypeOK, RunAction
  <2>2. ASSUME NEW p \in Proposals, Expire(p) PROVE TypeOK'
    BY <2>2 DEF TypeOK, Expire
  <2>3. ASSUME NEW h \in Handlers, NEW p \in Proposals, ApplyRead(h, p) PROVE TypeOK'
    BY <2>3 DEF TypeOK, ApplyRead, Goto
  <2>4. ASSUME NEW h \in Handlers, Claim(h) PROVE TypeOK'
    BY <2>4 DEF TypeOK, Claim, Goto, Finish
  <2>5. ASSUME NEW h \in Handlers, Plan(h) PROVE TypeOK'
    BY <2>5 DEF TypeOK, Plan, Goto, Unrouted
  <2>6. ASSUME NEW h \in Handlers, Persist(h) PROVE TypeOK'
    <3>1. PICK S \in (SUBSET plan[h]) \ {{}} :
            /\ trips' = [o \in Orders |-> IF o \in S THEN trips[o] + 1 ELSE trips[o]]
            /\ plan' = [plan EXCEPT ![h] = @ \ S]
            /\ Goto(h, IF S = plan[h] THEN "answer" ELSE "persist")
      BY <2>6 DEF Persist
    <3>2. trips' \in [Orders -> Nat]
      BY <3>1 DEF TypeOK
    <3>3. plan' \in [Handlers -> SUBSET Orders]
      BY <3>1 DEF TypeOK
    <3>4. pc' \in [Handlers -> {"idle", "claim", "plan", "persist", "answer", "release"}]
      BY <3>1 DEF TypeOK, Goto
    <3>5. \A g \in Handlers :
            pc'[g] \in {"idle", "claim", "plan", "answer"} => plan'[g] = {}
      BY <3>1 DEF TypeOK, Goto
    <3> QED
      BY <2>6, <3>2, <3>3, <3>4, <3>5 DEF TypeOK, Persist
  <2>7. ASSUME NEW h \in Handlers, Answer(h) PROVE TypeOK'
    BY <2>7 DEF TypeOK, Answer, Goto, Finish
  <2>8. ASSUME NEW h \in Handlers, Throw(h) PROVE TypeOK'
    BY <2>8 DEF TypeOK, Throw, Goto
  <2>9. ASSUME NEW h \in Handlers, Release(h) PROVE TypeOK'
    BY <2>9 DEF TypeOK, Release, Goto, Finish
  <2>10. ASSUME NEW h \in Handlers, Crash(h) PROVE TypeOK'
    BY <2>10 DEF TypeOK, Crash, Goto, Finish
  <2>11. CASE UNCHANGED vars
    BY <2>11 DEF TypeOK, vars
  <2> QED
    BY <2>1, <2>2, <2>3, <2>4, <2>5, <2>6, <2>7, <2>8, <2>9, <2>10, <2>11 DEF Next
<1> QED
  BY <1>1, <1>2, PTL DEF Spec

\* The claim is exclusive: from the conditional update that takes it to the
\* update that gives it back, no other request applies the same proposal.
THEOREM ClaimIsExclusive == Spec => []OneApplier
<1>1. Init => OneApplier
  BY DEF Init, OneApplier, Applying
<1>2. TypeOK /\ OneApplier /\ [Next]_vars => OneApplier'
  <2> SUFFICES ASSUME TypeOK, OneApplier, [Next]_vars PROVE OneApplier'
    OBVIOUS
  <2>1. ASSUME NEW p \in Proposals, RunAction(p) PROVE OneApplier'
    BY <2>1 DEF TypeOK, OneApplier, Applying, RunAction
  <2>2. ASSUME NEW p \in Proposals, Expire(p) PROVE OneApplier'
    BY <2>2 DEF OneApplier, Applying, Expire
  <2>3. ASSUME NEW h \in Handlers, NEW p \in Proposals, ApplyRead(h, p) PROVE OneApplier'
    BY <2>3 DEF TypeOK, OneApplier, Applying, ApplyRead, Goto
  <2>4. ASSUME NEW h \in Handlers, Claim(h) PROVE OneApplier'
    BY <2>4 DEF TypeOK, OneApplier, Applying, Claim, Goto, Finish
  <2>5. ASSUME NEW h \in Handlers, Plan(h) PROVE OneApplier'
    BY <2>5 DEF TypeOK, OneApplier, Applying, Plan, Goto
  <2>6. ASSUME NEW h \in Handlers, Persist(h) PROVE OneApplier'
    BY <2>6 DEF TypeOK, OneApplier, Applying, Persist, Goto
  <2>7. ASSUME NEW h \in Handlers, Answer(h) PROVE OneApplier'
    BY <2>7 DEF TypeOK, OneApplier, Applying, Answer, Goto, Finish
  <2>8. ASSUME NEW h \in Handlers, Throw(h) PROVE OneApplier'
    BY <2>8 DEF TypeOK, OneApplier, Applying, Throw, Goto
  <2>9. ASSUME NEW h \in Handlers, Release(h) PROVE OneApplier'
    BY <2>9 DEF TypeOK, OneApplier, Applying, Release, Goto, Finish
  <2>10. ASSUME NEW h \in Handlers, Crash(h) PROVE OneApplier'
    BY <2>10 DEF TypeOK, OneApplier, Applying, Crash, Goto, Finish
  <2>11. CASE UNCHANGED vars
    BY <2>11 DEF OneApplier, Applying, vars
  <2> QED
    BY <2>1, <2>2, <2>3, <2>4, <2>5, <2>6, <2>7, <2>8, <2>9, <2>10, <2>11 DEF Next
<1> QED
  BY <1>1, <1>2, TypeCorrect, PTL DEF Spec

\* Two requests never hold the same order of a single proposal in their plans.
LEMMA PlansAreDisjoint ==
    ASSUME IInv, NEW g \in Handlers, NEW h \in Handlers, NEW o \in plan[g],
           o \in plan[h], Exclusive(o)
    PROVE  g = h
<1>1. Applying(g) /\ Applying(h) /\ o \in OrdersOf[of[g]] \cap OrdersOf[of[h]]
  BY DEF IInv, PlanIsFresh
<1>2. of[g] \in Proposals /\ of[h] \in Proposals
  BY DEF IInv, TypeOK
<1>3. of[g] = of[h]
  BY <1>1, <1>2 DEF Exclusive
<1> QED
  BY <1>1, <1>3 DEF IInv, OneApplier

\* An order of one proposal is put in one route at most, whichever apply of the
\* proposal failed halfway or was cut, and however often it is confirmed again.
THEOREM OrdersRoutedOnce == Spec => []RoutedOnce
<1> USE ProposalsAssumption
<1>1. Init => PlanIsFresh /\ RoutedOnce
  BY DEF Init, PlanIsFresh, RoutedOnce
<1>2. IInv /\ [Next]_vars => (PlanIsFresh /\ RoutedOnce)'
  <2> SUFFICES ASSUME IInv, [Next]_vars PROVE (PlanIsFresh /\ RoutedOnce)'
    OBVIOUS
  <2> USE DEF IInv
  <2>1. ASSUME UNCHANGED trips PROVE RoutedOnce'
    BY <2>1 DEF RoutedOnce
  <2>2. ASSUME NEW p \in Proposals, RunAction(p) \/ Expire(p) PROVE PlanIsFresh'
    BY <2>2 DEF PlanIsFresh, Applying, RunAction, Expire
  <2>3. ASSUME NEW h \in Handlers, NEW p \in Proposals, ApplyRead(h, p) PROVE PlanIsFresh'
    BY <2>3 DEF PlanIsFresh, TypeOK, Applying, ApplyRead, Goto
  <2>4. ASSUME NEW h \in Handlers, Claim(h) PROVE PlanIsFresh'
    BY <2>4 DEF PlanIsFresh, TypeOK, Applying, Claim, Goto, Finish
  <2>5. ASSUME NEW h \in Handlers, Plan(h) PROVE PlanIsFresh'
    <3>1. ASSUME NEW g \in Handlers, NEW o \in plan'[g]
          PROVE  Applying(g)' /\ o \in OrdersOf[of'[g]] /\ (Exclusive(o) => trips'[o] = 0)
      <4>1. CASE g = h
        BY <2>5, <3>1, <4>1 DEF Plan, Unrouted, Goto, Applying, TypeOK
      <4>2. CASE g # h
        BY <2>5, <3>1, <4>2 DEF Plan, Goto, Applying, TypeOK, PlanIsFresh
      <4> QED
        BY <4>1, <4>2
    <3> QED
      BY <3>1 DEF PlanIsFresh, Exclusive
  <2>6. ASSUME NEW h \in Handlers, Persist(h) PROVE (PlanIsFresh /\ RoutedOnce)'
    <3>1. PICK S \in (SUBSET plan[h]) \ {{}} :
            /\ trips' = [o \in Orders |-> IF o \in S THEN trips[o] + 1 ELSE trips[o]]
            /\ plan' = [plan EXCEPT ![h] = @ \ S]
            /\ Goto(h, IF S = plan[h] THEN "answer" ELSE "persist")
      BY <2>6 DEF Persist
    <3>2. UNCHANGED of /\ pc[h] = "persist"
      BY <2>6 DEF Persist
    <3>3. ASSUME NEW g \in Handlers, NEW o \in plan'[g]
          PROVE  Applying(g)' /\ o \in OrdersOf[of'[g]] /\ (Exclusive(o) => trips'[o] = 0)
      <4>1. o \in plan[g] /\ o \in Orders
        BY <3>1, <3>3 DEF TypeOK
      <4>2. Applying(g)'
        BY <3>1, <4>1 DEF Goto, Applying, TypeOK, PlanIsFresh
      <4>3. ASSUME Exclusive(o) PROVE o \notin S
        <5>1. CASE g = h
          BY <3>1, <3>3, <5>1 DEF TypeOK
        <5>2. CASE g # h
          BY <4>1, <4>3, <5>2, PlansAreDisjoint
        <5> QED
          BY <5>1, <5>2
      <4>4. Exclusive(o) => trips'[o] = 0
        BY <3>1, <4>1, <4>3 DEF PlanIsFresh
      <4> QED
        BY <3>2, <4>1, <4>2, <4>4 DEF PlanIsFresh
    <3>4. ASSUME NEW o \in Orders, Exclusive(o) PROVE trips'[o] <= 1
      <4>1. CASE o \in S
        <5>1. trips[o] = 0
          BY <3>4, <4>1 DEF PlanIsFresh
        <5> QED
          BY <3>1, <4>1, <5>1
      <4>2. CASE o \notin S
        BY <3>1, <3>4, <4>2 DEF RoutedOnce, Exclusive
      <4> QED
        BY <4>1, <4>2
    <3> QED
      BY <3>3, <3>4 DEF PlanIsFresh, RoutedOnce, Exclusive
  <2>7. ASSUME NEW h \in Handlers, Answer(h) PROVE PlanIsFresh'
    BY <2>7 DEF PlanIsFresh, TypeOK, Applying, Answer, Goto, Finish
  <2>8. ASSUME NEW h \in Handlers, Throw(h) PROVE PlanIsFresh'
    BY <2>8 DEF PlanIsFresh, TypeOK, Applying, Throw, Goto
  <2>9. ASSUME NEW h \in Handlers, Release(h) PROVE PlanIsFresh'
    BY <2>9 DEF PlanIsFresh, TypeOK, Applying, Release, Goto, Finish
  <2>10. ASSUME NEW h \in Handlers, Crash(h) PROVE PlanIsFresh'
    BY <2>10 DEF PlanIsFresh, TypeOK, Applying, Crash, Goto, Finish
  <2>11. CASE UNCHANGED vars
    BY <2>11 DEF PlanIsFresh, RoutedOnce, Applying, vars
  <2>12. \/ UNCHANGED trips
         \/ \E h \in Handlers : Persist(h)
    BY DEF Next, vars, RunAction, Expire, ApplyRead, Claim, Plan, Answer, Throw, Release, Crash
  <2> QED
    BY <2>1, <2>2, <2>3, <2>4, <2>5, <2>6, <2>7, <2>8, <2>9, <2>10, <2>11, <2>12 DEF Next
<1> QED
  BY <1>1, <1>2, TypeCorrect, ClaimIsExclusive, PTL DEF Spec, IInv

\* Until a request has answered, the orders of its proposal that are in no route
\* are among those it is about to put in one.
PlanCovers ==
    \A h \in Handlers :
        /\ pc[h] = "persist" => Unrouted(of[h]) \subseteq plan[h]
        /\ pc[h] = "answer" => Unrouted(of[h]) = {}

DoneInv == TypeOK /\ PlanCovers /\ AppliedMeansDone

\* Nothing takes an order out of the routes here: what a proposal has yet to
\* route only gets smaller.
LEMMA UnroutedShrinks ==
    ASSUME TypeOK, [Next]_vars, NEW p \in Proposals
    PROVE  Unrouted(p)' \subseteq Unrouted(p)
<1>1. ASSUME NEW o \in Orders PROVE trips[o] # 0 => trips'[o] # 0
  <2>1. CASE UNCHANGED trips
    BY <2>1
  <2>2. ASSUME NEW h \in Handlers, Persist(h) PROVE trips[o] # 0 => trips'[o] # 0
    <3>1. PICK S : trips' = [q \in Orders |-> IF q \in S THEN trips[q] + 1 ELSE trips[q]]
      BY <2>2 DEF Persist
    <3> QED
      BY <3>1 DEF TypeOK
  <2>3. UNCHANGED trips \/ \E h \in Handlers : Persist(h)
    BY DEF Next, vars, RunAction, Expire, ApplyRead, Claim, Plan, Answer, Throw, Release, Crash
  <2> QED
    BY <2>1, <2>2, <2>3
<1>2. OrdersOf[p] \subseteq Orders
  BY ProposalsAssumption
<1> QED
  BY <1>1, <1>2 DEF Unrouted

\* A proposal left APPLIED, and cut by no restart, has all its orders in routes:
\* the catch block gives the claim back before the request ends.
THEOREM AppliedIsDone == Spec => []AppliedMeansDone
<1> USE ProposalsAssumption
<1>1. Init => PlanCovers /\ AppliedMeansDone
  BY DEF Init, PlanCovers, AppliedMeansDone
<1>2. DoneInv /\ TypeOK' /\ [Next]_vars => (PlanCovers /\ AppliedMeansDone)'
  <2> SUFFICES ASSUME DoneInv, TypeOK', [Next]_vars PROVE (PlanCovers /\ AppliedMeansDone)'
    OBVIOUS
  <2> USE DEF DoneInv
  <2>1. \A p \in Proposals : Unrouted(p)' \subseteq Unrouted(p)
    BY UnroutedShrinks
  <2>2. \A h \in Handlers : of[h] \in Proposals /\ of'[h] \in Proposals
    BY DEF TypeOK
  <2>3. ASSUME NEW p \in Proposals, RunAction(p) \/ Expire(p)
        PROVE  (PlanCovers /\ AppliedMeansDone)'
    <3>1. UNCHANGED <<trips, pc, of, plan, crashed>>
      BY <2>3 DEF RunAction, Expire
    <3>2. \A q \in Proposals : status'[q] = "APPLIED" => status[q] = "APPLIED"
      BY <2>3 DEF RunAction, Expire, TypeOK
    <3> QED
      BY <3>1, <3>2 DEF PlanCovers, AppliedMeansDone, Applying, Unrouted
  <2>4. ASSUME NEW h \in Handlers, NEW p \in Proposals, ApplyRead(h, p)
        PROVE  (PlanCovers /\ AppliedMeansDone)'
    <3>1. /\ pc[h] = "idle" /\ pc' = [pc EXCEPT ![h] = "claim"] /\ of' = [of EXCEPT ![h] = p]
          /\ UNCHANGED <<status, trips, plan, crashed>>
      BY <2>4 DEF ApplyRead, Goto
    <3> QED
      BY <3>1 DEF PlanCovers, AppliedMeansDone, Applying, Unrouted, TypeOK
  <2>5. ASSUME NEW h \in Handlers, Claim(h) PROVE (PlanCovers /\ AppliedMeansDone)'
    <3>1. pc[h] = "claim" /\ UNCHANGED <<trips, of, crashed>>
      BY <2>5 DEF Claim, Finish
    <3>2. CASE status[of[h]] = "PENDING"
      <4>1. /\ status' = [status EXCEPT ![of[h]] = "APPLIED"]
            /\ pc' = [pc EXCEPT ![h] = "plan"] /\ UNCHANGED plan
        BY <2>5, <3>2 DEF Claim, Goto
      <4> QED
        BY <2>2, <3>1, <4>1 DEF PlanCovers, AppliedMeansDone, Applying, Unrouted, TypeOK
    <3>3. CASE status[of[h]] # "PENDING"
      <4>1. UNCHANGED status /\ pc' = [pc EXCEPT ![h] = "idle"]
            /\ plan' = [plan EXCEPT ![h] = {}]
        BY <2>5, <3>3 DEF Claim, Finish, Goto
      <4> QED
        BY <2>2, <3>1, <4>1 DEF PlanCovers, AppliedMeansDone, Applying, Unrouted, TypeOK
    <3> QED
      BY <3>2, <3>3
  <2>6. ASSUME NEW h \in Handlers, Plan(h) PROVE (PlanCovers /\ AppliedMeansDone)'
    <3>1. /\ pc[h] = "plan" /\ plan' = [plan EXCEPT ![h] = Unrouted(of[h])]
          /\ pc' = [pc EXCEPT ![h] = IF Unrouted(of[h]) = {} THEN "release" ELSE "persist"]
          /\ UNCHANGED <<status, trips, of, crashed>>
      BY <2>6 DEF Plan, Goto
    <3>2. \A p \in Proposals : Unrouted(p)' = Unrouted(p)
      BY <3>1 DEF Unrouted
    <3>3. \A g \in Handlers : Applying(g) <=> Applying(g)'
      BY <3>1 DEF Applying, TypeOK
    <3> QED
      BY <2>2, <3>1, <3>2, <3>3 DEF PlanCovers, AppliedMeansDone, TypeOK
  <2>7. ASSUME NEW h \in Handlers, Persist(h) PROVE (PlanCovers /\ AppliedMeansDone)'
    <3>1. PICK S \in (SUBSET plan[h]) \ {{}} :
            /\ trips' = [o \in Orders |-> IF o \in S THEN trips[o] + 1 ELSE trips[o]]
            /\ plan' = [plan EXCEPT ![h] = @ \ S]
            /\ Goto(h, IF S = plan[h] THEN "answer" ELSE "persist")
      BY <2>7 DEF Persist
    <3>2. pc[h] = "persist" /\ UNCHANGED <<status, of, crashed>>
      BY <2>7 DEF Persist
    <3>3. pc' = [pc EXCEPT ![h] = IF S = plan[h] THEN "answer" ELSE "persist"]
      BY <3>1 DEF Goto
    <3>4. Unrouted(of[h])' \subseteq plan[h] \ S
      <4>1. \A o \in S : o \in Orders /\ trips'[o] # 0
        BY <3>1 DEF TypeOK
      <4>2. Unrouted(of[h]) \subseteq plan[h]
        BY <3>2 DEF PlanCovers
      <4>3. Unrouted(of[h])' \subseteq Unrouted(of[h])
        BY <2>1, <2>2, <3>2 DEF Unrouted
      <4>4. \A o \in Unrouted(of[h])' : trips'[o] = 0
        BY DEF Unrouted
      <4> QED
        BY <4>1, <4>2, <4>3, <4>4
    <3>5. \A g \in Handlers : Unrouted(of[g])' \subseteq Unrouted(of[g])
      BY <2>1, <2>2, <3>2 DEF Unrouted
    <3>6. PlanCovers'
      <4> SUFFICES ASSUME NEW g \in Handlers
                   PROVE  /\ pc'[g] = "persist" => Unrouted(of[g])' \subseteq plan'[g]
                          /\ pc'[g] = "answer" => Unrouted(of[g])' = {}
        BY DEF PlanCovers
      <4>1. CASE g = h
        <5>1. plan'[g] = plan[h] \ S
          BY <3>1, <4>1 DEF TypeOK
        <5>2. pc'[g] = "answer" => S = plan[h]
          BY <3>3, <4>1 DEF TypeOK
        <5> QED
          BY <3>4, <4>1, <5>1, <5>2
      <4>2. CASE g # h
        BY <3>1, <3>3, <3>5, <4>2 DEF TypeOK, PlanCovers
      <4> QED
        BY <4>1, <4>2
    <3>7. \A g \in Handlers : Applying(g) <=> Applying(g)'
      BY <3>2, <3>3 DEF Applying, TypeOK
    <3>8. AppliedMeansDone'
      BY <2>1, <3>2, <3>7 DEF AppliedMeansDone
    <3> QED
      BY <3>6, <3>8
  <2>8. ASSUME NEW h \in Handlers, Answer(h) PROVE (PlanCovers /\ AppliedMeansDone)'
    <3>1. /\ pc[h] = "answer" /\ pc' = [pc EXCEPT ![h] = "idle"]
          /\ plan' = [plan EXCEPT ![h] = {}] /\ UNCHANGED <<status, trips, of, crashed>>
      BY <2>8 DEF Answer, Finish, Goto
    <3>2. \A p \in Proposals : Unrouted(p)' = Unrouted(p)
      BY <3>1 DEF Unrouted
    <3>3. Unrouted(of[h]) = {}
      BY <3>1 DEF PlanCovers
    <3>4. \A g \in Handlers : g # h => (Applying(g) <=> Applying(g)')
      BY <3>1 DEF Applying, TypeOK
    <3>5. AppliedMeansDone'
      BY <3>1, <3>2, <3>3, <3>4 DEF AppliedMeansDone
    <3>6. PlanCovers'
      BY <2>2, <3>1, <3>2 DEF PlanCovers, TypeOK
    <3> QED
      BY <3>5, <3>6
  <2>9. ASSUME NEW h \in Handlers, Throw(h) PROVE (PlanCovers /\ AppliedMeansDone)'
    <3>1. /\ pc[h] \in {"plan", "persist", "answer"} /\ pc' = [pc EXCEPT ![h] = "release"]
          /\ UNCHANGED <<status, trips, of, plan, crashed>>
      BY <2>9 DEF Throw, Goto
    <3>2. \A g \in Handlers : Applying(g) <=> Applying(g)'
      BY <3>1 DEF Applying, TypeOK
    <3> QED
      BY <3>1, <3>2 DEF PlanCovers, AppliedMeansDone, Unrouted, TypeOK
  <2>10. ASSUME NEW h \in Handlers, Release(h) PROVE (PlanCovers /\ AppliedMeansDone)'
    <3>1. /\ pc[h] = "release" /\ status' = [status EXCEPT ![of[h]] = "PENDING"]
          /\ pc' = [pc EXCEPT ![h] = "idle"]
          /\ plan' = [plan EXCEPT ![h] = {}] /\ UNCHANGED <<trips, of, crashed>>
      BY <2>10 DEF Release, Finish, Goto
    <3>2. \A g \in Handlers : g # h => (Applying(g) <=> Applying(g)')
      BY <3>1 DEF Applying, TypeOK
    <3>3. \A p \in Proposals : status'[p] = "APPLIED" => p # of[h] /\ status[p] = "APPLIED"
      BY <2>2, <3>1 DEF TypeOK
    <3>4. AppliedMeansDone'
      BY <2>1, <3>1, <3>2, <3>3 DEF AppliedMeansDone
    <3>5. PlanCovers'
      BY <2>2, <3>1 DEF PlanCovers, Unrouted, TypeOK
    <3> QED
      BY <3>4, <3>5
  <2>11. ASSUME NEW h \in Handlers, Crash(h) PROVE (PlanCovers /\ AppliedMeansDone)'
    <3>1. /\ pc' = [pc EXCEPT ![h] = "idle"] /\ crashed' = crashed \cup {of[h]}
          /\ plan' = [plan EXCEPT ![h] = {}] /\ UNCHANGED <<status, trips, of>>
      BY <2>11 DEF Crash, Finish, Goto
    <3>2. \A g \in Handlers : g # h => (Applying(g) <=> Applying(g)')
      BY <3>1 DEF Applying, TypeOK
    <3>3. AppliedMeansDone'
      BY <2>1, <3>1, <3>2 DEF AppliedMeansDone
    <3>4. PlanCovers'
      BY <2>2, <3>1 DEF PlanCovers, Unrouted, TypeOK
    <3> QED
      BY <3>3, <3>4
  <2>12. CASE UNCHANGED vars
    BY <2>12 DEF PlanCovers, AppliedMeansDone, Applying, Unrouted, vars
  <2> QED
    BY <2>3, <2>4, <2>5, <2>6, <2>7, <2>8, <2>9, <2>10, <2>11, <2>12 DEF Next
<1> QED
  BY <1>1, <1>2, TypeCorrect, PTL DEF Spec, DoneInv

-----------------------------------------------------------------------------
\* The orders that come in: their rows, and what each request has read of them.

IntakeRows ==
    [ref : Refs \cup {NoRef}, status : {"absent", "GEOCODED", "FAILED", "DELIVERED"},
     recovery : {"NONE", "FLAGGED", "RESCHEDULED"}, from : SUBSET IntakeOrders]

IntakeJobs ==
    {Intake!Idle}
    \cup [step : {"insert"}, ref : Refs \cup {NoRef}, then : {"done"}]
    \cup [step : {"insert"}, ref : Refs \cup {NoRef}, then : {"link"}, order : IntakeOrders]
    \cup [step : {"flag", "lookup"}, order : IntakeOrders]
    \cup [step : {"link", "close"}, order : IntakeOrders, new : IntakeOrders]

IntakeTypeOK ==
    /\ row \in [IntakeOrders -> IntakeRows]
    /\ intake \in [Requests -> IntakeJobs]
    /\ crossed \in BOOLEAN

\* A row that is not there has nothing, and the orders a request is about are there.
OrderThere(j) == j.step \in {"flag", "lookup", "link", "close"} => Intake!Exists(j.order)
LinkThere(j) == j.step = "insert" /\ j.then = "link" => Intake!Exists(j.order)
NewThere(j) == j.step \in {"link", "close"} => Intake!Exists(j.new)

RowsThere ==
    /\ \A o \in IntakeOrders : Intake!Exists(o) \/ row[o] = Intake!Absent
    /\ \A r \in Requests :
         OrderThere(intake[r]) /\ LinkThere(intake[r]) /\ NewThere(intake[r])

\* What a request has read and is about to act upon: that no order has the
\* reference it inserts, that the order it flags has not been rescheduled.
StillTrue(j) ==
    /\ j.step = "insert" => Intake!Found(j.ref) = {}
    /\ j.step = "flag" => row[j.order].recovery # "RESCHEDULED"

AtMostOne(S) == \A o, p \in S : o = p
SingleRefs == \A ref \in Refs : AtMostOne(Intake!WithRef(ref))

WhileUncrossed ==
    ~crossed =>
        /\ \A q, r \in Requests : intake[q] # Intake!Idle /\ intake[r] # Intake!Idle => q = r
        /\ \A r \in Requests : StillTrue(intake[r])
        /\ SingleRefs

IntakeInv == IntakeTypeOK /\ RowsThere /\ WhileUncrossed

-----------------------------------------------------------------------------
LEMMA InitIntakeInv == Intake!Init => IntakeInv
<1> SUFFICES ASSUME Intake!Init PROVE IntakeInv
  OBVIOUS
<1>1. \A o \in IntakeOrders : row[o] = Intake!Absent /\ ~Intake!Exists(o)
  BY DEF Intake!Init, Intake!Exists, Intake!Absent
<1>2. \A r \in Requests : intake[r] = Intake!Idle /\ intake[r].step = "idle"
  BY DEF Intake!Init, Intake!Idle
<1>3. IntakeTypeOK
  BY DEF Intake!Init, IntakeTypeOK, IntakeRows, IntakeJobs, Intake!Absent
<1>4. RowsThere
  BY <1>1, <1>2 DEF RowsThere, OrderThere, LinkThere, NewThere
<1>5. WhileUncrossed
  BY <1>1, <1>2 DEF WhileUncrossed, StillTrue, SingleRefs, AtMostOne, Intake!WithRef
<1>6. QED  BY <1>3, <1>4, <1>5 DEF IntakeInv

\* The step of a request: it goes on to do j, what the other requests are about
\* is still there, and unless it crossed another request what j relies on holds.
LEMMA GotoIntakeInv ==
    ASSUME IntakeInv, NEW r \in Requests, NEW j \in IntakeJobs, Intake!Goto(r, j),
           row' \in [IntakeOrders -> IntakeRows],
           \A o \in IntakeOrders : Intake!Exists(o) => Intake!Exists(o)',
           \A o \in IntakeOrders : Intake!Exists(o)' \/ row'[o] = Intake!Absent,
           OrderThere(j)' /\ LinkThere(j)' /\ NewThere(j)',
           ~crossed => StillTrue(j)' /\ SingleRefs'
    PROVE  IntakeInv'
<1>1. /\ intake' = [intake EXCEPT ![r] = j]
      /\ crossed' = (crossed \/ \E q \in Requests \ {r} : intake[q] # Intake!Idle)
  BY DEF Intake!Goto
<1>2. IntakeTypeOK'
  <2>1. intake' \in [Requests -> IntakeJobs]'
    BY <1>1 DEF IntakeInv, IntakeTypeOK, IntakeJobs, Intake!Idle
  <2>2. row' \in [IntakeOrders -> IntakeRows]'
    BY DEF IntakeRows
  <2>3. QED  BY <1>1, <2>1, <2>2 DEF IntakeInv, IntakeTypeOK
<1>3. \A q \in Requests : intake'[q] = IF q = r THEN j ELSE intake[q]
  BY <1>1 DEF IntakeInv, IntakeTypeOK
<1>4. RowsThere'
  <2>1. ASSUME NEW q \in Requests
        PROVE  (OrderThere(intake[q]) /\ LinkThere(intake[q]) /\ NewThere(intake[q]))'
    <3>1. CASE q = r
      BY <1>3, <3>1 DEF OrderThere, LinkThere, NewThere
    <3>2. CASE q # r
      <4>1. intake'[q] = intake[q] /\ intake[q] \in IntakeJobs
        BY <1>3, <3>2 DEF IntakeInv, IntakeTypeOK
      <4>2. OrderThere(intake[q]) /\ LinkThere(intake[q]) /\ NewThere(intake[q])
        BY DEF IntakeInv, RowsThere
      <4>3. QED
        BY <4>1, <4>2 DEF OrderThere, LinkThere, NewThere, IntakeJobs, Intake!Idle
    <3>3. QED  BY <3>1, <3>2
  <2>2. QED  BY <2>1 DEF RowsThere, Intake!Absent
<1>5. WhileUncrossed'
  <2> SUFFICES ASSUME ~crossed' PROVE WhileUncrossed'
    BY DEF WhileUncrossed
  <2>1. ~crossed /\ \A q \in Requests : q # r => intake[q] = Intake!Idle
    BY <1>1 DEF IntakeInv, IntakeTypeOK
  <2>2. \A q, p \in Requests : intake'[q] # Intake!Idle /\ intake'[p] # Intake!Idle => q = p
    BY <1>3, <2>1
  <2>3. ASSUME NEW q \in Requests PROVE StillTrue(intake[q])'
    <3>1. CASE q = r
      BY <1>3, <2>1, <3>1 DEF StillTrue
    <3>2. CASE q # r
      BY <1>3, <2>1, <3>2 DEF StillTrue, Intake!Idle
    <3>3. QED  BY <3>1, <3>2
  <2>4. QED  BY <2>1, <2>2, <2>3 DEF WhileUncrossed, Intake!Idle
<1>6. QED  BY <1>2, <1>4, <1>5 DEF IntakeInv

\* Steps that only read.
LEMMA ReadsIntakeInv ==
    ASSUME IntakeInv, NEW r \in Requests,
           \/ Intake!CreateRead(r) \/ Intake!RescheduleLookup(r) \/ Intake!Abort(r)
           \/ \E o \in IntakeOrders : Intake!FlagRead(r, o) \/ Intake!RescheduleRead(r, o)
    PROVE  IntakeInv'
<1>1. PICK j \in IntakeJobs :
        /\ Intake!Goto(r, j) /\ row' = row
        /\ OrderThere(j) /\ LinkThere(j) /\ NewThere(j) /\ StillTrue(j)
  <2>1. CASE Intake!CreateRead(r)
    <3>1. PICK ref \in Refs \cup {NoRef} :
            /\ Intake!Found(ref) = {} /\ row' = row
            /\ Intake!Goto(r, [step |-> "insert", ref |-> ref, then |-> "done"])
      BY <2>1 DEF Intake!CreateRead
    <3>2. [step |-> "insert", ref |-> ref, then |-> "done"] \in IntakeJobs
      BY DEF IntakeJobs
    <3>3. QED
      BY <3>1, <3>2 DEF OrderThere, LinkThere, NewThere, StillTrue
  <2>2. ASSUME NEW o \in IntakeOrders, Intake!FlagRead(r, o) \/ Intake!RescheduleRead(r, o)
        PROVE  \E j \in IntakeJobs :
                 /\ Intake!Goto(r, j) /\ row' = row
                 /\ OrderThere(j) /\ LinkThere(j) /\ NewThere(j) /\ StillTrue(j)
    <3>1. PICK s \in {"flag", "lookup"} :
            /\ Intake!Goto(r, [step |-> s, order |-> o]) /\ row' = row
            /\ row[o].status = "FAILED"
            /\ s = "flag" => row[o].recovery = "NONE"
      BY <2>2 DEF Intake!FlagRead, Intake!RescheduleRead
    <3>2. [step |-> s, order |-> o] \in IntakeJobs
      BY DEF IntakeJobs
    <3>3. QED
      BY <3>1, <3>2 DEF OrderThere, LinkThere, NewThere, StillTrue, Intake!Exists
  <2>3. CASE Intake!RescheduleLookup(r)
    <3>1. PICK o \in IntakeOrders : o = intake[r].order /\ Intake!Exists(o)
      BY <2>3 DEF Intake!RescheduleLookup, IntakeInv, IntakeTypeOK, RowsThere, OrderThere,
                  IntakeJobs, Intake!Idle
    <3>2. row' = row
      BY <2>3 DEF Intake!RescheduleLookup
    <3>3. PICK ref \in Refs \cup {NoRef} : ref = row[o].ref
      BY DEF IntakeInv, IntakeTypeOK, IntakeRows
    <3>4. CASE Intake!Found(ref) = {}
      <4>1. Intake!Goto(r, [step |-> "insert", ref |-> ref, then |-> "link", order |-> o])
        BY <2>3, <3>1, <3>3, <3>4 DEF Intake!RescheduleLookup
      <4>2. [step |-> "insert", ref |-> ref, then |-> "link", order |-> o] \in IntakeJobs
        BY DEF IntakeJobs
      <4>3. QED
        BY <3>1, <3>2, <3>4, <4>1, <4>2 DEF OrderThere, LinkThere, NewThere, StillTrue
    <3>5. CASE Intake!Found(ref) # {}
      <4>1. PICK p \in Intake!Found(ref) :
              Intake!Goto(r, [step |-> "link", order |-> o, new |-> p])
        BY <2>3, <3>1, <3>3, <3>5 DEF Intake!RescheduleLookup
      <4>2. p \in IntakeOrders /\ Intake!Exists(p)
        BY <4>1 DEF Intake!Found, Intake!WithRef
      <4>3. [step |-> "link", order |-> o, new |-> p] \in IntakeJobs
        BY <4>2 DEF IntakeJobs
      <4>4. QED
        BY <3>1, <3>2, <4>1, <4>2, <4>3 DEF OrderThere, LinkThere, NewThere, StillTrue
    <3>6. QED  BY <3>4, <3>5
  <2>4. CASE Intake!Abort(r)
    <3>1. Intake!Goto(r, Intake!Idle) /\ row' = row
      BY <2>4 DEF Intake!Abort
    <3>2. Intake!Idle \in IntakeJobs
      BY DEF IntakeJobs
    <3>3. QED
      BY <3>1, <3>2 DEF OrderThere, LinkThere, NewThere, StillTrue, Intake!Idle
  <2>5. QED  BY <2>1, <2>2, <2>3, <2>4
<1>2. /\ \A o : Intake!Exists(o)' <=> Intake!Exists(o)
      /\ \A ref : Intake!WithRef(ref)' = Intake!WithRef(ref)
  BY <1>1 DEF Intake!Exists, Intake!WithRef
<1>3. (OrderThere(j) /\ LinkThere(j) /\ NewThere(j))'
  BY <1>1, <1>2 DEF OrderThere, LinkThere, NewThere
<1>4. ~crossed => StillTrue(j)' /\ SingleRefs'
  <2>1. SingleRefs => SingleRefs'
    BY <1>2 DEF SingleRefs, AtMostOne
  <2>2. StillTrue(j)'
    BY <1>1, <1>2 DEF StillTrue, Intake!Found
  <2>3. QED  BY <2>1, <2>2 DEF IntakeInv, WhileUncrossed
<1>5. /\ row' \in [IntakeOrders -> IntakeRows]
      /\ \A o \in IntakeOrders : Intake!Exists(o)' \/ row'[o] = Intake!Absent
  BY <1>1, <1>2 DEF IntakeInv, IntakeTypeOK, RowsThere
<1>6. QED  BY <1>1, <1>2, <1>3, <1>4, <1>5, GotoIntakeInv

\* An order is inserted: no other has its reference, unless requests have crossed.
LEMMA InsertIntakeInv ==
    ASSUME IntakeInv, NEW r \in Requests, Intake!Insert(r) \/ Intake!RescheduleInsert(r)
    PROVE  IntakeInv'
<1>1. PICK p \in IntakeOrders, ref \in Refs \cup {NoRef} :
        ref = intake[r].ref /\ ~Intake!Exists(p) /\ Intake!InsertRow(p, ref)
  <2>1. intake[r].step = "insert" /\ intake[r] \in IntakeJobs
    BY DEF Intake!Insert, Intake!RescheduleInsert, IntakeInv, IntakeTypeOK
  <2>2. intake[r].ref \in Refs \cup {NoRef}
    BY <2>1 DEF IntakeJobs, Intake!Idle
  <2>3. QED  BY <2>2 DEF Intake!Insert, Intake!RescheduleInsert
<1>2. intake[r].step = "insert" /\ row \in [IntakeOrders -> IntakeRows]
  BY DEF Intake!Insert, Intake!RescheduleInsert, IntakeInv, IntakeTypeOK
<1>3. PICK v : v = [Intake!Absent EXCEPT !.ref = ref, !.status = "GEOCODED"]
  OBVIOUS
<1>4. v.status = "GEOCODED" /\ v.ref = ref /\ v \in IntakeRows /\ row' = [row EXCEPT ![p] = v]
  BY <1>1, <1>3 DEF Intake!InsertRow, Intake!Absent, IntakeRows
<1>5. /\ row' \in [IntakeOrders -> IntakeRows]
      /\ \A o \in IntakeOrders : row'[o] = IF o = p THEN v ELSE row[o]
  BY <1>2, <1>4
<1>6. /\ \A o \in IntakeOrders : Intake!Exists(o)' <=> Intake!Exists(o) \/ o = p
      /\ \A o \in IntakeOrders : Intake!Exists(o)' \/ row'[o] = Intake!Absent
  BY <1>4, <1>5 DEF Intake!Exists, IntakeInv, RowsThere
<1>7. ~crossed => SingleRefs'
  <2> SUFFICES ASSUME ~crossed, NEW x \in Refs PROVE AtMostOne(Intake!WithRef(x)')
    BY DEF SingleRefs, AtMostOne
  <2>1. AtMostOne(Intake!WithRef(x)) /\ Intake!Found(ref) = {}
    BY <1>1, <1>2 DEF IntakeInv, WhileUncrossed, SingleRefs, StillTrue
  <2>2. \A o \in Intake!WithRef(x)' : o \in Intake!WithRef(x) \/ (o = p /\ x = ref)
    BY <1>4, <1>5, <1>6 DEF Intake!WithRef
  <2>3. CASE x # ref
    BY <2>1, <2>2, <2>3 DEF AtMostOne
  <2>4. CASE x = ref
    <3>1. ref # NoRef
      BY <2>4, DeskAssumption DEF Intake!IntakeAssumption
    <3>2. QED  BY <2>1, <2>2, <2>4, <3>1 DEF AtMostOne, Intake!Found
  <2>5. QED  BY <2>3, <2>4
<1>8. CASE Intake!Insert(r)
  <2>1. Intake!Goto(r, Intake!Idle) /\ Intake!Idle \in IntakeJobs
    BY <1>8 DEF Intake!Insert, IntakeJobs
  <2>2. PICK j \in IntakeJobs : j = Intake!Idle /\ j.step = "idle" /\ Intake!Goto(r, j)
    BY <2>1 DEF Intake!Idle
  <2>3. OrderThere(j)' /\ LinkThere(j)' /\ NewThere(j)' /\ StillTrue(j)'
    BY <2>2 DEF OrderThere, LinkThere, NewThere, StillTrue
  <2>4. QED  BY <1>5, <1>6, <1>7, <2>2, <2>3, GotoIntakeInv
<1>9. CASE Intake!RescheduleInsert(r)
  <2>1. PICK q \in IntakeOrders :
          /\ ~Intake!Exists(q) /\ Intake!InsertRow(q, ref)
          /\ Intake!Goto(r, [step |-> "link", order |-> intake[r].order, new |-> q])
    BY <1>1, <1>9 DEF Intake!RescheduleInsert
  <2>2. q = p
    <3>1. row' = [row EXCEPT ![q] = v]
      BY <1>3, <2>1 DEF Intake!InsertRow
    <3>2. row'[q] = v /\ row[q].status = "absent"
      BY <1>2, <2>1, <3>1 DEF Intake!Exists
    <3>3. QED  BY <1>4, <1>5, <3>2
  <2>3. PICK o \in IntakeOrders : o = intake[r].order /\ Intake!Exists(o)
    BY <1>9 DEF Intake!RescheduleInsert, IntakeInv, IntakeTypeOK, RowsThere, LinkThere,
                IntakeJobs, Intake!Idle
  <2>4. PICK j \in IntakeJobs : j = [step |-> "link", order |-> o, new |-> q]
    BY DEF IntakeJobs
  <2>5. OrderThere(j)' /\ LinkThere(j)' /\ NewThere(j)' /\ StillTrue(j)'
    BY <1>6, <2>2, <2>3, <2>4 DEF OrderThere, LinkThere, NewThere, StillTrue
  <2>6. QED  BY <1>5, <1>6, <1>7, <2>1, <2>3, <2>4, <2>5, GotoIntakeInv
<1>10. QED  BY <1>8, <1>9

\* A row that is there changes, but not its reference.
LEMMA RowChanges ==
    ASSUME IntakeInv, NEW o \in IntakeOrders, Intake!Exists(o), NEW v \in IntakeRows,
           v.ref = row[o].ref, v.status # "absent", row' = [row EXCEPT ![o] = v]
    PROVE  /\ row' \in [IntakeOrders -> IntakeRows]
           /\ \A p \in IntakeOrders : row'[p] = IF p = o THEN v ELSE row[p]
           /\ \A p \in IntakeOrders : Intake!Exists(p)' <=> Intake!Exists(p)
           /\ \A p \in IntakeOrders : Intake!Exists(p)' \/ row'[p] = Intake!Absent
           /\ \A ref : Intake!WithRef(ref)' = Intake!WithRef(ref)
           /\ ~crossed => SingleRefs'
<1>1. /\ row' \in [IntakeOrders -> IntakeRows]
      /\ \A p \in IntakeOrders : row'[p] = IF p = o THEN v ELSE row[p]
  BY DEF IntakeInv, IntakeTypeOK
<1>2. \A p \in IntakeOrders : Intake!Exists(p)' <=> Intake!Exists(p)
  BY <1>1 DEF Intake!Exists
<1>3. \A ref : Intake!WithRef(ref)' = Intake!WithRef(ref)
  BY <1>1, <1>2 DEF Intake!WithRef
<1>4. ~crossed => SingleRefs'
  BY <1>3 DEF IntakeInv, WhileUncrossed, SingleRefs, AtMostOne
<1>5. \A p \in IntakeOrders : Intake!Exists(p)' \/ row'[p] = Intake!Absent
  BY <1>1, <1>2 DEF IntakeInv, RowsThere
<1>6. QED  BY <1>1, <1>2, <1>3, <1>4, <1>5

\* An order is flagged, linked to the one it replaces, or closed as rescheduled.
LEMMA MarkIntakeInv ==
    ASSUME IntakeInv, NEW r \in Requests,
           Intake!Flag(r) \/ Intake!Link(r) \/ Intake!CloseOriginal(r)
    PROVE  IntakeInv'
<1>1. intake[r] \in IntakeJobs /\ row \in [IntakeOrders -> IntakeRows]
  BY DEF IntakeInv, IntakeTypeOK
<1>2. OrderThere(intake[r]) /\ NewThere(intake[r])
  BY DEF IntakeInv, RowsThere
<1>3. ASSUME Intake!Flag(r) \/ Intake!CloseOriginal(r) PROVE IntakeInv'
  <2>1. PICK o \in IntakeOrders, c \in {"FLAGGED", "RESCHEDULED"} :
          /\ Intake!Exists(o) /\ row' = [row EXCEPT ![o].recovery = c]
          /\ Intake!Goto(r, Intake!Idle)
    BY <1>1, <1>2, <1>3 DEF Intake!Flag, Intake!CloseOriginal, OrderThere, IntakeJobs, Intake!Idle
  <2>2. PICK v : v = [row[o] EXCEPT !.recovery = c]
    OBVIOUS
  <2>3. v \in IntakeRows /\ v.ref = row[o].ref /\ v.status = row[o].status
    BY <1>1, <2>2 DEF IntakeRows
  <2>4. v.status # "absent" /\ row' = [row EXCEPT ![o] = v]
    BY <1>1, <2>1, <2>2, <2>3 DEF Intake!Exists
  <2>5. PICK j \in IntakeJobs : j = Intake!Idle /\ j.step = "idle"
    <3>1. Intake!Idle \in IntakeJobs
      BY DEF IntakeJobs
    <3>2. QED  BY <3>1 DEF Intake!Idle
  <2>6. OrderThere(j)' /\ LinkThere(j)' /\ NewThere(j)' /\ StillTrue(j)'
    BY <2>5 DEF OrderThere, LinkThere, NewThere, StillTrue
  <2>7. Intake!Goto(r, j)
    BY <2>1, <2>5
  <2>8. QED  BY <2>1, <2>3, <2>4, <2>6, <2>7, RowChanges, GotoIntakeInv
<1>4. ASSUME Intake!Link(r) PROVE IntakeInv'
  <2>1. PICK o \in IntakeOrders, p \in IntakeOrders :
          /\ o = intake[r].new /\ p = intake[r].order /\ Intake!Exists(o) /\ Intake!Exists(p)
    BY <1>1, <1>2, <1>4 DEF Intake!Link, OrderThere, NewThere, IntakeJobs, Intake!Idle
  <2>2. PICK v : v = [row[o] EXCEPT !.from = {p}]
    OBVIOUS
  <2>3. v \in IntakeRows /\ v.ref = row[o].ref /\ v.status = row[o].status
    BY <1>1, <2>2 DEF IntakeRows
  <2>4. v.status # "absent" /\ row' = [row EXCEPT ![o] = v]
    BY <1>1, <1>4, <2>1, <2>2, <2>3 DEF Intake!Exists, Intake!Link
  <2>5. PICK j : j = [intake[r] EXCEPT !.step = "close"]
    OBVIOUS
  <2>6. j \in IntakeJobs /\ j.step = "close" /\ j.order = p /\ j.new = o
    BY <1>1, <1>4, <2>1, <2>5 DEF Intake!Link, IntakeJobs, Intake!Idle
  <2>7. Intake!Goto(r, j)
    BY <1>4, <2>5 DEF Intake!Link
  <2>8. Intake!Exists(o)' /\ Intake!Exists(p)'
    BY <2>1, <2>3, <2>4, RowChanges
  <2>9. OrderThere(j)' /\ LinkThere(j)' /\ NewThere(j)' /\ StillTrue(j)'
    BY <2>6, <2>8 DEF OrderThere, LinkThere, NewThere, StillTrue
  <2>10. QED  BY <2>1, <2>3, <2>4, <2>6, <2>7, <2>9, RowChanges, GotoIntakeInv
<1>5. QED  BY <1>3, <1>4

\* An order is delivered or fails: no request moves.
LEMMA AttendIntakeInv ==
    ASSUME IntakeInv, NEW o \in IntakeOrders, Intake!Attend(o)
    PROVE  IntakeInv'
<1>1. PICK s \in {"FAILED", "DELIVERED"} : row' = [row EXCEPT ![o].status = s]
  BY DEF Intake!Attend
<1>2. row \in [IntakeOrders -> IntakeRows] /\ Intake!Exists(o) /\ UNCHANGED <<intake, crossed>>
  BY DEF Intake!Attend, Intake!Exists, IntakeInv, IntakeTypeOK
<1>3. PICK v : v = [row[o] EXCEPT !.status = s]
  OBVIOUS
<1>4. /\ v \in IntakeRows /\ v.ref = row[o].ref /\ v.status # "absent"
      /\ v.recovery = row[o].recovery
  BY <1>2, <1>3 DEF IntakeRows
<1>5. row' = [row EXCEPT ![o] = v]
  BY <1>1, <1>2, <1>3
<1>6. /\ row' \in [IntakeOrders -> IntakeRows]
      /\ \A p \in IntakeOrders : row'[p].recovery = row[p].recovery
      /\ \A p \in IntakeOrders : Intake!Exists(p)' <=> Intake!Exists(p)
      /\ \A p \in IntakeOrders : Intake!Exists(p)' \/ row'[p] = Intake!Absent
      /\ \A ref : Intake!WithRef(ref)' = Intake!WithRef(ref)
      /\ ~crossed => SingleRefs'
  BY <1>2, <1>4, <1>5, RowChanges
<1>7. IntakeTypeOK'
  BY <1>2, <1>6 DEF IntakeInv, IntakeTypeOK, IntakeRows, IntakeJobs, Intake!Idle
<1>8. \A r \in Requests : intake'[r] = intake[r] /\ intake[r] \in IntakeJobs
  BY <1>2 DEF IntakeInv, IntakeTypeOK
<1>9. RowsThere'
  <2>1. ASSUME NEW r \in Requests
        PROVE  (OrderThere(intake[r]) /\ LinkThere(intake[r]) /\ NewThere(intake[r]))'
    <3>1. OrderThere(intake[r]) /\ LinkThere(intake[r]) /\ NewThere(intake[r])
      BY DEF IntakeInv, RowsThere
    <3>2. QED
      BY <1>6, <1>8, <3>1 DEF OrderThere, LinkThere, NewThere, IntakeJobs, Intake!Idle
  <2>2. QED  BY <1>6, <2>1 DEF RowsThere, Intake!Absent
<1>10. WhileUncrossed'
  <2> SUFFICES ASSUME ~crossed PROVE WhileUncrossed'
    BY <1>2 DEF WhileUncrossed
  <2>1. ASSUME NEW r \in Requests PROVE StillTrue(intake[r])'
    <3>1. StillTrue(intake[r])
      BY DEF IntakeInv, WhileUncrossed
    <3>2. QED
      BY <1>6, <1>8, <3>1 DEF StillTrue, Intake!Found, IntakeJobs, Intake!Idle
  <2>2. QED  BY <1>6, <1>8, <2>1 DEF IntakeInv, WhileUncrossed, Intake!Idle
<1>11. QED  BY <1>7, <1>9, <1>10 DEF IntakeInv

LEMMA IntakeInvStays == IntakeInv /\ [Intake!Next]_(Intake!vars) => IntakeInv'
<1> SUFFICES ASSUME IntakeInv, [Intake!Next]_(Intake!vars) PROVE IntakeInv'
  OBVIOUS
<1>1. CASE Intake!Next
  BY <1>1, ReadsIntakeInv, InsertIntakeInv, MarkIntakeInv, AttendIntakeInv DEF Intake!Next
<1>2. CASE UNCHANGED Intake!vars
  <2>1. row' = row /\ intake' = intake /\ crossed' = crossed
    BY <1>2 DEF Intake!vars
  <2>2. IntakeTypeOK'
    BY <2>1 DEF IntakeInv, IntakeTypeOK, IntakeRows, IntakeJobs, Intake!Idle
  <2>3. RowsThere'
    BY <2>1 DEF IntakeInv, RowsThere, OrderThere, LinkThere, NewThere, Intake!Exists,
                Intake!Absent
  <2>4. WhileUncrossed'
    BY <2>1 DEF IntakeInv, WhileUncrossed, StillTrue, SingleRefs, AtMostOne, Intake!Found,
                Intake!WithRef, Intake!Exists, Intake!Idle
  <2>5. QED  BY <2>2, <2>3, <2>4 DEF IntakeInv
<1>3. QED  BY <1>1, <1>2

LEMMA SameCardinality == \A S : Intake!Cardinality(S) = Cardinality(S)
  BY DEF Intake!Cardinality, Cardinality

LEMMA AtMostOneCounted ==
    ASSUME NEW S, AtMostOne(S)
    PROVE  Cardinality(S) <= 1
<1>1. CASE S = {}
  BY <1>1, FS_EmptySet
<1>2. CASE S # {}
  <2>1. PICK x : S = {x}
    BY <1>2 DEF AtMostOne
  <2>2. Cardinality({x}) = 1
    BY FS_Singleton
  <2>3. QED  BY <2>1, <2>2
<1>3. QED  BY <1>1, <1>2

\* One order for each external reference: an insert follows a lookup that found
\* none, and nothing can come between while requests do not cross.
THEOREM ReferencesAreSingle == DeskSpec => []OnePerRef
<1>1. IntakeInv => OnePerRef
  BY AtMostOneCounted, SameCardinality
  DEF IntakeInv, WhileUncrossed, SingleRefs, OnePerRef, Intake!OnePerRef
<1>2. QED
  BY <1>1, InitIntakeInv, IntakeInvStays, DeskImplementsParts, PTL DEF Intake!Spec

\* An order that was rescheduled stays so: what was read of it before flagging it
\* still holds when it is flagged, while requests do not cross.
THEOREM RescheduledForGood == DeskSpec => RescheduledStays
<1>1. ASSUME IntakeInv, [Intake!Next]_(Intake!vars)
      PROVE  [crossed' \/ \A o \in IntakeOrders :
                row[o].recovery = "RESCHEDULED" => row'[o].recovery = "RESCHEDULED"]_(Intake!vars)
  <2> SUFFICES ASSUME Intake!Next, ~crossed',
                      NEW o \in IntakeOrders, row[o].recovery = "RESCHEDULED"
               PROVE  row'[o].recovery = "RESCHEDULED"
    BY <1>1
  <2>1. row \in [IntakeOrders -> IntakeRows]
    BY <1>1 DEF IntakeInv, IntakeTypeOK
  <2>2. Intake!Exists(o)
    BY <1>1 DEF IntakeInv, RowsThere, Intake!Absent
  <2>3. ASSUME NEW r \in Requests,
               \/ Intake!CreateRead(r) \/ Intake!RescheduleLookup(r) \/ Intake!Abort(r)
               \/ \E p \in IntakeOrders : Intake!FlagRead(r, p) \/ Intake!RescheduleRead(r, p)
        PROVE  row' = row
    BY <2>3 DEF Intake!CreateRead, Intake!RescheduleLookup, Intake!Abort, Intake!FlagRead,
                Intake!RescheduleRead
  <2>4. ASSUME NEW r \in Requests, Intake!Insert(r) \/ Intake!RescheduleInsert(r)
        PROVE  row'[o] = row[o]
    <3>1. PICK p \in IntakeOrders : \E v : ~Intake!Exists(p) /\ row' = [row EXCEPT ![p] = v]
      BY <2>4 DEF Intake!Insert, Intake!RescheduleInsert, Intake!InsertRow
    <3>2. QED  BY <2>1, <2>2, <3>1
  <2>5. ASSUME NEW r \in Requests, Intake!Flag(r) PROVE row'[o] = row[o]
    <3>1. ~crossed
      BY <1>1, <2>5 DEF Intake!Flag, Intake!Goto, IntakeInv, IntakeTypeOK
    <3>2. row[intake[r].order].recovery # "RESCHEDULED"
      BY <1>1, <2>5, <3>1 DEF Intake!Flag, IntakeInv, WhileUncrossed, StillTrue
    <3>3. QED  BY <2>1, <2>5, <3>2 DEF Intake!Flag
  <2>6. ASSUME NEW r \in Requests, Intake!Link(r) \/ Intake!CloseOriginal(r)
        PROVE  row'[o].recovery = "RESCHEDULED"
    BY <2>1, <2>6 DEF Intake!Link, Intake!CloseOriginal, IntakeRows
  <2>7. ASSUME NEW p \in IntakeOrders, Intake!Attend(p)
        PROVE  row'[o].recovery = "RESCHEDULED"
    BY <2>1, <2>7 DEF Intake!Attend, IntakeRows
  <2>8. QED  BY <2>3, <2>4, <2>5, <2>6, <2>7 DEF Intake!Next
<1>2. QED
  BY <1>1, InitIntakeInv, IntakeInvStays, DeskImplementsParts, PTL
  DEF Intake!Spec, RescheduledStays, Intake!RescheduledStays

-----------------------------------------------------------------------------
\* The series of the days that are over.

Counted(d) == Analytics!Count(d)

\* The days that were written on the day after are over, and have their count.
RowsRight ==
    \A d \in revisited :
        d \in Analytics!Days /\ d < today /\ (d \notin unsettled => series[d] = Counted(d))

Settled == revisited \cup unsettled
Computes(r) == r.step \in {"count", "write"}

\* A reading computes the day before the one it was made fresh on; once midnight
\* has struck, nothing it computes is settled.
ComputesRight(r) ==
    Computes(r) =>
        /\ r.on \in Nat /\ r.on <= today /\ r.days \subseteq r.from..r.to
        /\ r.on - 1 \in r.from..r.to => r.on - 1 \in r.days
        /\ r.on = today \/ r.days \subseteq unsettled

\* What it has counted of a day that is over is still what is counted.
FoundRight(r) ==
    r.step = "write" =>
        /\ r.found \in [r.days -> Nat]
        /\ \A d \in r.days : d < today /\ d \notin unsettled => r.found[d] = Counted(d)

\* When it has computed, the day before has its count, and so it is read.
ReadsRight(r) ==
    /\ r.step \in {"read", "shown"} => r.on \in Nat /\ r.on <= today
    /\ r.step = "read" => (r.on - 1 \in r.from..r.to => r.on - 1 \in Settled)
    /\ r.step = "shown" =>
         /\ r.on - 1 \in DOMAIN r.points => r.on - 1 \in Settled
         /\ \A d \in DOMAIN r.points \cap revisited :
              d < r.on /\ d \notin unsettled => r.points[d] = Counted(d)

RangeOK(r) ==
    r.step \in {"fresh", "count", "write", "read"} =>
        r.from \in Analytics!Days /\ r.to \in Analytics!Days

ReadingRight(r) == RangeOK(r) /\ ComputesRight(r) /\ FoundRight(r) /\ ReadsRight(r)

SeriesTypeOK ==
    /\ today \in Analytics!Days
    /\ day \in [Things -> Analytics!Days \cup {Never}]
    /\ series \in [Analytics!Days -> Nat \cup {Never}]
    /\ \E V : reading \in [Readings -> V]

SeriesInv == SeriesTypeOK /\ RowsRight /\ \A k \in Readings : ReadingRight(reading[k])

-----------------------------------------------------------------------------
LEMMA CountType == \A d : Counted(d) \in Nat
<1> TAKE d
<1>1. IsFiniteSet(Things)
  BY DeskAssumption DEF Analytics!MetricsAssumption, Analytics!IsFiniteSet, IsFiniteSet
<1>2. IsFiniteSet({x \in Things : day[x] = d})
  BY <1>1, FS_Subset
<1>3. Cardinality({x \in Things : day[x] = d}) \in Nat
  BY <1>2, FS_CardinalityType
<1>4. QED  BY <1>3 DEF Counted, Analytics!Count, Analytics!Cardinality, Cardinality

LEMMA SeriesConstants == LastDay \in Nat /\ Never \notin Nat /\ Analytics!Days = 0..LastDay
  BY DeskAssumption DEF Analytics!MetricsAssumption, Analytics!Days

LEMMA InitSeriesInv == Analytics!Init => SeriesInv
<1> SUFFICES ASSUME Analytics!Init PROVE SeriesInv
  OBVIOUS
<1>1. \A k \in Readings : reading[k] = Analytics!Idle /\ reading[k].step = "idle"
  BY DEF Analytics!Init, Analytics!Idle
<1>2. \A k \in Readings : ReadingRight(reading[k])
  BY <1>1 DEF ReadingRight, RangeOK, ComputesRight, FoundRight, ReadsRight, Computes
<1>3. SeriesTypeOK
  <2>1. reading \in [Readings -> {Analytics!Idle}]
    BY DEF Analytics!Init
  <2>2. today \in Analytics!Days
    BY SeriesConstants DEF Analytics!Init
  <2>3. QED  BY <2>1, <2>2 DEF Analytics!Init, SeriesTypeOK
<1>4. RowsRight
  BY DEF Analytics!Init, RowsRight
<1>5. QED  BY <1>2, <1>3, <1>4 DEF SeriesInv

LEMMA ReadingMoves ==
    ASSUME SeriesTypeOK, NEW k \in Readings, NEW r, reading' = [reading EXCEPT ![k] = r]
    PROVE  /\ \E V : reading' \in [Readings -> V]
           /\ \A q \in Readings : reading'[q] = IF q = k THEN r ELSE reading[q]
<1>1. PICK V : reading \in [Readings -> V]
  BY DEF SeriesTypeOK
<1>2. reading' \in [Readings -> V \cup {r}]
  BY <1>1
<1>3. QED  BY <1>1, <1>2

\* A reading goes one step on, and nothing else changes.
LEMMA StepSeriesInv ==
    ASSUME SeriesInv, NEW k \in Readings, NEW r, reading' = [reading EXCEPT ![k] = r],
           UNCHANGED <<today, day, series, revisited, unsettled>>, ReadingRight(r)
    PROVE  SeriesInv'
<1>1. /\ \E V : reading' \in [Readings -> V]
      /\ \A q \in Readings : reading'[q] = IF q = k THEN r ELSE reading[q]
  BY ReadingMoves DEF SeriesInv
<1>2. SeriesTypeOK'
  BY <1>1 DEF SeriesInv, SeriesTypeOK, Analytics!Days
<1>3. \A d : Counted(d)' = Counted(d)
  BY DEF Counted, Analytics!Count
<1>4. RowsRight'
  BY <1>3 DEF SeriesInv, RowsRight, Analytics!Days
<1>5. ASSUME NEW q \in Readings PROVE ReadingRight(reading[q])'
  <2>1. PICK v : v = reading'[q]
    OBVIOUS
  <2>2. ReadingRight(v)
    BY <1>1, <2>1 DEF SeriesInv
  <2>3. RangeOK(v)'
    BY <2>2 DEF ReadingRight, RangeOK, Analytics!Days
  <2>4. ComputesRight(v)'
    BY <2>2 DEF ReadingRight, ComputesRight, Computes
  <2>5. FoundRight(v)'
    BY <1>3, <2>2 DEF ReadingRight, FoundRight
  <2>6. ReadsRight(v)'
    BY <1>3, <2>2 DEF ReadingRight, ReadsRight, Settled
  <2>7. ReadingRight(v)'
    BY <2>3, <2>4, <2>5, <2>6 DEF ReadingRight
  <2>8. QED
    BY <2>1, <2>7 DEF ReadingRight, RangeOK, ComputesRight, FoundRight, ReadsRight, Computes
<1>6. QED  BY <1>2, <1>4, <1>5 DEF SeriesInv

LEMMA AskSeriesInv ==
    ASSUME SeriesInv, NEW k \in Readings, NEW from \in Analytics!Days, NEW to \in Analytics!Days,
           Analytics!Ask(k, from, to)
    PROVE  SeriesInv'
<1>1. PICK r : r = [step |-> "fresh", from |-> from, to |-> to]
  OBVIOUS
<1>2. ReadingRight(r)
  BY <1>1 DEF ReadingRight, RangeOK, ComputesRight, FoundRight, ReadsRight, Computes
<1>3. QED  BY <1>1, <1>2, StepSeriesInv DEF Analytics!Ask

LEMMA LeaveSeriesInv ==
    ASSUME SeriesInv, NEW k \in Readings, Analytics!Leave(k)
    PROVE  SeriesInv'
<1>1. PICK r : r = Analytics!Idle
  OBVIOUS
<1>2. r.step = "idle"
  BY <1>1 DEF Analytics!Idle
<1>3. ReadingRight(r)
  BY <1>2 DEF ReadingRight, RangeOK, ComputesRight, FoundRight, ReadsRight, Computes
<1>4. QED  BY <1>1, <1>3, StepSeriesInv DEF Analytics!Leave

\* A range is made fresh: the day before today, when the range has it, is computed.
LEMMA EnsureFreshSeriesInv ==
    ASSUME SeriesInv, NEW k \in Readings, Analytics!EnsureFresh(k)
    PROVE  SeriesInv'
<1> DEFINE was == reading[k]
           days == Analytics!ToCompute(was, today - 1)
           now == [step |-> IF days = {} THEN "read" ELSE "count",
                   from |-> was.from, to |-> was.to, on |-> today, days |-> days]
<1>1. /\ was.step = "fresh" /\ reading' = [reading EXCEPT ![k] = now]
      /\ UNCHANGED <<today, day, series, revisited, unsettled>>
  BY DEF Analytics!EnsureFresh, Analytics!MakeFresh
<1>2. was.from \in Nat /\ was.to \in Nat /\ RangeOK(was) /\ today \in Nat
  BY <1>1, SeriesConstants DEF SeriesInv, SeriesTypeOK, ReadingRight, RangeOK
<1>3. days \subseteq was.from..was.to /\ (today - 1 \in was.from..was.to => today - 1 \in days)
  BY <1>2 DEF Analytics!ToCompute
<1> HIDE DEF days
<1>4. PICK r : r = now
  OBVIOUS
<1>5. /\ r.step = (IF days = {} THEN "read" ELSE "count")
      /\ r.from = was.from /\ r.to = was.to /\ r.on = today /\ r.days = days
  BY <1>4
<1> HIDE DEF now, was
<1>6. RangeOK(r) /\ FoundRight(r)
  BY <1>1, <1>2, <1>5 DEF RangeOK, FoundRight
<1>7. ComputesRight(r)
  BY <1>2, <1>3, <1>5 DEF ComputesRight, Computes
<1>8. ReadsRight(r)
  BY <1>2, <1>3, <1>5 DEF ReadsRight
<1>9. QED  BY <1>1, <1>4, <1>6, <1>7, <1>8, StepSeriesInv DEF ReadingRight

LEMMA RecomputeSeriesInv ==
    ASSUME SeriesInv, NEW k \in Readings, Analytics!Recompute(k)
    PROVE  SeriesInv'
<1> DEFINE was == reading[k]
           now == [step |-> "write", from |-> was.from, to |-> was.to, on |-> was.on,
                   days |-> was.days, found |-> [d \in was.days |-> Counted(d)]]
<1>1. PICK V : reading \in [Readings -> V]
  BY DEF SeriesInv, SeriesTypeOK
<1>2. was.step = "count" /\ UNCHANGED <<today, day, series, revisited, unsettled>>
  BY DEF Analytics!Recompute
<1>3. reading' = [reading EXCEPT ![k] = now]
  BY <1>1 DEF Analytics!Recompute, Counted
<1>4. PICK r : r = now
  OBVIOUS
<1>5. /\ r.step = "write" /\ r.from = was.from /\ r.to = was.to /\ r.on = was.on
      /\ r.days = was.days /\ r.found = [d \in was.days |-> Counted(d)]
  BY <1>4
<1>6. ReadingRight(was)
  BY DEF SeriesInv
<1>7. reading' = [reading EXCEPT ![k] = r]
  BY <1>3, <1>4
<1> HIDE DEF now, was
<1>8. RangeOK(r) /\ ComputesRight(r)
  BY <1>2, <1>5, <1>6 DEF ReadingRight, RangeOK, ComputesRight, Computes
<1>9. FoundRight(r)
  BY <1>5, CountType DEF FoundRight
<1>10. ReadsRight(r)
  BY <1>5 DEF ReadsRight
<1>11. QED  BY <1>2, <1>7, <1>8, <1>9, <1>10, StepSeriesInv DEF ReadingRight

LEMMA ReadRowsSeriesInv ==
    ASSUME SeriesInv, NEW k \in Readings, Analytics!ReadRows(k)
    PROVE  SeriesInv'
<1> DEFINE was == reading[k]
           shown == [d \in was.from..was.to |-> IF series[d] = Never THEN 0 ELSE series[d]]
           now == [step |-> "shown", on |-> was.on, points |-> shown]
<1>1. PICK V : reading \in [Readings -> V]
  BY DEF SeriesInv, SeriesTypeOK
<1>2. was.step = "read" /\ UNCHANGED <<today, day, series, revisited, unsettled>>
  BY DEF Analytics!ReadRows
<1>3. reading' = [reading EXCEPT ![k] = now]
  BY <1>1 DEF Analytics!ReadRows
<1>4. PICK r : r = now
  OBVIOUS
<1>5. r.step = "shown" /\ r.on = was.on /\ r.points = shown
  BY <1>4
<1>6. ReadsRight(was)
  BY DEF SeriesInv, ReadingRight
<1>7. DOMAIN r.points = was.from..was.to
  BY <1>5
<1>8. \A d \in DOMAIN r.points \cap revisited : d \notin unsettled => r.points[d] = Counted(d)
  <2> SUFFICES ASSUME NEW d \in was.from..was.to, d \in revisited, d \notin unsettled
               PROVE  shown[d] = Counted(d)
    BY <1>5, <1>7
  <2>1. series[d] = Counted(d) /\ Counted(d) \in Nat
    BY CountType DEF SeriesInv, RowsRight
  <2>2. QED  BY <2>1, SeriesConstants
<1>9. reading' = [reading EXCEPT ![k] = r]
  BY <1>3, <1>4
<1> HIDE DEF now, was, shown
<1>10. ReadsRight(r)
  BY <1>2, <1>5, <1>6, <1>7, <1>8 DEF ReadsRight
<1>11. RangeOK(r) /\ ComputesRight(r) /\ FoundRight(r)
  BY <1>5 DEF RangeOK, ComputesRight, Computes, FoundRight
<1>12. QED  BY <1>2, <1>9, <1>10, <1>11, StepSeriesInv DEF ReadingRight

\* What was computed is written: today's reading revisits the day before.
LEMMA UpsertSeriesInv ==
    ASSUME SeriesInv, NEW k \in Readings, Analytics!Upsert(k)
    PROVE  SeriesInv'
<1> DEFINE was == reading[k]
           now == [step |-> "read", from |-> was.from, to |-> was.to, on |-> was.on, days |-> {}]
<1>1. /\ was.step = "write" /\ UNCHANGED <<today, day, unsettled>>
      /\ series' = [d \in Analytics!Days |-> IF d \in was.days THEN was.found[d] ELSE series[d]]
      /\ revisited' = revisited \cup ({today - 1} \cap was.days)
      /\ reading' = [reading EXCEPT ![k] = now]
  BY DEF Analytics!Upsert
<1>2. PICK r : r = now
  OBVIOUS
<1>3. r.step = "read" /\ r.from = was.from /\ r.to = was.to /\ r.on = was.on
  BY <1>2
<1>4. ReadingRight(was) /\ RowsRight /\ SeriesTypeOK
  BY DEF SeriesInv
<1>5. reading' = [reading EXCEPT ![k] = r]
  BY <1>1, <1>2
<1> HIDE DEF now, was
<1>6. /\ \E V : reading' \in [Readings -> V]
      /\ \A q \in Readings : reading'[q] = IF q = k THEN r ELSE reading[q]
  BY <1>4, <1>5, ReadingMoves
<1>7. /\ was.from \in Nat /\ was.to \in Nat /\ was.to <= LastDay
      /\ was.days \subseteq was.from..was.to /\ was.found \in [was.days -> Nat]
      /\ was.on \in Nat /\ today \in Nat
  BY <1>1, <1>4, SeriesConstants
  DEF ReadingRight, RangeOK, ComputesRight, FoundRight, Computes, SeriesTypeOK
<1>8. was.days \subseteq Analytics!Days
  BY <1>7, SeriesConstants
<1>9. \A d : Counted(d)' = Counted(d)
  BY <1>1 DEF Counted, Analytics!Count
<1>10. SeriesTypeOK'
  <2>1. series' \in [Analytics!Days -> Nat \cup {Never}]
    BY <1>1, <1>4, <1>7 DEF SeriesTypeOK
  <2>2. QED  BY <1>1, <1>4, <1>6, <2>1 DEF SeriesTypeOK, Analytics!Days
<1>11. RowsRight'
  <2> SUFFICES ASSUME NEW d \in revisited'
               PROVE  /\ d \in Analytics!Days /\ d < today
                      /\ d \notin unsettled => series'[d] = Counted(d)
    BY <1>1, <1>9 DEF RowsRight, Analytics!Days
  <2>1. d \in Analytics!Days /\ d < today
    BY <1>1, <1>4, <1>7, <1>8 DEF RowsRight
  <2>2. CASE d \in was.days
    BY <1>1, <1>4, <2>1, <2>2 DEF ReadingRight, FoundRight
  <2>3. CASE d \notin was.days
    BY <1>1, <1>4, <2>1, <2>3 DEF RowsRight
  <2>4. QED  BY <2>1, <2>2, <2>3
<1>12. ReadingRight(r)'
  <2>1. RangeOK(r)'
    BY <1>1, <1>3, <1>4 DEF ReadingRight, RangeOK, Analytics!Days
  <2>2. ComputesRight(r)' /\ FoundRight(r)'
    BY <1>3 DEF ComputesRight, FoundRight, Computes
  <2>3. was.on \in Nat /\ was.on <= today
    BY <1>1, <1>4 DEF ReadingRight, ComputesRight, Computes
  <2>4. was.on - 1 \in was.from..was.to => was.on - 1 \in Settled'
    BY <1>1, <1>4 DEF ReadingRight, ComputesRight, Computes, Settled
  <2>5. ReadsRight(r)'
    BY <1>1, <1>3, <2>3, <2>4 DEF ReadsRight
  <2>6. QED  BY <2>1, <2>2, <2>5 DEF ReadingRight
<1>13. ASSUME NEW q \in Readings, q # k PROVE ReadingRight(reading[q])'
  <2>1. PICK v : v = reading'[q]
    OBVIOUS
  <2>2. ReadingRight(v)
    BY <1>6, <1>13, <2>1 DEF SeriesInv
  <2>3. RangeOK(v)'
    BY <2>2 DEF ReadingRight, RangeOK, Analytics!Days
  <2>4. ComputesRight(v)'
    BY <1>1, <2>2 DEF ReadingRight, ComputesRight, Computes
  <2>5. FoundRight(v)'
    BY <1>1, <1>9, <2>2 DEF ReadingRight, FoundRight
  <2>6. ReadsRight(v)'
    <3>1. Settled \subseteq Settled'
      BY <1>1 DEF Settled
    <3>2. ASSUME v.step = "shown", NEW d \in DOMAIN v.points, d \in revisited', d < v.on,
                 d \notin unsettled
          PROVE  v.points[d] = Counted(d)
      <4>1. CASE d \in revisited
        BY <2>2, <3>2, <4>1 DEF ReadingRight, ReadsRight
      <4>2. CASE d \notin revisited
        <5>1. d = today - 1 /\ v.on \in Nat /\ v.on <= today
          BY <1>1, <2>2, <3>2, <4>2 DEF ReadingRight, ReadsRight
        <5>2. d = v.on - 1
          BY <1>7, <3>2, <5>1
        <5>3. d \in Settled
          BY <2>2, <3>2, <5>2 DEF ReadingRight, ReadsRight
        <5>4. QED  BY <3>2, <4>2, <5>3 DEF Settled
      <4>3. QED  BY <4>1, <4>2
    <3>3. QED
      BY <1>1, <1>9, <2>2, <3>1, <3>2 DEF ReadingRight, ReadsRight
  <2>7. ReadingRight(v)'
    BY <2>3, <2>4, <2>5, <2>6 DEF ReadingRight
  <2>8. QED
    BY <2>1, <2>7 DEF ReadingRight, RangeOK, ComputesRight, FoundRight, ReadsRight, Computes
<1>14. ASSUME NEW q \in Readings PROVE ReadingRight(reading[q])'
  <2>1. CASE q = k
    <3>1. reading'[q] = r
      BY <1>6, <2>1
    <3>2. QED
      BY <1>12, <3>1 DEF ReadingRight, RangeOK, ComputesRight, FoundRight, ReadsRight, Computes
  <2>2. QED  BY <1>13, <2>1
<1>15. QED  BY <1>10, <1>11, <1>14 DEF SeriesInv

\* The calendar and what is counted change: of a day that is over, only when it
\* is remembered as unsettled.
LEMMA OutsideSeriesInv ==
    ASSUME SeriesInv, UNCHANGED <<reading, series, revisited>>, unsettled \subseteq unsettled',
           today' \in Analytics!Days, today <= today',
           day' \in [Things -> Analytics!Days \cup {Never}],
           today' = today \/ Analytics!BeingComputed \subseteq unsettled',
           \A d \in Analytics!Days : d < today /\ d \notin unsettled' => Counted(d)' = Counted(d)
    PROVE  SeriesInv'
<1>1. SeriesTypeOK'
  BY DEF SeriesInv, SeriesTypeOK, Analytics!Days
<1>2. today \in Nat /\ today' \in Nat /\ \A d \in Analytics!Days : d \in Nat
  BY SeriesConstants DEF SeriesInv, SeriesTypeOK
<1>3. RowsRight'
  <2> SUFFICES ASSUME NEW d \in revisited
               PROVE  /\ d \in Analytics!Days /\ d < today'
                      /\ d \notin unsettled' => series[d] = Counted(d)'
    BY DEF RowsRight, Analytics!Days
  <2>1. d \in Analytics!Days /\ d < today /\ (d \notin unsettled => series[d] = Counted(d))
    BY DEF SeriesInv, RowsRight
  <2>2. QED  BY <1>2, <2>1
<1>4. ASSUME NEW q \in Readings PROVE ReadingRight(reading[q])'
  <2>1. PICK v : v = reading[q]
    OBVIOUS
  <2>2. ReadingRight(v)
    BY <2>1 DEF SeriesInv
  <2>3. RangeOK(v)'
    BY <2>2 DEF ReadingRight, RangeOK, Analytics!Days
  <2>4. Computes(v) => v.days \subseteq Analytics!BeingComputed /\ v.days \subseteq Analytics!Days
    <3>1. Computes(v) => Analytics!Computing(reading[q]) = v.days
      BY <2>1 DEF Computes, Analytics!Computing
    <3>2. Analytics!Computing(reading[q]) \subseteq Analytics!BeingComputed
      BY DEF Analytics!BeingComputed
    <3>3. Computes(v) => /\ v.from \in Nat /\ v.to \in Nat /\ v.to <= LastDay
                         /\ v.days \subseteq v.from..v.to
      BY <2>2, SeriesConstants DEF ReadingRight, RangeOK, ComputesRight, Computes
    <3>4. Computes(v) => v.days \subseteq Analytics!Days
      BY <3>3, SeriesConstants
    <3>5. QED  BY <3>1, <3>2, <3>4
  <2>5. ComputesRight(v)'
    BY <1>2, <2>2, <2>4 DEF ReadingRight, ComputesRight, Computes
  <2>6. FoundRight(v)'
    <3> SUFFICES ASSUME v.step = "write", NEW d \in v.days, d < today', d \notin unsettled'
                 PROVE  v.found[d] = Counted(d)'
      BY <2>2 DEF ReadingRight, FoundRight
    <3>1. d \in Analytics!Days /\ today' = today
      BY <2>4 DEF Computes
    <3>2. QED  BY <2>2, <3>1 DEF ReadingRight, FoundRight
  <2>7. ReadsRight(v)'
    <3>1. Settled \subseteq Settled'
      BY DEF Settled
    <3>2. v.step \in {"read", "shown"} => v.on \in Nat /\ v.on <= today'
      BY <1>2, <2>2 DEF ReadingRight, ReadsRight
    <3>3. ASSUME v.step = "shown", NEW d \in DOMAIN v.points, d \in revisited, d < v.on,
                 d \notin unsettled'
          PROVE  v.points[d] = Counted(d)'
      <4>1. d \in Analytics!Days /\ d < today
        BY <3>3 DEF SeriesInv, RowsRight
      <4>2. QED  BY <2>2, <3>3, <4>1 DEF ReadingRight, ReadsRight
    <3>4. QED
      BY <2>2, <3>1, <3>2, <3>3 DEF ReadingRight, ReadsRight
  <2>8. ReadingRight(v)'
    BY <2>3, <2>5, <2>6, <2>7 DEF ReadingRight
  <2>9. QED
    BY <2>1, <2>8 DEF ReadingRight, RangeOK, ComputesRight, FoundRight, ReadsRight, Computes
<1>5. QED  BY <1>1, <1>3, <1>4 DEF SeriesInv

LEMMA MidnightSeriesInv ==
    ASSUME SeriesInv, Analytics!Midnight
    PROVE  SeriesInv'
<1>1. today \in 0..LastDay /\ today < LastDay /\ today' = today + 1
  BY SeriesConstants DEF Analytics!Midnight, SeriesInv, SeriesTypeOK
<1>2. today' \in Analytics!Days /\ today <= today'
  BY <1>1, SeriesConstants
<1>3. /\ unsettled' = unsettled \cup Analytics!BeingComputed
      /\ UNCHANGED <<day, series, reading, revisited>>
  BY DEF Analytics!Midnight
<1>4. \A d : Counted(d)' = Counted(d)
  BY <1>3 DEF Counted, Analytics!Count
<1>5. day' \in [Things -> Analytics!Days \cup {Never}]
  BY <1>3 DEF SeriesInv, SeriesTypeOK
<1>6. QED  BY <1>2, <1>3, <1>4, <1>5, OutsideSeriesInv

LEMMA RecountSeriesInv ==
    ASSUME SeriesInv, NEW x \in Things, NEW d \in Analytics!Days \cup {Never},
           NEW changed \in Analytics!Days,
           {d, day[x]} = {changed, Never}, Analytics!Recount(x, d, changed)
    PROVE  SeriesInv'
<1>1. /\ day' = [day EXCEPT ![x] = d]
      /\ unsettled' = IF changed < today THEN unsettled \cup {changed} ELSE unsettled
      /\ UNCHANGED <<today, series, reading, revisited>>
  BY DEF Analytics!Recount
<1>2. day \in [Things -> Analytics!Days \cup {Never}] /\ today \in Analytics!Days
  BY DEF SeriesInv, SeriesTypeOK
<1>3. today \in Nat
  BY <1>2, SeriesConstants
<1>4. ASSUME NEW e \in Analytics!Days, e # changed PROVE Counted(e)' = Counted(e)
  <2>1. e # Never
    BY SeriesConstants
  <2>2. \A y \in Things : day'[y] = e <=> day[y] = e
    BY <1>1, <1>2, <1>4, <2>1
  <2>3. {y \in Things : day'[y] = e} = {y \in Things : day[y] = e}
    BY <2>2
  <2>4. QED  BY <2>3 DEF Counted, Analytics!Count
<1>5. \A e \in Analytics!Days : e < today /\ e \notin unsettled' => Counted(e)' = Counted(e)
  BY <1>1, <1>4
<1>6. day' \in [Things -> Analytics!Days \cup {Never}]
  BY <1>1, <1>2
<1>7. QED  BY <1>1, <1>2, <1>3, <1>5, <1>6, OutsideSeriesInv

LEMMA SeriesInvStays == SeriesInv /\ [Analytics!Next]_(Analytics!vars) => SeriesInv'
<1> SUFFICES ASSUME SeriesInv, [Analytics!Next]_(Analytics!vars) PROVE SeriesInv'
  OBVIOUS
<1>1. day \in [Things -> Analytics!Days \cup {Never}]
  BY DEF SeriesInv, SeriesTypeOK
<1>2. ASSUME NEW x \in Things, NEW d \in Analytics!Days, Analytics!Happen(x, d) PROVE SeriesInv'
  BY <1>2, RecountSeriesInv DEF Analytics!Happen
<1>3. ASSUME NEW x \in Things, Analytics!Undo(x) PROVE SeriesInv'
  BY <1>1, <1>3, RecountSeriesInv DEF Analytics!Undo
<1>4. CASE UNCHANGED Analytics!vars
  <2>1. UNCHANGED <<today, day, series, reading, revisited, unsettled>>
    BY <1>4 DEF Analytics!vars
  <2>2. \A d : Counted(d)' = Counted(d)
    BY <2>1 DEF Counted, Analytics!Count
  <2>3. today \in Analytics!Days /\ today \in Nat
    BY SeriesConstants DEF SeriesInv, SeriesTypeOK
  <2>4. QED  BY <1>1, <2>1, <2>2, <2>3, OutsideSeriesInv
<1>5. QED
  BY <1>2, <1>3, <1>4, MidnightSeriesInv, AskSeriesInv, EnsureFreshSeriesInv,
     RecomputeSeriesInv, UpsertSeriesInv, ReadRowsSeriesInv, LeaveSeriesInv DEF Analytics!Next

\* A reading shows whole the day before the one it was made fresh on, and every
\* day that was written on the day after, however many readings compute at once.
THEOREM PastDaysAreWhole == DeskSpec => []RevisitedDaysAreWhole
<1>1. SeriesInv => RevisitedDaysAreWhole
  <2> SUFFICES ASSUME SeriesInv, NEW k \in Readings, NEW d \in Analytics!Days,
                      reading[k].step = "shown", d \in revisited \cup {reading[k].on - 1},
                      d \in DOMAIN reading[k].points, d < reading[k].on, d \notin unsettled
               PROVE  reading[k].points[d] = Counted(d)
    BY DEF RevisitedDaysAreWhole, Analytics!RevisitedDaysAreWhole, Analytics!Whole, Counted
  <2>1. ReadsRight(reading[k])
    BY DEF SeriesInv, ReadingRight
  <2>2. d \in revisited
    BY <2>1 DEF ReadsRight, Settled
  <2>3. QED  BY <2>1, <2>2 DEF ReadsRight
<1>2. QED
  BY <1>1, InitSeriesInv, SeriesInvStays, DeskImplementsParts, PTL DEF Analytics!Spec
=============================================================================
