---------------------------- MODULE AiProposals ----------------------------
(***************************************************************************)
(* Proposals of the AI actions that plan routes, modules/ai/executor.ts:   *)
(* runAction stores a proposal, applyProposal claims it, applies it and,   *)
(* when applying fails, gives the claim back.                              *)
(*                                                                         *)
(* The apply of optimize_routes (ai/registry.ts) does not write the stored *)
(* change: it plans again the orders of the proposal that are in no route, *)
(* and persists route by route, so it may fail with some routes created.   *)
(* There is room for every order: what the solver leaves unassigned stays  *)
(* plannable, and would only stand for another proposal.                   *)
(***************************************************************************)
EXTENDS Naturals

CONSTANTS
    Proposals, Orders,
    OrdersOf,   \* the orders each proposal is about (contextJson.orderIds)
    Handlers,   \* the requests being served
    Faults      \* what may go wrong: a subset of {"throw", "crash"}

ASSUME ProposalsAssumption ==
    /\ OrdersOf \in [Proposals -> SUBSET Orders]
    /\ Faults \subseteq {"throw", "crash"}

VARIABLES
    status,    \* AiProposal.status, "absent" before it is generated
    expired,   \* the proposals whose expiresAt has passed
    trips,     \* the number of routes each order is in
    pc, of,    \* what a handler does next, and for which proposal
    plan,      \* the orders a handler has planned and not yet put in a route
    crashed    \* history: the proposals whose apply was cut

vars == <<status, expired, trips, pc, of, plan, crashed>>

Unrouted(p) == {o \in OrdersOf[p] : trips[o] = 0}

Init ==
    /\ status = [p \in Proposals |-> "absent"]
    /\ expired = {}
    /\ trips = [o \in Orders |-> 0]
    /\ pc = [h \in Handlers |-> "idle"]
    /\ of \in [Handlers -> Proposals]
    /\ plan = [h \in Handlers |-> {}]
    /\ crashed = {}

Goto(h, next) == pc' = [pc EXCEPT ![h] = next]

Finish(h) ==
    /\ Goto(h, "idle")
    /\ plan' = [plan EXCEPT ![h] = {}]
    /\ UNCHANGED of

-----------------------------------------------------------------------------
\* runAction: only a feasible proposal can be applied, so one is generated here
\* when it has orders to plan.
RunAction(p) ==
    /\ status[p] = "absent" /\ Unrouted(p) # {}
    /\ status' = [status EXCEPT ![p] = "PENDING"]
    /\ UNCHANGED <<expired, trips, pc, of, plan, crashed>>

Expire(p) ==
    /\ status[p] # "absent" /\ p \notin expired
    /\ expired' = expired \cup {p}
    /\ UNCHANGED <<status, trips, pc, of, plan, crashed>>

-----------------------------------------------------------------------------
\* applyProposal.

\* 409 when it is applied already, 410 when it has expired.
ApplyRead(h, p) ==
    /\ pc[h] = "idle"
    /\ status[p] = "PENDING" /\ p \notin expired
    /\ Goto(h, "claim")
    /\ of' = [of EXCEPT ![h] = p]
    /\ UNCHANGED <<status, expired, trips, plan, crashed>>

ClaimWhatWasRead(h) ==
    /\ pc[h] = "claim"
    /\ status' = [status EXCEPT ![of[h]] = "APPLIED"]
    /\ Goto(h, "plan")
    /\ UNCHANGED <<expired, trips, of, plan, crashed>>

\* The atomic claim, PENDING -> APPLIED, or a 409.
Claim(h) ==
    /\ pc[h] = "claim"
    /\ IF status[of[h]] = "PENDING"
       THEN /\ status' = [status EXCEPT ![of[h]] = "APPLIED"]
            /\ Goto(h, "plan")
            /\ UNCHANGED <<of, plan>>
       ELSE Finish(h) /\ UNCHANGED status
    /\ UNCHANGED <<expired, trips, crashed>>

PlanWhatWasProposed(h) ==
    /\ pc[h] = "plan"
    /\ plan' = [plan EXCEPT ![h] = OrdersOf[of[h]]]
    /\ Goto(h, "persist")
    /\ UNCHANGED <<status, expired, trips, of, crashed>>

\* The action's apply: runPlan, which fails when no order is left to plan...
Plan(h) ==
    /\ pc[h] = "plan"
    /\ plan' = [plan EXCEPT ![h] = Unrouted(of[h])]
    /\ Goto(h, IF Unrouted(of[h]) = {} THEN "release" ELSE "persist")
    /\ UNCHANGED <<status, expired, trips, of, crashed>>

\* ...then persistPlan, one route after another.
Persist(h) ==
    /\ pc[h] = "persist"
    /\ \E S \in (SUBSET plan[h]) \ {{}} :
         /\ trips' = [o \in Orders |-> IF o \in S THEN trips[o] + 1 ELSE trips[o]]
         /\ plan' = [plan EXCEPT ![h] = @ \ S]
         /\ Goto(h, IF S = plan[h] THEN "answer" ELSE "persist")
    /\ UNCHANGED <<status, expired, of, crashed>>

\* The proposal is read again for the answer, still inside the try.
Answer(h) ==
    /\ pc[h] = "answer"
    /\ Finish(h)
    /\ UNCHANGED <<status, expired, trips, crashed>>

ThrowWithoutRelease(h) ==
    /\ "throw" \in Faults
    /\ pc[h] \in {"plan", "persist", "answer"}
    /\ Finish(h)
    /\ UNCHANGED <<status, expired, trips, crashed>>

\* Applying fails: the catch block gives the claim back.
Throw(h) ==
    /\ "throw" \in Faults
    /\ pc[h] \in {"plan", "persist", "answer"}
    /\ Goto(h, "release")
    /\ UNCHANGED <<status, expired, trips, of, plan, crashed>>

Release(h) ==
    /\ pc[h] = "release"
    /\ status' = [status EXCEPT ![of[h]] = "PENDING"]
    /\ Finish(h)
    /\ UNCHANGED <<expired, trips, crashed>>

\* The process restarts, or giving the claim back fails too.
Crash(h) ==
    /\ "crash" \in Faults
    /\ pc[h] # "idle"
    /\ Finish(h)
    /\ crashed' = crashed \cup {of[h]}
    /\ UNCHANGED <<status, expired, trips>>

Next ==
    \/ \E p \in Proposals : RunAction(p) \/ Expire(p)
    \/ \E h \in Handlers :
         \/ \E p \in Proposals : ApplyRead(h, p)
         \/ Claim(h) \/ Plan(h) \/ Persist(h) \/ Answer(h)
         \/ Throw(h) \/ Release(h) \/ Crash(h)

Spec == Init /\ [][Next]_vars

-----------------------------------------------------------------------------
\* Properties.

Applying(h) == pc[h] \in {"plan", "persist", "answer", "release"}

TypeOK ==
    /\ status \in [Proposals -> {"absent", "PENDING", "APPLIED"}]
    /\ expired \subseteq {p \in Proposals : status[p] # "absent"}
    /\ trips \in [Orders -> Nat] /\ crashed \subseteq Proposals
    /\ pc \in [Handlers -> {"idle", "claim", "plan", "persist", "answer", "release"}]
    /\ of \in [Handlers -> Proposals]
    /\ plan \in [Handlers -> SUBSET Orders]
    /\ \A h \in Handlers : pc[h] \in {"idle", "claim", "plan", "answer"} => plan[h] = {}

\* However many times a proposal is confirmed, one request applies it at a time,
\* and holds its claim: neither a failure nor its release lets two in.
OneApplier ==
    \A g, h \in Handlers :
        Applying(h) => /\ status[of[h]] = "APPLIED"
                       /\ Applying(g) /\ of[g] = of[h] => g = h

\* Confirmed again after an apply that failed halfway or was cut by a restart,
\* a proposal does not put an order that it already routed in a second route.
RoutedOnce ==
    \A o \in Orders :
        (\A p, q \in Proposals : o \in OrdersOf[p] \cap OrdersOf[q] => p = q)
            => trips[o] <= 1

\* A proposal that no restart cut is left APPLIED only when all its orders have
\* been planned: after a failure the claim is given back, and the proposal can
\* be confirmed again.
AppliedMeansDone ==
    \A p \in Proposals \ crashed :
        status[p] = "APPLIED" /\ (\A h \in Handlers : Applying(h) => of[h] # p)
            => Unrouted(p) = {}
=============================================================================
