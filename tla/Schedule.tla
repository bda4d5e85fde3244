------------------------------ MODULE Schedule ------------------------------
(***************************************************************************)
(* planSchedule of packages/optimizer/src/schedule.ts: how many drivers go *)
(* out with each wave of the day.  A pure function, checked over every     *)
(* question within bounds.                                                 *)
(***************************************************************************)
EXTENDS Integers, FiniteSets, FiniteSetsExt

CONSTANTS
    Shares,       \* the share of the day's orders of each wave, in percent
    MaxOrders, MaxDrivers, PerDriver

ScheduleAssumption ==
    /\ MaxOrders \in Nat /\ MaxDrivers \in Nat
    /\ PerDriver \subseteq Nat \ {0}

VARIABLE shift   \* the question: the day's orders, the drivers, and what one can take

Waves == DOMAIN Shares
Shifts == [orders : 0..MaxOrders, drivers : 0..MaxDrivers, perDriver : PerDriver]
Total(f) == MapThenSumSet(LAMBDA w : f[w], Waves)

CeilDiv(m, n) == (m + n - 1) \div n
RoundDiv(m, n) == (2 * m + n) \div (2 * n)

Demand(q) == [w \in Waves |-> RoundDiv(q.orders * Shares[w], 100)]
Need(q) == [w \in Waves |-> CeilDiv(Demand(q)[w], q.perDriver)]

\* The waves by demand; the first of the list first when they have the same.
Ahead(q, w, u) ==
    \/ Demand(q)[w] > Demand(q)[u]
    \/ Demand(q)[w] = Demand(q)[u] /\ w < u
Rank(q, w) == Cardinality({u \in Waves : Ahead(q, u, w)})

ProportionRoundedUp(q) ==
    [w \in Waves |-> CeilDiv(q.drivers * Need(q)[w], Total(Need(q)))]

Proportion(q) == [w \in Waves |-> (q.drivers * Need(q)[w]) \div Total(Need(q))]

\* What the proportion leaves over goes one by one, from the wave with most demand.
Shared(q) ==
    LET left == q.drivers - Total(Proportion(q)) IN
      [w \in Waves |->
          Proportion(q)[w]
            + Cardinality({k \in 0..(left - 1) : k % Cardinality(Waves) = Rank(q, w)})]

Assigned(q) ==
    IF Total(Need(q)) <= q.drivers THEN Need(q)
    ELSE IF q.drivers = 0 THEN [w \in Waves |-> 0]
    ELSE Shared(q)

Overloaded(q, w) == Assigned(q)[w] * q.perDriver < Demand(q)[w]

-----------------------------------------------------------------------------
\* No driver is sent in vain: a wave gets no more than it needs, nobody stays idle
\* while a wave is overloaded, nobody is sent twice, and no order is counted in two
\* waves or in none.
NobodyInVain(q) ==
    /\ Total(Demand(q)) = q.orders
    /\ \A w \in Waves : Assigned(q)[w] <= Need(q)[w]
    /\ Total(Assigned(q)) <= q.drivers
    /\ (\E w \in Waves : Overloaded(q, w)) => Total(Assigned(q)) = q.drivers
=============================================================================
