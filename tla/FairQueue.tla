------------------------------ MODULE FairQueue ------------------------------
(***************************************************************************)
(* The deficit round robin of the core (runtime.rs, DeficitRoundRobin): a  *)
(* bounded queue per tenant, served in turn.  A visit of `pop' gives a     *)
(* tenant one unit of deficit and serves its first item once the deficit   *)
(* pays for the item's cost.  Items are told apart by their cost alone.    *)
(*                                                                         *)
(* The loop of `pop' is one step: it rotates the tenants in front of the   *)
(* first one that can pay, which is served.  `served', `last' and `barren' *)
(* are history, for the properties.                                        *)
(***************************************************************************)
EXTENDS Integers, Sequences, FiniteSets, SequencesExt, FiniteSetsExt

CONSTANTS
    Tenants,        \* tenant names, none empty
    MaxPerTenant,   \* max_per_tenant
    MaxTenants,     \* max_tenants
    MaxCost,        \* the largest cost `push' accepts (10_000)
    None

FairQueueBounds ==
    /\ {MaxPerTenant, MaxTenants, MaxCost} \subseteq Nat \ {0}
    /\ None \notin Tenants

VARIABLES
    queues,     \* `tenants': the queues in the order in which they are visited
    total,      \* total_items
    served,     \* history: cost served to each tenant since the set of tenants changed
    last,       \* history: the tenant that the last `pop' served
    barren      \* history: how often in a row `pop' found items and returned None

vars == <<queues, total, served, last, barren>>

Present(qs) == {qs[i].tenant : i \in DOMAIN qs}
Cost(queue) == Head(queue.items)

\* Bound: the histories stop counting where the properties would fail.
Capped(n, bound) == IF n > bound THEN bound ELSE n

\* Only differences between tenants matter, and only while the tenants stay.
Relative(cost, before, after) ==
    IF after = {} \/ after # before THEN [t \in Tenants |-> 0]
    ELSE LET least == Min({cost[t] : t \in after}) IN
         [t \in Tenants |-> IF t \in after THEN Capped(cost[t] - least, 2 * MaxCost) ELSE 0]

-----------------------------------------------------------------------------
Accepts(tenant, cost) ==
    /\ cost <= MaxCost
    /\ tenant \in Present(queues) \/ Len(queues) < MaxTenants
    /\ \A i \in DOMAIN queues :
          queues[i].tenant = tenant => Len(queues[i].items) < MaxPerTenant

Charged(cost) == IF cost = 0 THEN 1 ELSE cost

Pushed(tenant, cost) ==
    IF tenant \in Present(queues)
    THEN [i \in DOMAIN queues |->
            IF queues[i].tenant = tenant
            THEN [queues[i] EXCEPT !.items = Append(@, cost)] ELSE queues[i]]
    ELSE Append(queues, [tenant |-> tenant, deficit |-> 0, items |-> <<cost>>])

Push(tenant, cost) ==
    /\ Accepts(tenant, cost)
    /\ queues' = Pushed(tenant, Charged(cost))
    /\ total' = total + 1
    /\ served' = Relative(served, Present(queues), Present(queues'))
    /\ UNCHANGED <<last, barren>>

-----------------------------------------------------------------------------
\* One visit: the quantum is 1.
Visited(queue) == [queue EXCEPT !.deficit = @ + 1]

CanPay(queue) == Cost(queue) <= queue.deficit + 1

Paid(queue) == [Visited(queue) EXCEPT !.items = Tail(@), !.deficit = @ - Cost(queue)]

\* Mutant: the tenant that was served stays in front.
RotatedBehind(passed, queue, rest) ==
    (IF queue.items = << >> THEN << >> ELSE <<queue>>) \o rest \o passed

\* The queues after the visit that served one: those passed over have gone to the
\* back, and the one that was served follows them unless it is empty.
Rotated(passed, queue, rest) ==
    rest \o passed \o (IF queue.items = << >> THEN << >> ELSE <<queue>>)

PopSome ==
    \E i \in DOMAIN queues :
        LET queue == queues[i]
            passed == [j \in 1 .. i - 1 |-> Visited(queues[j])]
        IN  /\ CanPay(queue)
            /\ \A j \in 1 .. i - 1 : ~CanPay(queues[j])
            /\ queues' = Rotated(passed, Paid(queue), SubSeq(queues, i + 1, Len(queues)))
            /\ total' = total - 1
            /\ served' = Relative([served EXCEPT ![queue.tenant] = @ + Cost(queue)],
                                  Present(queues), Present(queues'))
            /\ last' = queue.tenant
            /\ barren' = 0

\* Nobody can pay: every queue was visited once and is in its place again.
PopNone ==
    /\ queues # << >>
    /\ \A i \in DOMAIN queues : ~CanPay(queues[i])
    /\ queues' = [i \in DOMAIN queues |-> Visited(queues[i])]
    /\ barren' = Capped(barren + 1, MaxCost)
    /\ last' = None
    /\ UNCHANGED <<total, served>>

Pop == PopSome \/ PopNone

-----------------------------------------------------------------------------
Init ==
    /\ queues = << >>
    /\ total = 0
    /\ served = [t \in Tenants |-> 0]
    /\ last = None
    /\ barren = 0

Next == Pop \/ \E tenant \in Tenants, cost \in 0 .. MaxCost + 1 : Push(tenant, cost)

Spec == Init /\ [][Next]_vars

\* The consumer keeps popping.
Fairness == WF_vars(Pop)

LiveSpec == Spec /\ Fairness

-----------------------------------------------------------------------------
\* A tenant never saves up: its deficit does not pay for its first item yet, so one
\* visit buys at most one item and no burst follows a long wait.
NoSavings == \A i \in DOMAIN queues : queues[i].deficit < Cost(queues[i])

\* Whatever the costs, tenants that have work all along are served the same, up to
\* one unit and the deficits they may hold at the two ends of the interval.
Even == \A t, u \in Present(queues) : served[t] - served[u] <= 2 * MaxCost - 1

\* With items in the queue `pop' returns None fewer than MaxCost times in a row.
Progresses == barren < MaxCost

\* The round robin is fair by cost, without bursts, and at the price of few empty calls.
Fair == Even /\ NoSavings /\ Progresses

\* Every tenant with work is served in the end, however much the others push.
Served == \A t \in Tenants : (t \in Present(queues)) ~> (last = t)
=============================================================================
