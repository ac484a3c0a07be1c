----------------------------- MODULE MCRuntime -----------------------------
(***************************************************************************)
(* Admission control, the fair queue and the circuit breaker on small      *)
(* instances, in one exploration.  No two of them share state, so beside   *)
(* any one the others only stutter, and what is true of it while they rest *)
(* is true of it whatever they do.  A behaviour is one part's, chosen at   *)
(* the start.                                                              *)
(***************************************************************************)
EXTENDS Admission

CONSTANTS
    Nobody,
    QueueTenants, MaxPerTenant, MaxTenants, MaxCost,
    OpenThreshold, RecoveryThreshold, OpenInterval

VARIABLES
    part,
    queues, total, served, last, barren,
    state, failures, successes, age, tripped, failed, succeeded

Queue == INSTANCE FairQueue WITH Tenants <- QueueTenants, None <- Nobody
Breaker == INSTANCE CircuitBreaker WITH None <- Nobody

ASSUME RuntimeConstants == Queue!FairQueueBounds /\ Breaker!BreakerThresholds

queue == <<queues, total, served, last, barren>>
breaker == <<state, failures, successes, age, tripped, failed, succeeded>>
RuntimeVars == <<part, vars, queue, breaker>>

RuntimeInit ==
    /\ part \in {"admission", "queue", "breaker"}
    /\ Init /\ Queue!Init /\ Breaker!Init

AdmissionSteps == part = "admission" /\ Next /\ UNCHANGED <<part, queue, breaker>>
QueueSteps == part = "queue" /\ Queue!Next /\ UNCHANGED <<part, vars, breaker>>
BreakerSteps == part = "breaker" /\ Breaker!Next /\ UNCHANGED <<part, vars, queue>>

\* The fairness of the parts, for the part that moves.
RuntimeFairness ==
    /\ WF_queue(part = "queue" /\ Queue!Pop)
    /\ WF_breaker(part = "breaker" /\ Breaker!Tick)
    /\ WF_breaker(part = "breaker" /\ Breaker!State)
    /\ WF_breaker(part = "breaker" /\ Breaker!RecordSuccess)

RuntimeSpec ==
    /\ RuntimeInit
    /\ [][AdmissionSteps \/ QueueSteps \/ BreakerSteps]_RuntimeVars
    /\ RuntimeFairness

-----------------------------------------------------------------------------
(* The properties of the instances are stated, and explained, in their     *)
(* modules.                                                                *)

\* FairQueue: no tenant is served far ahead of another that waits.
Fair == Queue!Fair

\* FairQueue: a tenant with queued work is served.
Served == part = "queue" => Queue!Served

\* CircuitBreaker: it opens, is probed and closes only on the evidence it asks for.
Hysteresis == Breaker!Hysteresis

\* CircuitBreaker: an open breaker whose source answers closes again.
Recovers == part = "breaker" => Breaker!Recovers
=============================================================================
