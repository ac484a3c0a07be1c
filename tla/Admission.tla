------------------------------ MODULE Admission ------------------------------
(***************************************************************************)
(* Admission control of the HTTP data plane (admission.rs): every request  *)
(* takes a permit of its tenant, waiting in a bounded queue if it must,    *)
(* and then a permit of the whole gateway.  Tenants are tracked in a       *)
(* bounded map whose idle entries are evicted to make room.                *)
(*                                                                         *)
(* A step is one critical section of the map's mutex, one atomic operation *)
(* on a semaphore or on a queue counter.  A semaphore is tokio's: permits  *)
(* that are returned go to its waiters first, in order of arrival.  The    *)
(* eviction reads three things of an entry while holding the mutex; once   *)
(* it has seen no other reference nobody can obtain one, so reading them   *)
(* at one instant loses nothing.                                           *)
(***************************************************************************)
EXTENDS Integers, Sequences, FiniteSets, SequencesExt

CONSTANTS
    Requests,           \* request slots
    Tenants,
    MaxTrackedTenants,  \* MAX_TRACKED_TENANTS
    MaxGlobalInflight,  \* MAX_GLOBAL_INFLIGHT
    MaxConcurrent,      \* max_concurrent_per_tenant
    MaxQueue            \* max_queue_per_tenant

ASSUME AdmissionBounds ==
    /\ IsFiniteSet(Requests)
    /\ {MaxTrackedTenants, MaxGlobalInflight, MaxConcurrent, MaxQueue} \subseteq Nat

VARIABLES
    tenants,    \* the tracked tenants, each with its TenantAdmission
    adm,        \* adm[a]: free permits, waiters and queue counter of a
    global,     \* free permits of the gateway
    req         \* req[r]: where a request is, its tenant and its TenantAdmission

vars == <<tenants, adm, global, req>>

\* As many TenantAdmission values as can be referenced at once.
Admissions == 1 .. MaxTrackedTenants + Cardinality(Requests)

None == 0
Fresh == [free |-> MaxConcurrent, waiters |-> << >>, queued |-> 0]
Outside == [pc |-> "outside", tenant |-> None, adm |-> None]

Goto(r, place) == req' = [req EXCEPT ![r].pc = place]

\* Requests at one of some places, with TenantAdmission a.
At(a, places) == {r \in Requests : req[r].adm = a /\ req[r].pc \in places}

\* Places at which `acquire' still holds its Arc<TenantAdmission>, its permit, and
\* its queue reservation.
Acquiring == {"found", "full", "reserved", "waiting", "granted", "tenant"}
Permitted == {"granted", "tenant", "running"}
Queued    == {"reserved", "waiting", "granted"}

-----------------------------------------------------------------------------
(* acquire                                                                 *)

\* Mutant: an entry nobody is acquiring from is idle, whatever still runs.
BusyIfAcquiring(a) == At(a, Acquiring) # {} \/ adm[a].queued > 0

\* What `retain' keeps: strong_count > 1, a queue, or permits handed out.
Busy(a) ==
    \/ At(a, Acquiring) # {}
    \/ adm[a].queued > 0
    \/ adm[a].free # MaxConcurrent

Full(T, t) == Cardinality(T) >= MaxTrackedTenants /\ t \notin T

\* Mutant: a full map is not cleaned first.
KeptAll(t) == DOMAIN tenants

Kept(t) ==
    IF Full(DOMAIN tenants, t)
    THEN {u \in DOMAIN tenants : Busy(tenants[u])} ELSE DOMAIN tenants

Unreferenced == {a \in Admissions :
    /\ \A t \in DOMAIN tenants : tenants[t] # a
    /\ \A r \in Requests : req[r].adm # a}

\* Under the mutex: evict idle tenants if the map is full, then find or insert.
Find(r, t) ==
    /\ req[r].pc = "outside"
    /\ LET kept == Kept(t) IN
       IF Full(kept, t)
       THEN /\ tenants' = [u \in kept |-> tenants[u]]
            /\ req' = [req EXCEPT ![r] = [Outside EXCEPT !.pc = "overloaded"]]
            /\ UNCHANGED adm
       ELSE LET a == IF t \in kept THEN tenants[t]
                     ELSE CHOOSE b \in Unreferenced : TRUE
            IN  /\ tenants' = [u \in kept \cup {t} |-> IF u = t THEN a ELSE tenants[u]]
                /\ adm' = IF t \in kept THEN adm ELSE [adm EXCEPT ![a] = Fresh]
                /\ req' = [req EXCEPT ![r] = [pc |-> "found", tenant |-> t, adm |-> a]]
    /\ UNCHANGED global

\* try_acquire_owned on the tenant's semaphore.
TryTenant(r) ==
    LET a == req[r].adm IN
    /\ req[r].pc = "found"
    /\ IF adm[a].free > 0
       THEN Goto(r, "tenant") /\ adm' = [adm EXCEPT ![a].free = @ - 1]
       ELSE Goto(r, "full") /\ UNCHANGED adm
    /\ UNCHANGED <<tenants, global>>

\* fetch_update of the queue counter.
Reserve(r) ==
    LET a == req[r].adm IN
    /\ req[r].pc = "full"
    /\ IF adm[a].queued < MaxQueue
       THEN Goto(r, "reserved") /\ adm' = [adm EXCEPT ![a].queued = @ + 1]
       ELSE req' = [req EXCEPT ![r] = [Outside EXCEPT !.pc = "overloaded"]] /\ UNCHANGED adm
    /\ UNCHANGED <<tenants, global>>

\* The first poll of acquire_owned: a permit at once, or a place in line.
Enqueue(r) ==
    LET a == req[r].adm IN
    /\ req[r].pc = "reserved"
    /\ IF adm[a].free > 0
       THEN Goto(r, "granted") /\ adm' = [adm EXCEPT ![a].free = @ - 1]
       ELSE Goto(r, "waiting") /\ adm' = [adm EXCEPT ![a].waiters = Append(@, r)]
    /\ UNCHANGED <<tenants, global>>

\* The reservation is dropped once the request runs again with its permit.
Wake(r) ==
    /\ req[r].pc = "granted"
    /\ Goto(r, "tenant")
    /\ adm' = [adm EXCEPT ![req[r].adm].queued = @ - 1]
    /\ UNCHANGED <<tenants, global>>

\* The wait timed out, or the client went away.
Abandon(r) ==
    LET a == req[r].adm IN
    /\ req[r].pc = "waiting"
    /\ req' = [req EXCEPT ![r] = [Outside EXCEPT !.pc = "overloaded"]]
    /\ adm' = [adm EXCEPT ![a].waiters = RemoveAt(@, CHOOSE i \in DOMAIN @ : @[i] = r),
                           ![a].queued = @ - 1]
    /\ UNCHANGED <<tenants, global>>

\* external: a returned permit goes to the first waiter.  `next' is what becomes of
\* the request that returns it, `left' how many reservations it drops.
ReturnPermit(r, next, left) ==
    LET a == req[r].adm IN
    IF adm[a].waiters = << >>
    THEN /\ adm' = [adm EXCEPT ![a].free = @ + 1, ![a].queued = @ - left]
         /\ req' = [req EXCEPT ![r] = next]
    ELSE /\ adm' = [adm EXCEPT ![a].waiters = Tail(@), ![a].queued = @ - left]
         /\ req' = [req EXCEPT ![r] = next, ![Head(adm[a].waiters)].pc = "granted"]

\* The client went away after the permit was assigned and before the request ran.
AbandonGranted(r) ==
    /\ req[r].pc = "granted"
    /\ ReturnPermit(r, Outside, 1)
    /\ UNCHANGED <<tenants, global>>

\* Mutant: the tenant's permit is kept when the gateway is full.
TryGlobalLeaks(r) ==
    /\ req[r].pc = "tenant"
    /\ IF global > 0
       THEN Goto(r, "running") /\ global' = global - 1
       ELSE req' = [req EXCEPT ![r] = [Outside EXCEPT !.pc = "overloaded"]] /\ UNCHANGED global
    /\ UNCHANGED <<tenants, adm>>

\* try_acquire_owned on the gateway's semaphore.
TryGlobal(r) ==
    /\ req[r].pc = "tenant"
    /\ IF global > 0
       THEN Goto(r, "running") /\ global' = global - 1 /\ UNCHANGED adm
       ELSE /\ ReturnPermit(r, [Outside EXCEPT !.pc = "overloaded"], 0)
            /\ UNCHANGED global
    /\ UNCHANGED tenants

-----------------------------------------------------------------------------
(* limit_requests                                                          *)

\* The request ended or was dropped: AdmissionPermit drops its fields in order.
Finish(r) ==
    /\ req[r].pc = "running"
    /\ ReturnPermit(r, [Outside EXCEPT !.pc = "leaving"], 0)
    /\ UNCHANGED <<tenants, global>>

Leave(r) ==
    /\ req[r].pc = "leaving"
    /\ req' = [req EXCEPT ![r] = Outside]
    /\ global' = global + 1
    /\ UNCHANGED <<tenants, adm>>

\* The 503 response.
Refuse(r) ==
    /\ req[r].pc = "overloaded"
    /\ req' = [req EXCEPT ![r] = Outside]
    /\ UNCHANGED <<tenants, adm, global>>

-----------------------------------------------------------------------------
Init ==
    /\ tenants = [t \in {} |-> None]
    /\ adm = [a \in Admissions |-> Fresh]
    /\ global = MaxGlobalInflight
    /\ req = [r \in Requests |-> Outside]

Step(r) ==
    \/ TryTenant(r) \/ Reserve(r) \/ Enqueue(r) \/ Wake(r) \/ Abandon(r)
    \/ AbandonGranted(r) \/ TryGlobal(r) \/ Finish(r) \/ Leave(r) \/ Refuse(r)

Next == \E r \in Requests : Step(r) \/ \E t \in Tenants : Find(r, t)

Spec == Init /\ [][Next]_vars

-----------------------------------------------------------------------------
OfTenant(t, places) == {r \in Requests : req[r].tenant = t /\ req[r].pc \in places}

\* No tenant has more than max_concurrent_per_tenant requests between its own
\* permit and its end, although its entry may be evicted and made anew, with a new
\* semaphore, at any time between two requests.
TenantConcurrency ==
    \A t \in Tenants : Cardinality(OfTenant(t, Permitted)) <= MaxConcurrent

\* Nor more than max_queue_per_tenant waiting, across evictions.
QueueBounded == \A t \in Tenants : Cardinality(OfTenant(t, Queued)) <= MaxQueue

\* Both limits of a tenant outlive its entry.
TenantLimits == TenantConcurrency /\ QueueBounded

\* Timeouts, disconnects and refusals lose no permit and no reservation: what is
\* free and what is handed out add up, for every tenant tracked and for the gateway.
PermitsConserved ==
    /\ \A t \in DOMAIN tenants :
          LET a == tenants[t] IN
          /\ adm[a].free + Cardinality(At(a, Permitted)) = MaxConcurrent
          /\ adm[a].queued = Cardinality(At(a, Queued))
          /\ ToSet(adm[a].waiters) = At(a, {"waiting"})
    /\ global + Cardinality({r \in Requests : req[r].pc \in {"running", "leaving"}})
          = MaxGlobalInflight

\* A new tenant is refused for cardinality only while every tracked tenant has a
\* request in progress: abandoned tenants cannot fill the map for good.
RefusalJustified ==
    [][\A r \in Requests :
          req[r].pc = "outside" /\ req'[r].pc = "overloaded" =>
              \A t \in DOMAIN tenants :
                  OfTenant(t, Acquiring \cup {"running"}) # {}]_vars
=============================================================================
