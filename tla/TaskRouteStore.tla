--------------------------- MODULE TaskRouteStore ---------------------------
(***************************************************************************)
(* The durable task-route table: the TaskRouteStorage trait as             *)
(* SqliteStorage implements it (storage.rs), one row per public task ID.   *)
(* Every operation runs in one IMMEDIATE transaction under the connection  *)
(* mutex, so each is a single step here.  Operations that refuse (stale    *)
(* version, unknown or foreign ID, idempotency conflict, collision,        *)
(* capacity, illegal transition) leave the table unchanged.                *)
(*                                                                         *)
(* The operators take the request's inputs as parameters, so that the task *)
(* proxy composes with the same definitions that this module's own         *)
(* specification is checked and proved with.                               *)
(***************************************************************************)
EXTENDS TaskRoute, FiniteSets

CONSTANTS
    Callers, Keys, Bindings, Sessions, Owners, UpstreamIds, Verdicts,
    PublicIds,                    \* every ID PublicTaskId::random can mint
    MaxPurgeRecords,              \* MAX_TASK_ROUTE_PURGE_RECORDS_PER_CALL
    MaxStoredTaskRoutes,          \* MAX_STORED_TASK_ROUTES
    MaxActiveTaskRoutesPerCaller  \* MAX_ACTIVE_TASK_ROUTES_PER_CALLER

ASSUME StoreBounds ==
    /\ MaxPurgeRecords \in Nat
    /\ MaxStoredTaskRoutes \in Nat
    /\ MaxActiveTaskRoutesPerCaller \in Nat

ASSUME NoneIsNoValue ==
    /\ None \notin Keys /\ None \notin Owners
    /\ None \notin UpstreamIds /\ None \notin Verdicts

VARIABLE routes     \* the table: public ID -> record, partial on PublicIds

Record ==
    [id : PublicIds, caller : Callers, key : Keys \cup {None},
     binding : Bindings, session : Sessions,
     upstream : UpstreamIds \cup {None}, owner : Owners \cup {None},
     phase : TaskRoutePhase, created : Nat, expires : Nat,
     version : Nat, cached : Verdicts \cup {None}]

-----------------------------------------------------------------------------
(* Queries.                                                                *)

\* select_task_route_by_idempotency: the rows bound to a caller-scoped key.
\* A row without a key is bound to none.
BoundTo(caller, key) ==
    {id \in DOMAIN routes :
        /\ key # None
        /\ routes[id].caller = caller
        /\ routes[id].key = key}

\* get_task_route: None for an unknown ID and for another caller's route alike.
GetTaskRoute(caller, id) ==
    IF id \in DOMAIN routes /\ routes[id].caller = caller
    THEN routes[id] ELSE None

-----------------------------------------------------------------------------
(* begin_or_existing(rec)                                                  *)

LiveBinding(rec) ==
    {id \in BoundTo(rec.caller, rec.key) : ~IsExpired(routes[id], rec.created)}

\* Mutant: a binding that expires at this very instant is not deleted.
ExpiredBindingLater(rec) ==
    {id \in BoundTo(rec.caller, rec.key) : rec.created > routes[id].expires}

ExpiredBinding(rec) ==
    {id \in BoundTo(rec.caller, rec.key) : IsExpired(routes[id], rec.created)}

ActiveForCaller(rec) ==
    {id \in DOMAIN routes :
        /\ routes[id].caller = rec.caller
        /\ ~IsExpired(routes[id], rec.created)}

\* The rows left once an expired binding of the same key has been deleted.
RemainingRows(rec) == DOMAIN routes \ ExpiredBinding(rec)

AtCapacity(rec) ==
    \/ Cardinality(RemainingRows(rec)) >= MaxStoredTaskRoutes
    \/ Cardinality(ActiveForCaller(rec)) >= MaxActiveTaskRoutesPerCaller

BeginConflicts(rec) ==
    \E id \in LiveBinding(rec) : routes[id].binding # rec.binding

BeginInserts(rec) ==
    /\ PreparedForBegin(rec)
    /\ LiveBinding(rec) = {}
    /\ rec.id \notin RemainingRows(rec)
    /\ ~AtCapacity(rec)

Inserted(rec) ==
    [id \in RemainingRows(rec) \cup {rec.id} |->
        IF id = rec.id THEN rec ELSE routes[id]]

BeginOrExisting(rec) ==
    routes' = IF BeginInserts(rec) THEN Inserted(rec) ELSE routes

-----------------------------------------------------------------------------
(* compare_and_set_task_route(caller, id, expected, update)                *)

CasSucceeds(caller, id, expected, u) ==
    /\ id \in DOMAIN routes
    /\ routes[id].caller = caller
    /\ routes[id].version = expected
    /\ TransitionAllowed(routes[id], u)

CompareAndSet(caller, id, expected, u) ==
    routes' = IF CasSucceeds(caller, id, expected, u)
              THEN [routes EXCEPT ![id] = Successor(@, u)]
              ELSE routes

-----------------------------------------------------------------------------
(* purge_expired_task_routes(now, limit)                                   *)

\* Mutant: finished routes are purged with the expired ones.
ExpiredOrFinishedRows(now) ==
    {id \in DOMAIN routes :
        IsExpired(routes[id], now) \/ routes[id].phase = "terminal"}

ExpiredRows(now) == {id \in DOMAIN routes : IsExpired(routes[id], now)}

\* ORDER BY expires_at LIMIT limit.  Rows of equal expiry are ordered by their
\* random public ID, so either may go first.
OldestExpired(now, limit) ==
    {S \in SUBSET ExpiredRows(now) :
        /\ Cardinality(S) <= limit
        /\ S # ExpiredRows(now) => Cardinality(S) = limit
        /\ \A gone \in S, kept \in ExpiredRows(now) \ S :
              routes[gone].expires <= routes[kept].expires}

Removed(S) == [id \in DOMAIN routes \ S |-> routes[id]]

PurgeExpired(now, limit) ==
    \E S \in OldestExpired(now, limit) : routes' = Removed(S)

-----------------------------------------------------------------------------
StoreInit == routes = [id \in {} |-> None]

Times == 0 .. MaxSqliteInteger

\* Every record TaskRouteRecord::prepare_with_id can build.
PreparedRecords ==
    {Prepare(id, caller, key, binding, session, created, ttl) :
        id \in PublicIds, caller \in Callers, key \in Keys \cup {None},
        binding \in Bindings, session \in Sessions,
        created \in Times, ttl \in Times}

\* Every update a TaskRouteUpdate constructor can build.
Updates ==
    {Dispatching(owner) : owner \in Owners}
        \cup {Routed(upstream) : upstream \in UpstreamIds}
        \cup {Terminal(cached) : cached \in Verdicts}
        \cup {ReconciliationRequired, CancelRequested}
        \cup {CancelRequestedWithUpstream(upstream) : upstream \in UpstreamIds}

\* An arbitrary client of the trait: it may prepare any record, ask for any
\* update with any expected version, and purge at any time with any limit.
StoreNext ==
    \/ \E rec \in PreparedRecords : BeginOrExisting(rec)
    \/ \E caller \in Callers, id \in PublicIds, expected \in Times, u \in Updates :
          CompareAndSet(caller, id, expected, u)
    \/ \E now \in Times, limit \in 0 .. MaxPurgeRecords :
          PurgeExpired(now, limit)

StoreSpec == StoreInit /\ [][StoreNext]_routes

-----------------------------------------------------------------------------
(* What the table promises.                                                *)

\* Every row is a well-formed record filed under its own public ID.
TypeOK ==
    /\ DOMAIN routes \subseteq PublicIds
    /\ \A id \in DOMAIN routes :
          /\ routes[id] \in Record
          /\ routes[id].id = id
          /\ ValidShape(routes[id])

\* A caller-scoped idempotency key is bound to at most one stored route: the
\* expired binding is deleted before its replacement is inserted, so an INSERT
\* never meets the UNIQUE index task_routes_caller_idempotency.
KeyBoundOnce ==
    \A id1, id2 \in DOMAIN routes :
        /\ routes[id1].key # None
        /\ routes[id1].key = routes[id2].key
        /\ routes[id1].caller = routes[id2].caller
        => id1 = id2

\* The table never holds more than MAX_STORED_TASK_ROUTES rows, expired ones
\* included.
StoredBound == Cardinality(DOMAIN routes) <= MaxStoredTaskRoutes

RetainedAt(caller, t) ==
    {id \in DOMAIN routes :
        /\ routes[id].caller = caller
        /\ routes[id].created <= t
        /\ t < routes[id].expires}

\* At no instant t do more than MAX_ACTIVE_TASK_ROUTES_PER_CALLER retention
\* intervals of one caller overlap, although each insertion counts active rows
\* only at its own (possibly stale) creation time.
ActiveBound ==
    \A caller \in Callers, t \in Times :
        Cardinality(RetainedAt(caller, t)) <= MaxActiveTaskRoutesPerCaller

\* What any sequence of compare-and-set calls can do to one route: its identity,
\* retention and session never change, its upstream ID is write-once, a terminal
\* verdict is final, a cancellation intent is never withdrawn, and every change
\* raises the version by one.  A public ID gets a new life only once the old one
\* has expired.
RouteStep(r, s) ==
    \/ s = r
    \/ s.created >= r.expires
    \/ /\ s.version = r.version + 1
       /\ s.expires = r.expires /\ s.created = r.created
       /\ s.caller = r.caller /\ s.key = r.key
       /\ s.binding = r.binding /\ s.session = r.session
       /\ r.upstream # None => s.upstream = r.upstream
       /\ r.phase # "terminal"
       /\ r.phase = "cancel_requested" => s.phase \in {"cancel_requested", "terminal"}
       /\ s.phase # "prepared"

RouteHistory ==
    [][\A id \in DOMAIN routes \cap DOMAIN routes' :
          RouteStep(routes[id], routes'[id])]_routes
=============================================================================
