-------------------------- MODULE MemoryTaskRoutes --------------------------
(***************************************************************************)
(* MemoryStorage's task routes (storage.rs): the map by public ID and the  *)
(* two indexes that must follow it, the idempotency index and the expiry   *)
(* index.  Every operation runs under one RwLock write guard and is one    *)
(* step.  Where the code answers from an index, so does the model: the     *)
(* idempotency lookup trusts by_idempotency and the purge trusts by_expiry *)
(* and never looks at the record it removes.                               *)
(*                                                                         *)
(* The module is shown to implement TaskRouteStore, the behaviour of the   *)
(* SQLite table, with the map by ID as the table.                          *)
(***************************************************************************)
EXTENDS TaskRoute, FiniteSets

CONSTANTS
    Callers, Keys, Bindings, Sessions, Owners, UpstreamIds, Verdicts,
    PublicIds, MaxPurgeRecords, MaxStoredTaskRoutes, MaxActiveTaskRoutesPerCaller

ASSUME OrderedIds == PublicIds \subseteq Nat

ASSUME CapacityBounds ==
    {MaxPurgeRecords, MaxStoredTaskRoutes, MaxActiveTaskRoutesPerCaller} \subseteq Nat

VARIABLES
    by_id,            \* public ID -> record
    by_idempotency,   \* <<caller, key>> -> public ID
    by_expiry         \* {<<expires, public ID>>}

vars == <<by_id, by_idempotency, by_expiry>>

Store == INSTANCE TaskRouteStore WITH routes <- by_id

-----------------------------------------------------------------------------
Scope(rec) == <<rec.caller, rec.key>>

\* The entry the idempotency index holds for the record's scope, if any.
IndexedId(rec) ==
    IF rec.key # None /\ Scope(rec) \in DOMAIN by_idempotency
    THEN {by_idempotency[Scope(rec)]} ELSE {}

\* find_task_route answers through the index.
FindTaskRoute(caller, key) ==
    IF <<caller, key>> \in DOMAIN by_idempotency
    THEN LET id == by_idempotency[<<caller, key>>]
         IN  IF id \in DOMAIN by_id THEN by_id[id] ELSE None
    ELSE None

\* expired_idempotency: the indexed entry that begin_or_existing may replace.
ExpiredIdempotency(rec) ==
    {id \in IndexedId(rec) : IsExpired(by_id[id], rec.created)}

ActiveForCaller(rec) ==
    {id \in DOMAIN by_id :
        by_id[id].caller = rec.caller /\ ~IsExpired(by_id[id], rec.created)}

BeginAccepted(rec) ==
    /\ PreparedForBegin(rec)
    /\ IndexedId(rec) \subseteq DOMAIN by_id
    /\ IndexedId(rec) = ExpiredIdempotency(rec)
    /\ rec.id \in DOMAIN by_id => rec.id \in ExpiredIdempotency(rec)
    /\ Cardinality(DOMAIN by_id) - Cardinality(ExpiredIdempotency(rec))
          < MaxStoredTaskRoutes
    /\ Cardinality(ActiveForCaller(rec)) < MaxActiveTaskRoutesPerCaller

BeginOrExisting(rec) ==
    /\ BeginAccepted(rec)
    /\ LET gone == ExpiredIdempotency(rec)
           kept == DOMAIN by_id \ gone
           scopes == (DOMAIN by_idempotency \ {Scope(rec)})
                        \cup (IF rec.key = None THEN {} ELSE {Scope(rec)})
       IN  /\ by_id' = [id \in kept \cup {rec.id} |->
                           IF id = rec.id THEN rec ELSE by_id[id]]
           /\ by_idempotency' =
                 [s \in scopes |->
                    IF s = Scope(rec) THEN rec.id ELSE by_idempotency[s]]
           /\ by_expiry' =
                 (by_expiry \ {<<by_id[id].expires, id>> : id \in gone})
                    \cup {<<rec.expires, rec.id>>}

CompareAndSet(caller, id, expected, u) ==
    /\ id \in DOMAIN by_id
    /\ by_id[id].caller = caller
    /\ by_id[id].version = expected
    /\ TransitionAllowed(by_id[id], u)
    /\ by_id' = [by_id EXCEPT ![id] = Successor(@, u)]
    /\ UNCHANGED <<by_idempotency, by_expiry>>

\* BTreeSet order on (expiry, public ID).
Before(e, f) == e[1] < f[1] \/ (e[1] = f[1] /\ e[2] < f[2])

ExpiredEntries(now) == {e \in by_expiry : e[1] <= now}

\* Mutant: one entry more than the limit.
TakenOneMore(now, limit) ==
    {e \in ExpiredEntries(now) :
        Cardinality({f \in ExpiredEntries(now) : Before(f, e)}) <= limit}

Taken(now, limit) ==
    {e \in ExpiredEntries(now) :
        Cardinality({f \in ExpiredEntries(now) : Before(f, e)}) < limit}

\* Mutant: the idempotency index keeps its entries.
PurgeKeepsScopes(now, limit) ==
    /\ by_id' = [id \in DOMAIN by_id \ {e[2] : e \in Taken(now, limit)} |-> by_id[id]]
    /\ by_expiry' = by_expiry \ Taken(now, limit)
    /\ UNCHANGED by_idempotency

PurgeExpired(now, limit) ==
    LET gone == {e[2] : e \in Taken(now, limit)}
    IN  /\ by_id' = [id \in DOMAIN by_id \ gone |-> by_id[id]]
        /\ by_idempotency' =
              [s \in DOMAIN by_idempotency \
                        {Scope(by_id[id]) : id \in gone \cap DOMAIN by_id}
                  |-> by_idempotency[s]]
        /\ by_expiry' = by_expiry \ Taken(now, limit)

-----------------------------------------------------------------------------
Init ==
    /\ by_id = [id \in {} |-> None]
    /\ by_idempotency = [s \in {} |-> None]
    /\ by_expiry = {}

Next ==
    \/ \E rec \in Store!PreparedRecords : BeginOrExisting(rec)
    \/ \E caller \in Callers, id \in PublicIds, expected \in Store!Times,
          u \in Store!Updates : CompareAndSet(caller, id, expected, u)
    \/ \E now \in Store!Times, limit \in 0 .. MaxPurgeRecords :
          PurgeExpired(now, limit)

Spec == Init /\ [][Next]_vars

-----------------------------------------------------------------------------
\* The shape of the two indexes; the records are typed by Store!TypeOK.
TypeOK ==
    /\ Store!TypeOK
    /\ DOMAIN by_idempotency \subseteq Callers \X Keys
    /\ by_expiry \subseteq Store!Times \X PublicIds

\* The two indexes hold exactly what the map by ID implies: no route is missing
\* from the expiry index (it would never be purged), none is listed under a
\* wrong expiry, and a scope leads to the one route that carries it, so a purge
\* can never drop another route's idempotency binding.
IndexesAgree ==
    /\ by_expiry = {<<by_id[id].expires, id>> : id \in DOMAIN by_id}
    /\ \A id \in DOMAIN by_id :
          by_id[id].key # None =>
             /\ Scope(by_id[id]) \in DOMAIN by_idempotency
             /\ by_idempotency[Scope(by_id[id])] = id
    /\ \A s \in DOMAIN by_idempotency :
          /\ by_idempotency[s] \in DOMAIN by_id
          /\ by_id[by_idempotency[s]].key # None
          /\ Scope(by_id[by_idempotency[s]]) = s

\* MemoryStorage is a TaskRouteStore: every step of the three collections is a
\* step the SQLite table may take, purge order and capacity included.
RefinesStore == Store!StoreSpec
=============================================================================
