-------------------------- MODULE TaskProxyProofs ---------------------------
(***************************************************************************)
(* Proofs about the task-route table for every set of callers, keys and    *)
(* IDs and every capacity: what it stores is well formed, a key is bound   *)
(* at most once, both capacities hold, and no sequence of calls rewrites a *)
(* route's history.                                                        *)
(*                                                                         *)
(* Then about the task proxy for every number of instances, handlers,      *)
(* submissions, snapshots and attempts: it is type correct, and whatever   *)
(* its handlers, crashes and messages do, the table it shares sees nothing *)
(* but steps of TaskRouteStore, so every theorem about the table holds of  *)
(* the proxy.                                                              *)
(***************************************************************************)
EXTENDS TaskProxy, FiniteSetTheorems, SequenceTheorems, TLAPS

-----------------------------------------------------------------------------
(* The records and updates a client can offer.                             *)

\* Every prepared record is a Record in phase "prepared" at version 0.
LEMMA PreparedIsRecord ==
    ASSUME NEW rec \in PreparedRecords
    PROVE  /\ rec \in Record
           /\ rec.phase = "prepared" /\ rec.version = 0
           /\ rec.upstream = None /\ rec.owner = None /\ rec.cached = None
  <1>1. PICK id \in PublicIds, caller \in Callers, key \in Keys \cup {None},
             binding \in Bindings, sess \in Sessions,
             created \in Times, ttl \in Times :
               rec = Prepare(id, caller, key, binding, sess, created, ttl)
    BY DEF PreparedRecords
  <1>2. created \in Nat /\ created + ttl \in Nat
    BY IntegerBound DEF Times
  <1> QED
    BY <1>1, <1>2 DEF Prepare, Record, TaskRoutePhase

\* Every update has typed fields.
LEMMA UpdateType ==
    ASSUME NEW u \in Updates
    PROVE  /\ u.phase \in TaskRoutePhase \ {"prepared"}
           /\ u.upstream \in UpstreamIds \cup {None}
           /\ u.owner \in Owners \cup {None}
           /\ u.cached \in Verdicts \cup {None}
  BY DEF Updates, Update, Dispatching, Routed, Terminal, ReconciliationRequired,
         CancelRequested, CancelRequestedWithUpstream, TaskRoutePhase

\* A transition yields a Record that keeps everything an update cannot touch.
LEMMA SuccessorType ==
    ASSUME NEW r \in Record, NEW u \in Updates
    PROVE  /\ Successor(r, u) \in Record
           /\ Successor(r, u).id = r.id
           /\ Successor(r, u).caller = r.caller
           /\ Successor(r, u).key = r.key
           /\ Successor(r, u).binding = r.binding
           /\ Successor(r, u).session = r.session
           /\ Successor(r, u).created = r.created
           /\ Successor(r, u).expires = r.expires
           /\ Successor(r, u).version = r.version + 1
           /\ Successor(r, u).phase = u.phase
           /\ r.upstream # None => Successor(r, u).upstream = r.upstream
  <1>1. /\ u.phase \in TaskRoutePhase
        /\ u.upstream \in UpstreamIds \cup {None}
        /\ u.owner \in Owners \cup {None}
        /\ u.cached \in Verdicts \cup {None}
    BY UpdateType
  <1> DEFINE up == IF r.upstream # None THEN r.upstream ELSE u.upstream
         s == [r EXCEPT !.upstream = up, !.owner = u.owner, !.phase = u.phase,
                        !.version = r.version + 1, !.cached = u.cached]
  <1>3. up \in UpstreamIds \cup {None} /\ r.version + 1 \in Nat
    BY <1>1 DEF Record
  <1>4. Successor(r, u) = s
    BY DEF Successor
  <1>5. s \in Record
    <2> HIDE DEF up
    <2> QED BY <1>1, <1>3 DEF Record
  <1>6. /\ s.id = r.id /\ s.caller = r.caller /\ s.key = r.key
        /\ s.binding = r.binding /\ s.session = r.session
        /\ s.created = r.created /\ s.expires = r.expires
        /\ s.version = r.version + 1 /\ s.phase = u.phase /\ s.upstream = up
    <2> HIDE DEF up
    <2> QED BY DEF Record
  <1> QED
    BY <1>4, <1>5, <1>6

-----------------------------------------------------------------------------
(* What the three operations do to the table.                              *)

\* A begin leaves the table alone or removes the expired binding of the key and
\* files the new record under its own ID.
LEMMA BeginEffect ==
    ASSUME NEW rec \in PreparedRecords, BeginOrExisting(rec)
    PROVE  \/ routes' = routes
           \/ /\ BeginInserts(rec)
              /\ DOMAIN routes' = RemainingRows(rec) \cup {rec.id}
              /\ routes'[rec.id] = rec
              /\ \A id \in RemainingRows(rec) : routes'[id] = routes[id]
  BY DEF BeginOrExisting, Inserted, BeginInserts

\* A compare-and-set leaves the table alone or replaces one row by its successor.
LEMMA CasEffect ==
    ASSUME NEW caller, NEW id, NEW expected, NEW u,
           TypeOK, CompareAndSet(caller, id, expected, u)
    PROVE  \/ routes' = routes
           \/ /\ CasSucceeds(caller, id, expected, u)
              /\ DOMAIN routes' = DOMAIN routes
              /\ routes'[id] = Successor(routes[id], u)
              /\ \A other \in DOMAIN routes : other # id => routes'[other] = routes[other]
  BY DEF CompareAndSet, CasSucceeds

\* A purge only removes rows.
LEMMA PurgeEffect ==
    ASSUME NEW t \in Times, NEW limit \in Nat, PurgeExpired(t, limit)
    PROVE  /\ DOMAIN routes' \subseteq DOMAIN routes
           /\ \A id \in DOMAIN routes' : routes'[id] = routes[id]
  BY DEF PurgeExpired, Removed

-----------------------------------------------------------------------------
(* Type correctness.                                                       *)

LEMMA BeginKeepsType ==
    ASSUME TypeOK, NEW rec \in PreparedRecords, BeginOrExisting(rec)
    PROVE  TypeOK'
  <1>1. CASE routes' = routes
    BY <1>1 DEF TypeOK
  <1>2. CASE /\ BeginInserts(rec)
             /\ DOMAIN routes' = RemainingRows(rec) \cup {rec.id}
             /\ routes'[rec.id] = rec
             /\ \A id \in RemainingRows(rec) : routes'[id] = routes[id]
    <2>1. rec \in Record /\ rec.id \in PublicIds
      BY PreparedIsRecord DEF Record
    <2>2. ValidShape(rec)
      BY <1>2 DEF BeginInserts, PreparedForBegin
    <2>3. RemainingRows(rec) \subseteq DOMAIN routes
      BY DEF RemainingRows
    <2> QED
      BY <1>2, <2>1, <2>2, <2>3 DEF TypeOK
  <1> QED
    BY <1>1, <1>2, BeginEffect

LEMMA CasKeepsType ==
    ASSUME TypeOK, NEW caller, NEW id, NEW expected, NEW u \in Updates,
           CompareAndSet(caller, id, expected, u)
    PROVE  TypeOK'
  <1>1. CASE routes' = routes
    BY <1>1 DEF TypeOK
  <1>2. CASE /\ CasSucceeds(caller, id, expected, u)
             /\ DOMAIN routes' = DOMAIN routes
             /\ routes'[id] = Successor(routes[id], u)
             /\ \A other \in DOMAIN routes : other # id => routes'[other] = routes[other]
    <2>1. id \in DOMAIN routes /\ ValidShape(Successor(routes[id], u))
      BY <1>2 DEF CasSucceeds, TransitionAllowed
    <2>2. routes[id] \in Record /\ routes[id].id = id
      BY <2>1 DEF TypeOK
    <2>3. Successor(routes[id], u) \in Record /\ Successor(routes[id], u).id = id
      BY <2>2, SuccessorType
    <2> QED
      BY <1>2, <2>1, <2>3 DEF TypeOK
  <1> QED
    BY <1>1, <1>2, CasEffect

\* Every step of an arbitrary client keeps the table well formed.
LEMMA StepKeepsType ==
    ASSUME TypeOK, [StoreNext]_routes
    PROVE  TypeOK'
  <1>1. CASE UNCHANGED routes
    BY <1>1 DEF TypeOK
  <1>2. ASSUME NEW rec \in PreparedRecords, BeginOrExisting(rec) PROVE TypeOK'
    BY <1>2, BeginKeepsType
  <1>3. ASSUME NEW caller \in Callers, NEW id \in PublicIds, NEW expected \in Times,
               NEW u \in Updates, CompareAndSet(caller, id, expected, u)
        PROVE  TypeOK'
    BY <1>3, CasKeepsType
  <1>4. ASSUME NEW t \in Times, NEW limit \in 0 .. MaxPurgeRecords,
               PurgeExpired(t, limit)
        PROVE  TypeOK'
    <2>1. limit \in Nat
      BY StoreBounds
    <2> QED
      BY <1>4, <2>1, PurgeEffect DEF TypeOK
  <1> QED
    BY <1>1, <1>2, <1>3, <1>4 DEF StoreNext

\* TaskRouteStore's type invariant: whatever a client asks for, every row is a
\* well-formed record filed under its own public ID (storage.rs, task.rs).
THEOREM TypeCorrect == StoreSpec => []TypeOK
  <1>1. StoreInit => TypeOK
    BY DEF StoreInit, TypeOK
  <1> QED
    BY <1>1, StepKeepsType, PTL DEF StoreSpec

-----------------------------------------------------------------------------
(* One step of the table, as the invariants below see it.                  *)

\* Every step leaves the table alone, inserts a record, replaces one row by its
\* successor, or removes rows.
LEMMA StepEffect ==
    ASSUME TypeOK, [StoreNext]_routes
    PROVE  \/ routes' = routes
           \/ \E rec \in PreparedRecords :
                /\ BeginInserts(rec)
                /\ DOMAIN routes' = RemainingRows(rec) \cup {rec.id}
                /\ routes'[rec.id] = rec
                /\ \A id \in RemainingRows(rec) : routes'[id] = routes[id]
           \/ \E id \in DOMAIN routes, u \in Updates :
                /\ TransitionAllowed(routes[id], u)
                /\ DOMAIN routes' = DOMAIN routes
                /\ routes'[id] = Successor(routes[id], u)
                /\ \A other \in DOMAIN routes :
                      other # id => routes'[other] = routes[other]
           \/ /\ DOMAIN routes' \subseteq DOMAIN routes
              /\ \A id \in DOMAIN routes' : routes'[id] = routes[id]
  <1>1. CASE UNCHANGED routes
    BY <1>1
  <1>2. ASSUME NEW rec \in PreparedRecords, BeginOrExisting(rec)
        PROVE  \/ routes' = routes
               \/ /\ BeginInserts(rec)
                  /\ DOMAIN routes' = RemainingRows(rec) \cup {rec.id}
                  /\ routes'[rec.id] = rec
                  /\ \A id \in RemainingRows(rec) : routes'[id] = routes[id]
    BY <1>2, BeginEffect
  <1>3. ASSUME NEW caller \in Callers, NEW id \in PublicIds, NEW expected \in Times,
               NEW u \in Updates, CompareAndSet(caller, id, expected, u)
        PROVE  \/ routes' = routes
               \/ /\ id \in DOMAIN routes
                  /\ TransitionAllowed(routes[id], u)
                  /\ DOMAIN routes' = DOMAIN routes
                  /\ routes'[id] = Successor(routes[id], u)
                  /\ \A other \in DOMAIN routes :
                        other # id => routes'[other] = routes[other]
    BY <1>3, CasEffect DEF CasSucceeds
  <1>4. ASSUME NEW t \in Times, NEW limit \in 0 .. MaxPurgeRecords,
               PurgeExpired(t, limit)
        PROVE  /\ DOMAIN routes' \subseteq DOMAIN routes
               /\ \A id \in DOMAIN routes' : routes'[id] = routes[id]
    <2>1. limit \in Nat
      BY StoreBounds
    <2> QED
      BY <1>4, <2>1, PurgeEffect
  <1>5. CASE StoreNext
    <2>1. CASE \E rec \in PreparedRecords : BeginOrExisting(rec)
      BY <2>1, <1>2
    <2>2. CASE \E caller \in Callers, id \in PublicIds, expected \in Times,
                  u \in Updates : CompareAndSet(caller, id, expected, u)
      BY <2>2, <1>3
    <2>3. CASE \E t \in Times, limit \in 0 .. MaxPurgeRecords :
                  PurgeExpired(t, limit)
      BY <2>3, <1>4
    <2> QED
      BY <1>5, <2>1, <2>2, <2>3 DEF StoreNext
  <1> QED
    BY <1>1, <1>5

\* A compare-and-set keeps what identifies and bounds a route.
LEMMA CasKeepsIdentity ==
    ASSUME TypeOK, NEW id \in DOMAIN routes, NEW u \in Updates,
           DOMAIN routes' = DOMAIN routes,
           routes'[id] = Successor(routes[id], u),
           \A other \in DOMAIN routes : other # id => routes'[other] = routes[other]
    PROVE  \A any \in DOMAIN routes :
              /\ routes'[any].caller = routes[any].caller
              /\ routes'[any].key = routes[any].key
              /\ routes'[any].binding = routes[any].binding
              /\ routes'[any].session = routes[any].session
              /\ routes'[any].created = routes[any].created
              /\ routes'[any].expires = routes[any].expires
  <1>1. routes[id] \in Record
    BY DEF TypeOK
  <1> QED
    BY <1>1, SuccessorType

-----------------------------------------------------------------------------
(* Idempotency.                                                            *)

\* The UNIQUE index task_routes_caller_idempotency (storage.rs) is never
\* violated: expiry and the deletion of the replaced row use the same instant.
THEOREM KeysBoundOnce == StoreSpec => []KeyBoundOnce
  <1>1. StoreInit => KeyBoundOnce
    BY DEF StoreInit, KeyBoundOnce
  <1>2. TypeOK /\ KeyBoundOnce /\ [StoreNext]_routes => KeyBoundOnce'
    <2> SUFFICES ASSUME TypeOK, KeyBoundOnce, [StoreNext]_routes,
                        NEW id1 \in DOMAIN routes', NEW id2 \in DOMAIN routes',
                        routes'[id1].key # None,
                        routes'[id1].key = routes'[id2].key,
                        routes'[id1].caller = routes'[id2].caller
                 PROVE  id1 = id2
      BY DEF KeyBoundOnce
    <2>1. CASE routes' = routes
      BY <2>1 DEF KeyBoundOnce
    <2>2. ASSUME NEW rec \in PreparedRecords,
                 BeginInserts(rec),
                 DOMAIN routes' = RemainingRows(rec) \cup {rec.id},
                 routes'[rec.id] = rec,
                 \A id \in RemainingRows(rec) : routes'[id] = routes[id]
          PROVE  id1 = id2
      \* A remaining row of the same scope would be a live binding.
      <3>1. ASSUME NEW id \in RemainingRows(rec), rec.key # None,
                   routes[id].key = rec.key, routes[id].caller = rec.caller
            PROVE  FALSE
        <4>1. id \in BoundTo(rec.caller, rec.key)
          BY <3>1 DEF BoundTo, RemainingRows
        <4>2. id \in LiveBinding(rec)
          BY <4>1, <3>1 DEF LiveBinding, ExpiredBinding, RemainingRows
        <4> QED
          BY <4>2, <2>2 DEF BeginInserts
      <3>2. CASE id1 = rec.id \/ id2 = rec.id
        BY <2>2, <3>1, <3>2
      <3>3. CASE id1 # rec.id /\ id2 # rec.id
        BY <2>2, <3>3 DEF RemainingRows, KeyBoundOnce
      <3> QED
        BY <3>2, <3>3
    <2>3. ASSUME NEW id \in DOMAIN routes, NEW u \in Updates,
                 DOMAIN routes' = DOMAIN routes,
                 routes'[id] = Successor(routes[id], u),
                 \A other \in DOMAIN routes :
                    other # id => routes'[other] = routes[other]
          PROVE  id1 = id2
      BY <2>3, CasKeepsIdentity DEF KeyBoundOnce
    <2>4. CASE /\ DOMAIN routes' \subseteq DOMAIN routes
               /\ \A id \in DOMAIN routes' : routes'[id] = routes[id]
      BY <2>4 DEF KeyBoundOnce
    <2> QED
      BY <2>1, <2>2, <2>3, <2>4, StepEffect
  <1> QED
    BY <1>1, <1>2, TypeCorrect, PTL DEF StoreSpec

-----------------------------------------------------------------------------
(* Capacity.                                                               *)

\* The two bounds are inductive only with the table known to be finite.
CapacityInv == IsFiniteSet(DOMAIN routes) /\ StoredBound /\ ActiveBound

LEMMA BeginKeepsCapacity ==
    ASSUME TypeOK, CapacityInv,
           NEW rec \in PreparedRecords,
           BeginInserts(rec),
           DOMAIN routes' = RemainingRows(rec) \cup {rec.id},
           routes'[rec.id] = rec,
           \A id \in RemainingRows(rec) : routes'[id] = routes[id]
    PROVE  CapacityInv'
  <1>1. /\ IsFiniteSet(DOMAIN routes)
        /\ RemainingRows(rec) \in SUBSET DOMAIN routes
        /\ ActiveForCaller(rec) \in SUBSET DOMAIN routes
    BY DEF CapacityInv, RemainingRows, ActiveForCaller
  <1>2. /\ IsFiniteSet(RemainingRows(rec)) /\ IsFiniteSet(ActiveForCaller(rec))
        /\ Cardinality(RemainingRows(rec)) \in Nat
        /\ Cardinality(ActiveForCaller(rec)) \in Nat
    BY <1>1, FS_Subset, FS_CardinalityType
  <1>3. /\ ~(Cardinality(RemainingRows(rec)) >= MaxStoredTaskRoutes)
        /\ ~(Cardinality(ActiveForCaller(rec)) >= MaxActiveTaskRoutesPerCaller)
    BY DEF BeginInserts, AtCapacity
  <1>4. /\ IsFiniteSet(RemainingRows(rec) \cup {rec.id})
        /\ Cardinality(RemainingRows(rec) \cup {rec.id}) <= MaxStoredTaskRoutes
    <2>1. /\ IsFiniteSet(RemainingRows(rec) \cup {rec.id})
          /\ \/ Cardinality(RemainingRows(rec) \cup {rec.id})
                   = Cardinality(RemainingRows(rec))
             \/ Cardinality(RemainingRows(rec) \cup {rec.id})
                   = Cardinality(RemainingRows(rec)) + 1
      BY <1>2, FS_AddElement
    <2> QED
      BY <1>2, <1>3, <2>1, StoreBounds
  <1>5. ASSUME NEW caller \in Callers, NEW t \in Times
        PROVE  Cardinality(RetainedAt(caller, t)') <= MaxActiveTaskRoutesPerCaller
    <2>1. t \in Int /\ rec.created \in Nat /\ rec.expires \in Nat
      BY IntegerBound, PreparedIsRecord DEF Times, Record
    \* Where the new interval covers t, every other interval that covers t was
    \* active when the new record was created.
    <2>2. CASE caller = rec.caller /\ rec.created <= t
      <3>1. RetainedAt(caller, t)' \in SUBSET (ActiveForCaller(rec) \cup {rec.id})
        <4> SUFFICES ASSUME NEW id \in RetainedAt(caller, t)', id # rec.id
                     PROVE  id \in ActiveForCaller(rec)
          OBVIOUS
        <4>1. /\ id \in DOMAIN routes /\ routes[id].caller = caller
              /\ t < routes[id].expires
          BY DEF RetainedAt, RemainingRows
        <4>2. routes[id].expires \in Nat
          BY <4>1 DEF TypeOK, Record
        <4> QED
          BY <2>1, <2>2, <4>1, <4>2 DEF ActiveForCaller, IsExpired
      <3>2. /\ IsFiniteSet(ActiveForCaller(rec) \cup {rec.id})
            /\ Cardinality(ActiveForCaller(rec) \cup {rec.id})
                  <= MaxActiveTaskRoutesPerCaller
            /\ Cardinality(ActiveForCaller(rec) \cup {rec.id}) \in Nat
        <4>1. /\ IsFiniteSet(ActiveForCaller(rec) \cup {rec.id})
              /\ \/ Cardinality(ActiveForCaller(rec) \cup {rec.id})
                       = Cardinality(ActiveForCaller(rec))
                 \/ Cardinality(ActiveForCaller(rec) \cup {rec.id})
                       = Cardinality(ActiveForCaller(rec)) + 1
          BY <1>2, FS_AddElement
        <4> QED
          BY <1>2, <1>3, <4>1, StoreBounds
      <3>3. /\ IsFiniteSet(RetainedAt(caller, t)')
            /\ Cardinality(RetainedAt(caller, t)')
                  <= Cardinality(ActiveForCaller(rec) \cup {rec.id})
        BY <3>1, <3>2, FS_Subset
      <3>4. Cardinality(RetainedAt(caller, t)') \in Nat
        BY <3>3, FS_CardinalityType
      <3> QED
        BY <3>2, <3>3, <3>4, StoreBounds
    <2>3. CASE ~(caller = rec.caller /\ rec.created <= t)
      <3>1. RetainedAt(caller, t)' \in SUBSET RetainedAt(caller, t)
        BY <2>3 DEF RetainedAt, RemainingRows
      <3>2. RetainedAt(caller, t) \in SUBSET DOMAIN routes
        BY DEF RetainedAt
      <3>3. /\ IsFiniteSet(RetainedAt(caller, t))
            /\ Cardinality(RetainedAt(caller, t)) <= MaxActiveTaskRoutesPerCaller
            /\ Cardinality(RetainedAt(caller, t)) \in Nat
        BY <1>1, <3>2, FS_Subset, FS_CardinalityType DEF CapacityInv, ActiveBound
      <3>4. /\ IsFiniteSet(RetainedAt(caller, t)')
            /\ Cardinality(RetainedAt(caller, t)') <= Cardinality(RetainedAt(caller, t))
        BY <3>1, <3>3, FS_Subset
      <3>5. Cardinality(RetainedAt(caller, t)') \in Nat
        BY <3>4, FS_CardinalityType
      <3> QED
        BY <3>3, <3>4, <3>5, StoreBounds
    <2> QED
      BY <2>2, <2>3
  <1> QED
    BY <1>4, <1>5 DEF CapacityInv, StoredBound, ActiveBound

\* Steps that add no row and move no retention interval keep both bounds.
LEMMA ShrinkKeepsCapacity ==
    ASSUME CapacityInv,
           DOMAIN routes' \in SUBSET DOMAIN routes,
           \A id \in DOMAIN routes' :
              /\ routes'[id].caller = routes[id].caller
              /\ routes'[id].created = routes[id].created
              /\ routes'[id].expires = routes[id].expires
    PROVE  CapacityInv'
  <1>1. IsFiniteSet(DOMAIN routes)
    BY DEF CapacityInv
  <1>2. /\ IsFiniteSet(DOMAIN routes')
        /\ Cardinality(DOMAIN routes') <= Cardinality(DOMAIN routes)
        /\ Cardinality(DOMAIN routes') \in Nat /\ Cardinality(DOMAIN routes) \in Nat
    BY <1>1, FS_Subset, FS_CardinalityType
  <1>3. ASSUME NEW caller \in Callers, NEW t \in Times
        PROVE  Cardinality(RetainedAt(caller, t)') <= MaxActiveTaskRoutesPerCaller
    <2>1. /\ RetainedAt(caller, t)' \in SUBSET RetainedAt(caller, t)
          /\ RetainedAt(caller, t) \in SUBSET DOMAIN routes
      BY DEF RetainedAt
    <2>2. IsFiniteSet(RetainedAt(caller, t)) /\ IsFiniteSet(RetainedAt(caller, t)')
      BY <1>1, <2>1, FS_Subset
    <2>3. /\ Cardinality(RetainedAt(caller, t)') <= Cardinality(RetainedAt(caller, t))
          /\ Cardinality(RetainedAt(caller, t)') \in Nat
          /\ Cardinality(RetainedAt(caller, t)) \in Nat
      BY <2>1, <2>2, FS_Subset, FS_CardinalityType
    <2> QED
      BY <2>3, StoreBounds DEF CapacityInv, ActiveBound
  <1> QED
    BY <1>2, <1>3, StoreBounds DEF CapacityInv, StoredBound, ActiveBound

LEMMA CapacityKept == StoreSpec => []CapacityInv
  <1>1. StoreInit => CapacityInv
    <2> SUFFICES ASSUME StoreInit PROVE CapacityInv
      OBVIOUS
    <2>1. DOMAIN routes = {}
      BY DEF StoreInit
    <2>2. \A caller \in Callers, t \in Times : RetainedAt(caller, t) = {}
      BY <2>1 DEF RetainedAt
    <2>3. IsFiniteSet({}) /\ Cardinality({}) = 0
      BY FS_EmptySet
    <2> QED
      BY <2>1, <2>2, <2>3, StoreBounds DEF CapacityInv, StoredBound, ActiveBound
  <1>2. TypeOK /\ CapacityInv /\ [StoreNext]_routes => CapacityInv'
    <2> SUFFICES ASSUME TypeOK, CapacityInv, [StoreNext]_routes PROVE CapacityInv'
      OBVIOUS
    <2>1. CASE routes' = routes
      BY <2>1, ShrinkKeepsCapacity
    <2>2. ASSUME NEW rec \in PreparedRecords,
                 BeginInserts(rec),
                 DOMAIN routes' = RemainingRows(rec) \cup {rec.id},
                 routes'[rec.id] = rec,
                 \A id \in RemainingRows(rec) : routes'[id] = routes[id]
          PROVE  CapacityInv'
      BY <2>2, BeginKeepsCapacity
    <2>3. ASSUME NEW id \in DOMAIN routes, NEW u \in Updates,
                 DOMAIN routes' = DOMAIN routes,
                 routes'[id] = Successor(routes[id], u),
                 \A other \in DOMAIN routes :
                    other # id => routes'[other] = routes[other]
          PROVE  CapacityInv'
      <3>1. \A any \in DOMAIN routes :
               /\ routes'[any].caller = routes[any].caller
               /\ routes'[any].created = routes[any].created
               /\ routes'[any].expires = routes[any].expires
        BY <2>3, CasKeepsIdentity
      <3> QED
        BY <2>3, <3>1, ShrinkKeepsCapacity
    <2>4. CASE /\ DOMAIN routes' \subseteq DOMAIN routes
               /\ \A id \in DOMAIN routes' : routes'[id] = routes[id]
      BY <2>4, ShrinkKeepsCapacity
    <2> QED
      BY <2>1, <2>2, <2>3, <2>4, StepEffect
  <1> QED
    BY <1>1, <1>2, TypeCorrect, PTL DEF StoreSpec

\* MAX_STORED_TASK_ROUTES (storage.rs) bounds the table.
THEOREM StoredBounded == StoreSpec => []StoredBound
  BY CapacityKept, PTL DEF CapacityInv

\* MAX_ACTIVE_TASK_ROUTES_PER_CALLER (storage.rs) bounds the retention intervals
\* of a caller that overlap at any instant, in whatever order stale creation
\* times arrive.
THEOREM ActiveBounded == StoreSpec => []ActiveBound
  BY CapacityKept, PTL DEF CapacityInv

-----------------------------------------------------------------------------
(* History.                                                                *)

LEMMA CasIsRouteStep ==
    ASSUME NEW r \in Record, NEW u \in Updates, TransitionAllowed(r, u)
    PROVE  RouteStep(r, Successor(r, u))
  <1>1. CanTransition(r.phase, u.phase)
    BY DEF TransitionAllowed
  <1>2. /\ r.phase # "terminal" /\ u.phase # "prepared"
        /\ r.phase = "cancel_requested" => u.phase \in {"cancel_requested", "terminal"}
    BY <1>1 DEF CanTransition
  <1> QED
    BY <1>2, SuccessorType DEF RouteStep

\* Any step of the table is a step of each route it stores before and after.
LEMMA StepIsRouteStep ==
    ASSUME TypeOK, [StoreNext]_routes, NEW id \in DOMAIN routes \cap DOMAIN routes'
    PROVE  RouteStep(routes[id], routes'[id])
  <1>1. CASE routes' = routes
    BY <1>1 DEF RouteStep
  <1>2. ASSUME NEW rec \in PreparedRecords,
               DOMAIN routes' = RemainingRows(rec) \cup {rec.id},
               BeginInserts(rec),
               routes'[rec.id] = rec,
               \A other \in RemainingRows(rec) : routes'[other] = routes[other]
        PROVE  RouteStep(routes[id], routes'[id])
    <2>1. CASE id \in RemainingRows(rec)
      BY <1>2, <2>1 DEF RouteStep
    <2>2. CASE id \notin RemainingRows(rec)
      <3>1. id = rec.id /\ id \in ExpiredBinding(rec)
        BY <1>2, <2>2 DEF RemainingRows
      <3> QED
        BY <1>2, <3>1 DEF RouteStep, ExpiredBinding, IsExpired
    <2> QED
      BY <2>1, <2>2
  <1>3. ASSUME NEW changed \in DOMAIN routes, NEW u \in Updates,
               TransitionAllowed(routes[changed], u),
               routes'[changed] = Successor(routes[changed], u),
               \A other \in DOMAIN routes :
                  other # changed => routes'[other] = routes[other]
        PROVE  RouteStep(routes[id], routes'[id])
    <2>1. CASE id # changed
      BY <1>3, <2>1 DEF RouteStep
    <2>2. CASE id = changed
      <3>1. routes[changed] \in Record
        BY DEF TypeOK
      <3> QED
        BY <1>3, <2>2, <3>1, CasIsRouteStep
    <2> QED
      BY <2>1, <2>2
  <1>4. CASE /\ DOMAIN routes' \subseteq DOMAIN routes
             /\ \A other \in DOMAIN routes' : routes'[other] = routes[other]
    BY <1>4 DEF RouteStep
  <1> QED
    BY <1>1, <1>2, <1>3, <1>4, StepEffect

\* Whatever calls are made, a stored route's identity and retention never change,
\* its upstream ID is write-once, "terminal" is final, a cancellation intent is
\* never withdrawn, and a public ID is reused only after expiry (storage.rs
\* compare_and_set_task_route, task.rs transition).
THEOREM HistoryKept == StoreSpec => RouteHistory
  <1>1. TypeOK /\ [StoreNext]_routes =>
           [\A id \in DOMAIN routes \cap DOMAIN routes' :
               RouteStep(routes[id], routes'[id])]_routes
    BY StepIsRouteStep
  <1> QED
    BY <1>1, TypeCorrect, PTL DEF StoreSpec, RouteHistory

-----------------------------------------------------------------------------
(* The task proxy: its inductive invariant.                                *)

Locals ==
    [pc : Places, op : {None, "submit", "get", "cancel"},
     sub : Submissions \cup {None}, seen : Nat,
     rec : Record \cup [caller : Callers, id : 1 .. MaxRoutes] \cup {None},
     tries : Nat, uid : Nat \cup {None},
     note : Verdicts \cup Statuses \cup {"ack", "nack", None}]

\* A record's upstream ID was issued for one of the executions D.
Known(r, D) == r.upstream # None => r.upstream \in D

\* What the place a handler is at says of its locals, at time t and with the
\* executions D sent so far.
LocalOK(l, t, D) ==
    /\ l.seen <= t
    /\ l.tries <= MaxCasAttempts
    /\ l.pc \in {"recover", "begin"} => l.sub \in Submissions
    /\ l.pc \in WithRecord => l.rec \in Record /\ Known(l.rec, D)
    /\ l.pc \in {"cutoff", "send"} => l.rec.owner \in Owners
    /\ l.pc \in {"await", "bind", "orphan"} => l.uid \in D
    /\ l.pc \in {"cancel", "retry", "poll", "polled", "reroute"} => l.rec.upstream # None
    /\ l.pc = "finish" => l.note \in Verdicts
    /\ l.pc \in {"polled", "reroute"} => l.note \in Statuses

RoutesKnown == \A id \in DOMAIN routes : Known(routes[id], DOMAIN execs)

ProxyInv ==
    /\ TypeOK
    /\ RoutesKnown
    /\ now \in 0 .. MaxTime
    /\ minted \in 0 .. MaxRoutes
    /\ epoch \in [Instances -> 0 .. MaxEpochs]
    /\ session \in [Instances -> 0 .. MaxSessions]
    /\ snapshot \in [Instances -> Snapshots]
    /\ execs \in Seq(Execution)
    /\ h \in [Handlers -> Locals]
    /\ \A p \in Handlers : LocalOK(h[p], now, DOMAIN execs)

\* What a step of handler p does: the table takes a step of its own, executions
\* are only added or updated, and the handler's locals stay in order.
HandlerMoves(p) ==
    /\ [StoreNext]_routes
    /\ RoutesKnown'
    /\ execs' \in Seq(Execution)
    /\ DOMAIN execs \subseteq DOMAIN execs'
    /\ \E l \in Locals : /\ h' = [h EXCEPT ![p] = l]
                         /\ LocalOK(l, now, DOMAIN execs')
    /\ minted' \in 0 .. MaxRoutes
    /\ UNCHANGED <<now, epoch, session, snapshot>>

-----------------------------------------------------------------------------
(* Locals.                                                                 *)

LEMMA RecordPlaces ==
    /\ WithRecord \subseteq Places
    /\ {"recheck", "existing", "claim", "cutoff", "send", "await", "bind", "orphan",
        "mark", "finish", "intent", "cancel", "nondispatch", "decide", "retry",
        "poll", "polled", "reroute"} = WithRecord
  BY DEF WithRecord, Places

LEMMA IdleLocal ==
    /\ Idle \in Locals
    /\ Idle.pc = "idle" /\ Idle.op = None /\ Idle.sub = None /\ Idle.seen = 0
    /\ Idle.rec = None /\ Idle.tries = 0 /\ Idle.uid = None /\ Idle.note = None
    /\ \A t \in Nat : \A D : LocalOK(Idle, t, D)
  <1>1. Idle \in Locals
    BY DEF Idle, Locals, Places
  <1>2. /\ Idle.pc = "idle" /\ Idle.op = None /\ Idle.sub = None /\ Idle.seen = 0
        /\ Idle.rec = None /\ Idle.tries = 0 /\ Idle.uid = None /\ Idle.note = None
    BY DEF Idle
  <1>3. \A t \in Nat : \A D : LocalOK(Idle, t, D)
    BY <1>2, ProxyConstants DEF LocalOK, WithRecord
  <1> QED
    BY <1>1, <1>2, <1>3

LEMMA AtLocal ==
    ASSUME h \in [Handlers -> Locals], NEW p \in Handlers,
           NEW place \in WithRecord, NEW r \in Record
    PROVE  /\ At(p, place, r) \in Locals
           /\ At(p, place, r).pc = place /\ At(p, place, r).rec = r
           /\ At(p, place, r).seen = 0 /\ At(p, place, r).tries = 0
           /\ Loop(p, place, r) \in Locals
           /\ Loop(p, place, r).pc = place /\ Loop(p, place, r).rec = r
           /\ Loop(p, place, r).seen = 0 /\ Loop(p, place, r).tries = MaxCasAttempts
  <1>1. h[p].op \in {None, "submit", "get", "cancel"} /\ place \in Places
    BY RecordPlaces DEF Locals
  <1>2. /\ At(p, place, r) \in Locals
        /\ At(p, place, r).pc = place /\ At(p, place, r).rec = r
        /\ At(p, place, r).seen = 0 /\ At(p, place, r).tries = 0
    BY <1>1, IdleLocal DEF At, Locals
  <1>3. /\ Loop(p, place, r) \in Locals
        /\ Loop(p, place, r).pc = place /\ Loop(p, place, r).rec = r
        /\ Loop(p, place, r).seen = 0 /\ Loop(p, place, r).tries = MaxCasAttempts
    BY <1>2, ProxyConstants DEF Loop, Locals
  <1> QED
    BY <1>2, <1>3

\* Places that ask nothing but a record of a handler.
Plain == {"recheck", "existing", "claim", "mark", "intent", "nondispatch", "decide"}

LEMMA PlainLocal ==
    ASSUME h \in [Handlers -> Locals], NEW p \in Handlers,
           NEW place \in Plain, NEW r \in Record, NEW D, Known(r, D), NEW t \in Nat
    PROVE  /\ At(p, place, r) \in Locals /\ LocalOK(At(p, place, r), t, D)
           /\ Loop(p, place, r) \in Locals /\ LocalOK(Loop(p, place, r), t, D)
  <1>1. place \in WithRecord
    BY RecordPlaces DEF Plain
  <1> QED
    BY <1>1, AtLocal, ProxyConstants DEF LocalOK, Plain

\* Time and new executions invalidate nothing a handler knows.
LEMMA LocalGrows ==
    ASSUME NEW l \in Locals, NEW t \in Nat, NEW u \in Nat, t <= u,
           NEW D, NEW E, D \subseteq E, LocalOK(l, t, D)
    PROVE  LocalOK(l, u, E)
  <1>1. l.seen \in Nat
    BY DEF Locals
  <1> QED
    BY <1>1 DEF LocalOK, Known

-----------------------------------------------------------------------------
(* Steps of the table.                                                     *)

LEMMA Stutter ==
    ASSUME RoutesKnown, UNCHANGED routes, DOMAIN execs \subseteq DOMAIN execs'
    PROVE  [StoreNext]_routes /\ RoutesKnown'
  BY DEF RoutesKnown, Known

LEMMA CasMove ==
    ASSUME TypeOK, RoutesKnown, NEW p \in Handlers, NEW u \in Updates,
           u.upstream \in DOMAIN execs \cup {None},
           DOMAIN execs \subseteq DOMAIN execs', Cas(p, u)
    PROVE  [StoreNext]_routes /\ RoutesKnown'
  <1> DEFINE caller == h[p].rec.caller
             id == h[p].rec.id
             version == h[p].rec.version
  <1>1. CompareAndSet(caller, id, version, u)
    BY DEF Cas
  <1>2. CASE ~CasSucceeds(caller, id, version, u)
    <2>1. UNCHANGED routes
      BY <1>1, <1>2 DEF CompareAndSet
    <2> QED
      BY <2>1, Stutter
  <1>3. CASE CasSucceeds(caller, id, version, u)
    <2>1. /\ id \in PublicIds /\ routes[id] \in Record /\ routes[id].caller = caller
          /\ routes[id].version = version /\ ValidShape(routes[id])
          /\ id \in DOMAIN routes
      BY <1>3 DEF CasSucceeds, TypeOK
    <2>2. caller \in Callers /\ version \in Times
      BY <2>1, IntegerBound DEF Record, ValidShape, Times
    <2>3. StoreNext
      BY <1>1, <2>1, <2>2 DEF StoreNext
    <2>4. /\ DOMAIN routes' = DOMAIN routes
          /\ routes'[id] = Successor(routes[id], u)
          /\ \A other \in DOMAIN routes : other # id => routes'[other] = routes[other]
      BY <1>1, <1>3, <2>1 DEF CompareAndSet
    <2>5. Successor(routes[id], u).upstream
             = IF routes[id].upstream # None THEN routes[id].upstream ELSE u.upstream
      BY <2>1 DEF Successor, Record
    <2>6. Known(Successor(routes[id], u), DOMAIN execs')
      BY <2>1, <2>5 DEF RoutesKnown, Known
    <2>7. RoutesKnown'
      BY <2>4, <2>6 DEF RoutesKnown, Known
    <2> QED
      BY <2>3, <2>7
  <1> QED
    BY <1>2, <1>3

-----------------------------------------------------------------------------
(* What the invariant says of one handler.                                 *)

LEMMA HandlerFacts ==
    ASSUME ProxyInv, NEW p \in Handlers
    PROVE  /\ h[p] \in Locals
           /\ LocalOK(h[p], now, DOMAIN execs)
           /\ now \in Nat /\ now \in Times
           /\ InstanceId(Host(p)) \in Owners
           /\ SessionId(Host(p)) \in Sessions
           /\ snapshot[Host(p)] \in Snapshots
  <1>1. Host(p) \in Instances
    BY ProxyConstants DEF Host
  <1>2. InstanceId(Host(p)) \in Instances \X (0 .. MaxEpochs)
    BY <1>1 DEF InstanceId, ProxyInv
  <1>3. SessionId(Host(p)) \in Instances \X (0 .. MaxSessions)
    BY <1>1 DEF SessionId, ProxyInv
  <1>4. now \in Nat /\ now \in Times
    BY ProxyConstants, IntegerBound DEF ProxyInv, Times
  <1> QED
    BY <1>1, <1>2, <1>3, <1>4, ProxyConstants DEF ProxyInv

\* A handler's copy of a record, at any place that has one.
LEMMA Held ==
    ASSUME ProxyInv, NEW p \in Handlers, h[p].pc \in WithRecord
    PROVE  h[p].rec \in Record /\ Known(h[p].rec, DOMAIN execs)
  BY HandlerFacts DEF LocalOK

\* A row of the table read for a handler.
LEMMA StoredRecord ==
    ASSUME ProxyInv, NEW p \in Handlers, Stored(p) # None
    PROVE  Stored(p) \in Record /\ Known(Stored(p), DOMAIN execs)
  BY DEF Stored, GetTaskRoute, ProxyInv, TypeOK, RoutesKnown

\* The record an update leads to.
LEMMA SuccessorKnown ==
    ASSUME NEW r \in Record, NEW u \in Updates, NEW D, Known(r, D),
           u.upstream \in D \cup {None}
    PROVE  /\ Successor(r, u) \in Record
           /\ Known(Successor(r, u), D)
           /\ Successor(r, u).owner = u.owner
  <1>1. /\ Successor(r, u).upstream
             = IF r.upstream # None THEN r.upstream ELSE u.upstream
        /\ Successor(r, u).owner = u.owner
    BY DEF Successor, Record
  <1> QED
    BY <1>1, SuccessorType DEF Known

\* The updates the proxy asks for.
LEMMA ProxyUpdates ==
    /\ \A o \in Owners : Dispatching(o) \in Updates /\ Dispatching(o).upstream = None
                          /\ Dispatching(o).owner = o
    /\ \A n \in Nat : /\ Routed(n) \in Updates /\ Routed(n).upstream = n
                      /\ CancelRequestedWithUpstream(n) \in Updates
                      /\ CancelRequestedWithUpstream(n).upstream = n
    /\ \A v \in Verdicts : Terminal(v) \in Updates /\ Terminal(v).upstream = None
    /\ ReconciliationRequired \in Updates /\ ReconciliationRequired.upstream = None
    /\ CancelRequested \in Updates /\ CancelRequested.upstream = None
  BY ProxyConstants DEF Updates, Dispatching, Routed, CancelRequestedWithUpstream,
         Terminal, ReconciliationRequired, CancelRequested, Update

-----------------------------------------------------------------------------
(* Shapes of a handler's step.                                             *)

\* Only the handler's locals change.
LEMMA LocalMove ==
    ASSUME ProxyInv, NEW p \in Handlers, NEW l \in Locals,
           LocalOK(l, now, DOMAIN execs), Become(p, l),
           StoreUnchanged, HostsUnchanged, UNCHANGED execs
    PROVE  HandlerMoves(p)
  <1>1. [StoreNext]_routes /\ RoutesKnown'
    BY Stutter DEF ProxyInv, StoreUnchanged
  <1> QED
    BY <1>1 DEF HandlerMoves, ProxyInv, Become, HostsUnchanged

\* A compare-and-set and the handler's locals.
LEMMA UpdateMove ==
    ASSUME ProxyInv, NEW p \in Handlers, NEW l \in Locals,
           LocalOK(l, now, DOMAIN execs), Become(p, l),
           NEW u \in Updates, u.upstream \in DOMAIN execs \cup {None}, Cas(p, u),
           HostsUnchanged, UNCHANGED execs
    PROVE  HandlerMoves(p)
  <1>1. [StoreNext]_routes /\ RoutesKnown'
    BY CasMove DEF ProxyInv
  <1> QED
    BY <1>1 DEF HandlerMoves, ProxyInv, Become, HostsUnchanged

\* An update of one execution and the handler's locals.
LEMMA ExecMove ==
    ASSUME ProxyInv, NEW p \in Handlers, NEW l \in Locals,
           LocalOK(l, now, DOMAIN execs), Become(p, l),
           execs' \in Seq(Execution), DOMAIN execs' = DOMAIN execs,
           StoreUnchanged, HostsUnchanged
    PROVE  HandlerMoves(p)
  <1>1. [StoreNext]_routes /\ RoutesKnown'
    BY Stutter DEF ProxyInv, StoreUnchanged
  <1> QED
    BY <1>1 DEF HandlerMoves, ProxyInv, Become, HostsUnchanged

\* The updates of an execution.
LEMMA ExecUpdates ==
    ASSUME execs \in Seq(Execution), NEW n \in DOMAIN execs
    PROVE  /\ execs[n] \in Execution
           /\ [execs EXCEPT ![n].acked = TRUE] \in Seq(Execution)
           /\ [execs EXCEPT ![n].bound = TRUE] \in Seq(Execution)
           /\ \A s \in Statuses : [execs EXCEPT ![n].status = s] \in Seq(Execution)
           /\ \A c \in {"tried", "sent"} :
                 [execs EXCEPT ![n].cancel = c] \in Seq(Execution)
  <1>1. execs[n] \in Execution
    OBVIOUS
  <1>2. ASSUME NEW e \in Execution PROVE [execs EXCEPT ![n] = e] \in Seq(Execution)
    BY <1>2
  <1>3. /\ [execs[n] EXCEPT !.acked = TRUE] \in Execution
        /\ [execs[n] EXCEPT !.bound = TRUE] \in Execution
    BY <1>1 DEF Execution
  <1>4. ASSUME NEW s \in Statuses PROVE [execs[n] EXCEPT !.status = s] \in Execution
    BY <1>1, <1>4 DEF Execution
  <1>5. ASSUME NEW c \in {"tried", "sent"}
        PROVE  [execs[n] EXCEPT !.cancel = c] \in Execution
    BY <1>1, <1>5 DEF Execution
  <1> QED
    BY <1>1, <1>2, <1>3, <1>4, <1>5

\* Whatever becomes of a cancel, the execution has been tried to be cancelled.
LEMMA TryCancelMarks ==
    ASSUME NEW p, NEW n, TryCancel(p, n)
    PROVE  \E c \in {"tried", "sent"} : execs' = [execs EXCEPT ![n].cancel = c]
  <1>1. PICK c \in {"tried", "sent"} :
           execs' = [execs EXCEPT ![n].cancel = IF @ = "sent" THEN "sent" ELSE c]
    BY DEF TryCancel
  <1>2. execs' = [execs EXCEPT ![n].cancel = IF execs[n].cancel = "sent" THEN "sent" ELSE c]
    BY <1>1
  <1>3. CASE execs[n].cancel = "sent"
    <2>1. execs' = [execs EXCEPT ![n].cancel = "sent"]
      BY <1>2, <1>3
    <2> QED
      BY <2>1
  <1>4. CASE execs[n].cancel # "sent"
    <2>1. execs' = [execs EXCEPT ![n].cancel = c]
      BY <1>2, <1>4
    <2> QED
      BY <2>1
  <1> QED
    BY <1>3, <1>4

LEMMA TryCancelKeeps ==
    ASSUME ProxyInv, NEW p \in Handlers, NEW uid \in DOMAIN execs, TryCancel(p, uid)
    PROVE  execs' \in Seq(Execution) /\ DOMAIN execs' = DOMAIN execs
  <1>1. PICK c \in {"tried", "sent"} : execs' = [execs EXCEPT ![uid].cancel = c]
    BY TryCancelMarks
  <1> QED
    BY <1>1, ExecUpdates DEF ProxyInv

-----------------------------------------------------------------------------
(* submit and recover_submission.                                          *)

LEMMA SubmitModeMoves ==
    ASSUME ProxyInv, NEW p \in Handlers, NEW sub \in Submissions,
           NEW recovery_only \in BOOLEAN, SubmitMode(p, sub, recovery_only)
    PROVE  HandlerMoves(p)
  <1> DEFINE local == [Idle EXCEPT !.op = "submit", !.sub = sub, !.seen = now]
             l == IF recovery_only \/ sub.deadline <= now
                  THEN [local EXCEPT !.pc = "recover"]
                  ELSE IF ValidAt(sub, now) THEN [local EXCEPT !.pc = "begin"]
                  ELSE Idle
  <1>1. now \in Nat /\ now \in Times
    BY HandlerFacts
  <1>2. PurgeExpired(now, PurgeLimit) /\ Become(p, l) /\ HostsUnchanged /\ UNCHANGED execs
    BY DEF SubmitMode
  <1>3. /\ local \in Locals /\ local.seen = now /\ local.tries = 0 /\ local.sub = sub
    BY <1>1, IdleLocal DEF Locals
  <1>4. ASSUME NEW place \in {"recover", "begin"}
        PROVE  /\ [local EXCEPT !.pc = place] \in Locals
               /\ LocalOK([local EXCEPT !.pc = place], now, DOMAIN execs)
    <2> DEFINE m == [local EXCEPT !.pc = place]
    <2> HIDE DEF local
    <2>1. m \in Locals /\ m.pc = place /\ m.seen = now /\ m.tries = 0 /\ m.sub = sub
      BY <1>3 DEF Locals, Places
    <2>2. m.pc \notin WithRecord
      BY <2>1 DEF WithRecord
    <2> HIDE DEF m
    <2>3. LocalOK(m, now, DOMAIN execs)
      BY <2>1, <2>2, <1>1, ProxyConstants DEF LocalOK
    <2> QED
      BY <2>1, <2>3 DEF m
  <1>5. l \in Locals /\ LocalOK(l, now, DOMAIN execs)
    BY <1>4, <1>1, IdleLocal
  <1>6. StoreNext
    <2>1. PurgeLimit \in 0 .. MaxPurgeRecords
      BY ProxyConstants, StoreBounds
    <2> QED
      BY <1>1, <1>2, <2>1 DEF StoreNext
  <1>7. RoutesKnown'
    <2>1. /\ DOMAIN routes' \subseteq DOMAIN routes
          /\ \A id \in DOMAIN routes' : routes'[id] = routes[id]
      BY <1>2 DEF PurgeExpired, Removed
    <2> QED
      BY <1>2, <2>1 DEF ProxyInv, RoutesKnown
  <1> HIDE DEF l
  <1> QED
    BY <1>2, <1>5, <1>6, <1>7 DEF HandlerMoves, ProxyInv, Become, HostsUnchanged

LEMMA RecoverMoves ==
    ASSUME ProxyInv, NEW p \in Handlers, Recover(p)
    PROVE  HandlerMoves(p)
  <1> DEFINE found == {id \in BoundTo(h[p].sub.caller, h[p].sub.key) :
                         /\ ~IsExpired(routes[id], h[p].seen)
                         /\ ValidAt(h[p].sub, routes[id].created)
                         /\ routes[id].binding = Binding(p)}
             next(r) == IF r.phase = "terminal" THEN Idle
                        ELSE IF r.phase = "prepared" THEN At(p, "nondispatch", r)
                        ELSE IF r.phase = "dispatching" THEN Loop(p, "mark", r)
                        ELSE At(p, "recheck", r)
  <1>1. now \in Nat /\ h \in [Handlers -> Locals]
    BY HandlerFacts DEF ProxyInv
  <1>2. StoreUnchanged /\ HostsUnchanged /\ UNCHANGED execs
    BY DEF Recover
  <1>3. CASE Return(p)
    BY <1>1, <1>2, <1>3, IdleLocal, LocalMove DEF Return
  <1>4. ASSUME NEW id \in found, Become(p, next(routes[id])) PROVE HandlerMoves(p)
    <2>1. routes[id] \in Record /\ Known(routes[id], DOMAIN execs)
      BY DEF BoundTo, ProxyInv, TypeOK, RoutesKnown
    <2>2. /\ next(routes[id]) \in Locals
          /\ LocalOK(next(routes[id]), now, DOMAIN execs)
      BY <1>1, <2>1, IdleLocal, PlainLocal DEF Plain
    <2> HIDE DEF next
    <2> QED
      BY <1>2, <1>4, <2>2, LocalMove
  <1> QED
    BY <1>3, <1>4 DEF Recover

LEMMA RecheckMoves ==
    ASSUME ProxyInv, NEW p \in Handlers, Recheck(p)
    PROVE  HandlerMoves(p)
  <1>1. now \in Nat /\ h \in [Handlers -> Locals]
    BY HandlerFacts DEF ProxyInv
  <1>2. h[p].rec \in Record /\ Known(h[p].rec, DOMAIN execs)
    BY Held, RecordPlaces DEF Recheck
  <1>3. /\ Loop(p, "mark", h[p].rec) \in Locals
        /\ LocalOK(Loop(p, "mark", h[p].rec), now, DOMAIN execs)
    BY <1>1, <1>2, PlainLocal DEF Plain
  <1> QED
    BY <1>1, <1>3, IdleLocal, LocalMove DEF Recheck

\* The record a submission offers is one an arbitrary client could offer.
LEMMA CandidatePrepared ==
    ASSUME ProxyInv, NEW p \in Handlers, h[p].pc = "begin",
           minted < MaxRoutes, BeginInserts(Candidate(p))
    PROVE  Candidate(p) \in PreparedRecords
  <1> DEFINE s == h[p].sub
  <1>1. /\ s \in Submissions /\ h[p].seen <= now /\ h[p].seen \in Nat
        /\ SessionId(Host(p)) \in Sessions /\ snapshot[Host(p)] \in Snapshots
        /\ now \in Times
    BY HandlerFacts DEF LocalOK, Locals
  <1>2. /\ s.caller \in Callers /\ s.key \in Keys \cup {None} /\ s.retention \in Nat
    BY <1>1, SubmissionLimits DEF Documents
  <1>3. Binding(p) \in Bindings
    BY <1>1, ProxyConstants DEF Binding
  <1>4. minted + 1 \in PublicIds
    <2>1. minted \in 0 .. MaxRoutes /\ MaxRoutes \in Nat
      BY ProxyConstants DEF ProxyInv
    <2>2. minted + 1 \in 1 .. MaxRoutes
      BY <2>1
    <2> QED
      BY <2>2, ProxyConstants
  <1>5. h[p].seen \in Times
    BY <1>1, IntegerBound DEF Times
  <1>6. h[p].seen + s.retention <= MaxSqliteInteger
    BY DEF BeginInserts, PreparedForBegin, ValidShape, Candidate, Prepare
  <1>7. s.retention \in Times
    BY <1>1, <1>2, <1>6, IntegerBound DEF Times
  <1>8. ASSUME NEW id \in PublicIds, NEW caller \in Callers, NEW key \in Keys \cup {None},
               NEW binding \in Bindings, NEW ses \in Sessions,
               NEW created \in Times, NEW ttl \in Times
        PROVE  Prepare(id, caller, key, binding, ses, created, ttl) \in PreparedRecords
    BY DEF PreparedRecords
  <1> QED
    BY <1>1, <1>2, <1>3, <1>4, <1>5, <1>7, <1>8 DEF Candidate

LEMMA BeginMoves ==
    ASSUME ProxyInv, NEW p \in Handlers, Begin(p)
    PROVE  HandlerMoves(p)
  <1> DEFINE new == Candidate(p)
  <1>1. /\ h[p] \in Locals /\ LocalOK(h[p], now, DOMAIN execs)
        /\ now \in Nat /\ h \in [Handlers -> Locals]
    BY HandlerFacts DEF ProxyInv
  <1>2. h[p].pc = "begin" /\ UNCHANGED <<now, epoch, session, snapshot, execs>>
    BY DEF Begin
  <1>3. CASE BeginInserts(new) /\ minted < MaxRoutes
    <2>1. BeginOrExisting(new) /\ minted' = minted + 1 /\ Become(p, At(p, "claim", new))
      BY <1>3 DEF Begin
    <2>2. new \in PreparedRecords
      BY <1>2, <1>3, CandidatePrepared
    <2>3. new \in Record /\ new.upstream = None
      BY <2>2, PreparedIsRecord
    <2>4. Known(new, DOMAIN execs)
      BY <2>3 DEF Known
    <2>5. At(p, "claim", new) \in Locals /\ LocalOK(At(p, "claim", new), now, DOMAIN execs)
      BY <1>1, <2>3, <2>4, PlainLocal DEF Plain
    <2>6. StoreNext
      BY <2>1, <2>2 DEF StoreNext
    <2>7. /\ DOMAIN routes' = RemainingRows(new) \cup {new.id}
          /\ routes'[new.id] = new
          /\ \A id \in RemainingRows(new) : routes'[id] = routes[id]
      BY <1>3, <2>1 DEF BeginOrExisting, Inserted, BeginInserts
    <2>8. RoutesKnown'
      BY <1>2, <2>4, <2>7 DEF ProxyInv, RoutesKnown, RemainingRows
    <2>9. minted' \in 0 .. MaxRoutes
      BY <1>3, <2>1, ProxyConstants DEF ProxyInv
    <2> HIDE DEF new
    <2> QED
      BY <1>2, <2>1, <2>5, <2>6, <2>8, <2>9 DEF HandlerMoves, ProxyInv, Become
  <1>4. CASE ~(BeginInserts(new) /\ minted < MaxRoutes)
    <2>1. StoreUnchanged /\ HostsUnchanged /\ UNCHANGED execs
      BY <1>2, <1>4 DEF Begin, StoreUnchanged, HostsUnchanged
    <2>2. CASE Return(p)
      BY <1>1, <2>1, <2>2, IdleLocal, LocalMove DEF Return
    <2>3. ASSUME NEW id \in LiveBinding(new),
                 Become(p, IF routes[id].phase = "terminal" THEN Idle
                           ELSE [At(p, "existing", routes[id])
                                   EXCEPT !.seen = h[p].seen])
          PROVE  HandlerMoves(p)
      <3> DEFINE a == At(p, "existing", routes[id])
                 l == [a EXCEPT !.seen = h[p].seen]
      <3>1. routes[id] \in Record /\ Known(routes[id], DOMAIN execs)
        BY DEF LiveBinding, BoundTo, ProxyInv, TypeOK, RoutesKnown
      <3>2. a \in Locals /\ LocalOK(a, now, DOMAIN execs)
        BY <1>1, <3>1, PlainLocal DEF Plain
      <3>3. h[p].seen \in Nat /\ h[p].seen <= now
        BY <1>1 DEF Locals, LocalOK
      <3> HIDE DEF a
      <3>4. /\ l \in Locals /\ l.seen = h[p].seen /\ l.pc = a.pc /\ l.rec = a.rec
            /\ l.tries = a.tries /\ l.sub = a.sub /\ l.uid = a.uid /\ l.note = a.note
        BY <3>2, <3>3 DEF Locals
      <3>5. LocalOK(l, now, DOMAIN execs)
        <4> HIDE DEF l
        <4> QED BY <3>2, <3>3, <3>4 DEF LocalOK
      <3> QED
        BY <1>1, <2>1, <2>3, <3>4, <3>5, IdleLocal, LocalMove DEF a
    <2> QED
      BY <1>4, <2>2, <2>3 DEF Begin
  <1> QED
    BY <1>3, <1>4

LEMMA ExistingMoves ==
    ASSUME ProxyInv, NEW p \in Handlers, Existing(p)
    PROVE  HandlerMoves(p)
  <1>1. now \in Nat /\ h \in [Handlers -> Locals]
    BY HandlerFacts DEF ProxyInv
  <1>2. h[p].rec \in Record /\ Known(h[p].rec, DOMAIN execs)
    BY Held, RecordPlaces DEF Existing
  <1>3. \A l \in {Loop(p, "mark", h[p].rec), At(p, "claim", h[p].rec), Idle} :
           l \in Locals /\ LocalOK(l, now, DOMAIN execs)
    BY <1>1, <1>2, PlainLocal, IdleLocal DEF Plain
  <1>4. \E l \in {Loop(p, "mark", h[p].rec), At(p, "claim", h[p].rec), Idle} : Become(p, l)
    BY DEF Existing
  <1> QED
    BY <1>3, <1>4, LocalMove DEF Existing

-----------------------------------------------------------------------------
(* Changing single locals.                                                 *)

LEMMA SetPc ==
    ASSUME NEW l \in Locals, NEW place \in Places
    PROVE  LET m == [l EXCEPT !.pc = place] IN
           /\ m \in Locals /\ m.pc = place /\ m.rec = l.rec /\ m.seen = l.seen
           /\ m.tries = l.tries /\ m.sub = l.sub /\ m.uid = l.uid /\ m.note = l.note
  BY DEF Locals

LEMMA SetNote ==
    ASSUME NEW l \in Locals,
           NEW note \in Verdicts \cup Statuses \cup {"ack", "nack", None}
    PROVE  LET m == [l EXCEPT !.note = note] IN
           /\ m \in Locals /\ m.note = note /\ m.rec = l.rec /\ m.seen = l.seen
           /\ m.tries = l.tries /\ m.sub = l.sub /\ m.uid = l.uid /\ m.pc = l.pc
  BY DEF Locals

LEMMA SetUid ==
    ASSUME NEW l \in Locals, NEW uid \in Nat
    PROVE  LET m == [l EXCEPT !.uid = uid] IN
           /\ m \in Locals /\ m.uid = uid /\ m.rec = l.rec /\ m.seen = l.seen
           /\ m.tries = l.tries /\ m.sub = l.sub /\ m.note = l.note /\ m.pc = l.pc
  BY DEF Locals

\* A reload after a stale compare-and-set uses up one attempt.
LEMMA Reload ==
    ASSUME NEW l \in Locals, l.tries > 0, NEW r \in Record
    PROVE  LET m == [l EXCEPT !.rec = r, !.tries = @ - 1] IN
           /\ m \in Locals /\ m.rec = r /\ m.tries <= l.tries
           /\ m.pc = l.pc /\ m.seen = l.seen /\ m.sub = l.sub /\ m.uid = l.uid
           /\ m.note = l.note
  <1>1. l.tries - 1 \in Nat /\ l.tries - 1 <= l.tries
    BY DEF Locals
  <1> QED
    BY <1>1 DEF Locals

\* A stale handler in a compare-and-set loop goes on with the stored record.
LEMMA ReloadMoves ==
    ASSUME ProxyInv, NEW p \in Handlers,
           h[p].pc \in {"mark", "finish", "intent", "bind"},
           h[p].tries > 0, CasStale(p),
           Become(p, [h[p] EXCEPT !.rec = Stored(p), !.tries = @ - 1]),
           StoreUnchanged, HostsUnchanged, UNCHANGED execs
    PROVE  HandlerMoves(p)
  <1> DEFINE m == [h[p] EXCEPT !.rec = Stored(p), !.tries = @ - 1]
  <1>1. h[p] \in Locals /\ LocalOK(h[p], now, DOMAIN execs)
    BY HandlerFacts
  <1>2. Stored(p) \in Record /\ Known(Stored(p), DOMAIN execs)
    BY StoredRecord DEF CasStale
  <1>3. /\ m \in Locals /\ m.rec = Stored(p) /\ m.tries <= h[p].tries
        /\ m.pc = h[p].pc /\ m.seen = h[p].seen /\ m.sub = h[p].sub /\ m.uid = h[p].uid
        /\ m.note = h[p].note
    BY <1>1, <1>2, Reload
  <1>4. Become(p, m)
    OBVIOUS
  <1> HIDE DEF m
  <1>5. m.tries \in Nat /\ h[p].tries \in Nat /\ MaxCasAttempts \in Nat
    BY <1>1, <1>3, ProxyConstants DEF Locals
  <1>6. LocalOK(m, now, DOMAIN execs)
    BY <1>1, <1>2, <1>3, <1>5 DEF LocalOK
  <1> QED
    BY <1>3, <1>4, <1>6, LocalMove

-----------------------------------------------------------------------------
(* Claim and dispatch.                                                     *)

LEMMA ClaimDispatchMoves ==
    ASSUME ProxyInv, NEW p \in Handlers, ClaimDispatch(p)
    PROVE  HandlerMoves(p)
  <1> DEFINE u == Dispatching(InstanceId(Host(p)))
             r == Successor(h[p].rec, u)
             l == At(p, "cutoff", r)
  <1>1. /\ now \in Nat /\ h \in [Handlers -> Locals] /\ InstanceId(Host(p)) \in Owners
    BY HandlerFacts DEF ProxyInv
  <1>2. h[p].rec \in Record /\ Known(h[p].rec, DOMAIN execs)
    BY Held, RecordPlaces DEF ClaimDispatch
  <1>3. u \in Updates /\ u.upstream = None /\ u.owner \in Owners
    BY <1>1, ProxyUpdates
  <1>4. Cas(p, u) /\ HostsUnchanged /\ UNCHANGED execs
    BY DEF ClaimDispatch
  <1>5. Become(p, l) \/ Become(p, Idle)
    BY DEF ClaimDispatch, Return
  <1> HIDE DEF u
  <1>6. r \in Record /\ Known(r, DOMAIN execs) /\ r.owner \in Owners
    BY <1>2, <1>3, SuccessorKnown
  <1> HIDE DEF r
  <1>7. l \in Locals /\ l.pc = "cutoff" /\ l.rec = r /\ l.seen = 0 /\ l.tries = 0
    <2>1. "cutoff" \in WithRecord
      BY RecordPlaces
    <2> QED
      BY <1>1, <1>6, <2>1, AtLocal
  <1> HIDE DEF l
  <1>8. LocalOK(l, now, DOMAIN execs)
    BY <1>1, <1>6, <1>7, ProxyConstants DEF LocalOK
  <1> QED
    BY <1>1, <1>3, <1>4, <1>5, <1>7, <1>8, IdleLocal, UpdateMove

LEMMA CheckCutoffMoves ==
    ASSUME ProxyInv, NEW p \in Handlers, CheckCutoff(p)
    PROVE  HandlerMoves(p)
  <1>1. h[p] \in Locals /\ LocalOK(h[p], now, DOMAIN execs) /\ h[p].pc = "cutoff"
    BY HandlerFacts DEF CheckCutoff
  <1>2. PICK place \in {"send", "nondispatch"} : Goto(p, place)
    BY DEF CheckCutoff
  <1> DEFINE m == [h[p] EXCEPT !.pc = place]
  <1>3. /\ m \in Locals /\ m.pc = place /\ m.rec = h[p].rec /\ m.seen = h[p].seen
        /\ m.tries = h[p].tries
    <2>1. place \in Places
      BY DEF Places
    <2> QED
      BY <1>1, <2>1, SetPc
  <1>4. Become(p, m)
    BY <1>2 DEF Goto
  <1> HIDE DEF m
  <1>5. LocalOK(m, now, DOMAIN execs)
    <2>1. h[p].rec \in Record /\ Known(h[p].rec, DOMAIN execs)
      BY <1>1, Held, RecordPlaces
    <2> QED
      BY <1>1, <1>3, <2>1 DEF LocalOK
  <1> QED
    BY <1>3, <1>4, <1>5, LocalMove DEF CheckCutoff

LEMMA DispatchMoves ==
    ASSUME ProxyInv, NEW p \in Handlers, Dispatch(p)
    PROVE  HandlerMoves(p)
  <1>1. /\ h[p] \in Locals /\ LocalOK(h[p], now, DOMAIN execs) /\ h[p].pc = "send"
        /\ execs \in Seq(Execution)
    BY HandlerFacts DEF Dispatch, ProxyInv
  <1>2. h[p].rec \in Record /\ Known(h[p].rec, DOMAIN execs) /\ h[p].rec.owner \in Owners
    BY <1>1, Held, RecordPlaces DEF LocalOK
  <1>3. PICK status \in {"working", "lost"} :
          execs' = Append(execs,
            [route |-> h[p].rec.id, sub |-> Submission(h[p].rec),
             session |-> h[p].rec.session, owner |-> h[p].rec.owner,
             status |-> status, acked |-> FALSE, bound |-> FALSE,
             cancel |-> "none"])
    BY DEF Dispatch
  <1>4. Submission(h[p].rec) \in Submissions
    BY <1>2, ProxyConstants DEF Submission, Record
  <1>5. [route |-> h[p].rec.id, sub |-> Submission(h[p].rec),
         session |-> h[p].rec.session, owner |-> h[p].rec.owner,
         status |-> status, acked |-> FALSE, bound |-> FALSE,
         cancel |-> "none"] \in Execution
    BY <1>2, <1>4 DEF Execution, Record, Statuses
  <1>6. /\ execs' \in Seq(Execution)
        /\ DOMAIN execs \subseteq DOMAIN execs'
        /\ Len(execs) + 1 \in DOMAIN execs' /\ Len(execs) + 1 \in Nat
    BY <1>1, <1>3, <1>5
  <1> DEFINE a == [h[p] EXCEPT !.pc = "await"]
             l == [a EXCEPT !.uid = Len(execs) + 1]
  <1>7. /\ a \in Locals /\ a.pc = "await" /\ a.rec = h[p].rec /\ a.seen = h[p].seen
        /\ a.tries = h[p].tries
    <2>1. "await" \in Places
      BY DEF Places
    <2> QED
      BY <1>1, <2>1, SetPc
  <1>8. Become(p, l)
    BY DEF Dispatch
  <1> HIDE DEF a
  <1>9. /\ l \in Locals /\ l.pc = "await" /\ l.rec = h[p].rec /\ l.seen = h[p].seen
        /\ l.tries = h[p].tries /\ l.uid = Len(execs) + 1
    BY <1>6, <1>7, SetUid
  <1> HIDE DEF l
  <1>10. LocalOK(l, now, DOMAIN execs')
    BY <1>1, <1>2, <1>6, <1>9 DEF LocalOK, Known
  <1>11. [StoreNext]_routes /\ RoutesKnown'
    BY <1>6, Stutter DEF ProxyInv, Dispatch, StoreUnchanged
  <1> QED
    BY <1>6, <1>8, <1>9, <1>10, <1>11
    DEF HandlerMoves, Become, Dispatch, HostsUnchanged, ProxyInv

LEMMA DispatchRefusedMoves ==
    ASSUME ProxyInv, NEW p \in Handlers, DispatchRefused(p)
    PROVE  HandlerMoves(p)
  <1>1. now \in Nat /\ h \in [Handlers -> Locals]
    BY HandlerFacts DEF ProxyInv
  <1>2. h[p].rec \in Record /\ Known(h[p].rec, DOMAIN execs)
    BY Held, RecordPlaces DEF DispatchRefused
  <1> QED
    BY <1>1, <1>2, PlainLocal, LocalMove DEF DispatchRefused, Plain

-----------------------------------------------------------------------------
(* The answer to a dispatch.                                               *)

LEMMA ResponseAmbiguousMoves ==
    ASSUME ProxyInv, NEW p \in Handlers, ResponseAmbiguous(p)
    PROVE  HandlerMoves(p)
  <1>1. now \in Nat /\ h \in [Handlers -> Locals]
    BY HandlerFacts DEF ProxyInv
  <1>2. h[p].rec \in Record /\ Known(h[p].rec, DOMAIN execs)
    BY Held, RecordPlaces DEF ResponseAmbiguous
  <1> QED
    BY <1>1, <1>2, PlainLocal, LocalMove DEF ResponseAmbiguous, Plain

\* What a handler that awaits an answer knows.
LEMMA Awaiting ==
    ASSUME ProxyInv, NEW p \in Handlers, h[p].pc = "await"
    PROVE  /\ now \in Nat /\ h \in [Handlers -> Locals]
           /\ h[p].rec \in Record /\ Known(h[p].rec, DOMAIN execs)
           /\ h[p].uid \in DOMAIN execs /\ h[p].uid \in Nat
           /\ execs \in Seq(Execution)
  <1>1. /\ now \in Nat /\ LocalOK(h[p], now, DOMAIN execs)
    BY HandlerFacts
  <1>2. h[p].rec \in Record /\ Known(h[p].rec, DOMAIN execs)
    BY Held, RecordPlaces
  <1>3. h[p].uid \in DOMAIN execs /\ execs \in Seq(Execution)
    BY <1>1 DEF LocalOK, ProxyInv
  <1> QED
    BY <1>1, <1>2, <1>3 DEF ProxyInv

LEMMA ResponseTaskMoves ==
    ASSUME ProxyInv, NEW p \in Handlers, ResponseTask(p)
    PROVE  HandlerMoves(p)
  <1>1. /\ now \in Nat /\ h \in [Handlers -> Locals]
        /\ h[p].rec \in Record /\ Known(h[p].rec, DOMAIN execs)
        /\ h[p].uid \in DOMAIN execs /\ h[p].uid \in Nat
        /\ execs \in Seq(Execution)
    BY Awaiting DEF ResponseTask
  <1>2. execs' \in Seq(Execution) /\ DOMAIN execs' = DOMAIN execs
    BY <1>1, ExecUpdates DEF ResponseTask
  <1>3. PICK note \in {"ack", "nack"} :
          Become(p, [Loop(p, "bind", h[p].rec) EXCEPT !.note = note, !.uid = h[p].uid])
    BY DEF ResponseTask
  <1> DEFINE a == Loop(p, "bind", h[p].rec)
             b == [a EXCEPT !.note = note]
             l == [b EXCEPT !.uid = h[p].uid]
  <1>4. /\ a \in Locals /\ a.pc = "bind" /\ a.rec = h[p].rec /\ a.seen = 0
        /\ a.tries = MaxCasAttempts
    <2>1. "bind" \in WithRecord
      BY RecordPlaces
    <2> QED
      BY <1>1, <2>1, AtLocal
  <1>5. Become(p, l)
    BY <1>3
  <1> HIDE DEF a
  <1>6. /\ b \in Locals /\ b.pc = "bind" /\ b.rec = h[p].rec /\ b.seen = 0
        /\ b.tries = MaxCasAttempts
    BY <1>4, SetNote
  <1> HIDE DEF b
  <1>7. /\ l \in Locals /\ l.pc = "bind" /\ l.rec = h[p].rec /\ l.seen = 0
        /\ l.tries = MaxCasAttempts /\ l.uid = h[p].uid
    BY <1>1, <1>6, SetUid
  <1> HIDE DEF l
  <1>8. LocalOK(l, now, DOMAIN execs)
    BY <1>1, <1>7, ProxyConstants DEF LocalOK
  <1> QED
    BY <1>2, <1>5, <1>7, <1>8, ExecMove DEF ResponseTask

LEMMA ResponseBadIdMoves ==
    ASSUME ProxyInv, NEW p \in Handlers, ResponseBadId(p)
    PROVE  HandlerMoves(p)
  <1>1. /\ now \in Nat /\ h \in [Handlers -> Locals]
        /\ h[p].rec \in Record /\ Known(h[p].rec, DOMAIN execs)
        /\ h[p].uid \in DOMAIN execs
        /\ execs \in Seq(Execution)
    BY Awaiting DEF ResponseBadId
  <1>4. execs' \in Seq(Execution) /\ DOMAIN execs' = DOMAIN execs
    BY <1>1, TryCancelKeeps DEF ResponseBadId
  <1>5. /\ Loop(p, "mark", h[p].rec) \in Locals
        /\ LocalOK(Loop(p, "mark", h[p].rec), now, DOMAIN execs)
    BY <1>1, PlainLocal DEF Plain
  <1> QED
    BY <1>4, <1>5, ExecMove DEF ResponseBadId

LEMMA ResponseCompleteMoves ==
    ASSUME ProxyInv, NEW p \in Handlers, ResponseComplete(p)
    PROVE  HandlerMoves(p)
  <1>1. /\ now \in Nat /\ h \in [Handlers -> Locals]
        /\ h[p].rec \in Record /\ Known(h[p].rec, DOMAIN execs)
        /\ h[p].uid \in DOMAIN execs
        /\ execs \in Seq(Execution)
    BY Awaiting DEF ResponseComplete
  <1>2. "completed" \in Statuses
    BY DEF Statuses, TerminalStatus
  <1>3. execs' \in Seq(Execution) /\ DOMAIN execs' = DOMAIN execs
    BY <1>1, <1>2, ExecUpdates DEF ResponseComplete
  <1>4. PICK verdict \in {"completed", "rejected"} :
          Become(p, [Loop(p, "finish", h[p].rec) EXCEPT !.note = verdict])
    BY DEF ResponseComplete
  <1> DEFINE a == Loop(p, "finish", h[p].rec)
             l == [a EXCEPT !.note = verdict]
  <1>5. /\ a \in Locals /\ a.pc = "finish" /\ a.rec = h[p].rec /\ a.seen = 0
        /\ a.tries = MaxCasAttempts
    <2>1. "finish" \in WithRecord
      BY RecordPlaces
    <2> QED
      BY <1>1, <2>1, AtLocal
  <1>6. Become(p, l) /\ verdict \in Verdicts
    BY <1>4, ProxyConstants
  <1> HIDE DEF a
  <1>7. /\ l \in Locals /\ l.pc = "finish" /\ l.rec = h[p].rec /\ l.seen = 0
        /\ l.tries = MaxCasAttempts /\ l.note = verdict
    BY <1>5, <1>6, SetNote
  <1> HIDE DEF l
  <1>8. LocalOK(l, now, DOMAIN execs)
    BY <1>1, <1>6, <1>7, ProxyConstants DEF LocalOK
  <1> QED
    BY <1>3, <1>6, <1>7, <1>8, ExecMove DEF ResponseComplete

-----------------------------------------------------------------------------
(* Compare-and-set loops.                                                  *)

LEMMA BindUpstreamTaskMoves ==
    ASSUME ProxyInv, NEW p \in Handlers, BindUpstreamTask(p)
    PROVE  HandlerMoves(p)
  <1> DEFINE u == BindUpdate(p)
             r == Successor(h[p].rec, u)
             l == Loop(p, "intent", r)
  <1>1. /\ now \in Nat /\ h \in [Handlers -> Locals] /\ execs \in Seq(Execution)
        /\ LocalOK(h[p], now, DOMAIN execs) /\ h[p].pc = "bind"
    BY HandlerFacts DEF ProxyInv, BindUpstreamTask
  <1>2. h[p].rec \in Record /\ Known(h[p].rec, DOMAIN execs)
    BY <1>1, Held, RecordPlaces
  <1>3. h[p].uid \in DOMAIN execs /\ h[p].uid \in Nat
    BY <1>1 DEF LocalOK
  <1>4. u \in Updates /\ u.upstream \in DOMAIN execs
    BY <1>3, ProxyUpdates DEF BindUpdate
  <1>5. execs' \in Seq(Execution) /\ DOMAIN execs' = DOMAIN execs
    BY <1>1, <1>3, ExecUpdates DEF BindUpstreamTask
  <1>6. Become(p, l) \/ Become(p, Idle)
    BY DEF BindUpstreamTask
  <1>7. Cas(p, u)
    BY DEF BindUpstreamTask
  <1> HIDE DEF u
  <1>8. r \in Record /\ Known(r, DOMAIN execs)
    BY <1>2, <1>4, SuccessorKnown
  <1> HIDE DEF r
  <1>9. l \in Locals /\ LocalOK(l, now, DOMAIN execs)
    BY <1>1, <1>8, PlainLocal DEF Plain
  <1> HIDE DEF l
  <1>10. [StoreNext]_routes /\ RoutesKnown'
    BY <1>4, <1>5, <1>7, CasMove DEF ProxyInv
  <1>11. PICK m \in Locals : Become(p, m) /\ LocalOK(m, now, DOMAIN execs)
    BY <1>1, <1>6, <1>9, IdleLocal
  <1> QED
    BY <1>5, <1>10, <1>11
    DEF HandlerMoves, Become, BindUpstreamTask, HostsUnchanged, ProxyInv

LEMMA BindStaleMoves ==
    ASSUME ProxyInv, NEW p \in Handlers, BindStale(p)
    PROVE  HandlerMoves(p)
  BY ReloadMoves DEF BindStale

LEMMA BindFailsMoves ==
    ASSUME ProxyInv, NEW p \in Handlers, BindFails(p)
    PROVE  HandlerMoves(p)
  <1> DEFINE a == At(p, "orphan", h[p].rec)
             l == [a EXCEPT !.uid = h[p].uid]
  <1>1. /\ now \in Nat /\ h \in [Handlers -> Locals] /\ execs \in Seq(Execution)
        /\ LocalOK(h[p], now, DOMAIN execs) /\ h[p].pc = "bind"
    BY HandlerFacts DEF ProxyInv, BindFails
  <1>2. h[p].rec \in Record /\ Known(h[p].rec, DOMAIN execs)
    BY <1>1, Held, RecordPlaces
  <1>3. h[p].uid \in DOMAIN execs /\ h[p].uid \in Nat
    BY <1>1 DEF LocalOK
  <1>4. a \in Locals /\ a.pc = "orphan" /\ a.rec = h[p].rec /\ a.seen = 0 /\ a.tries = 0
    <2>1. "orphan" \in WithRecord
      BY RecordPlaces
    <2> QED
      BY <1>1, <1>2, <2>1, AtLocal
  <1>5. Become(p, l)
    BY DEF BindFails
  <1> HIDE DEF a
  <1>6. /\ l \in Locals /\ l.pc = "orphan" /\ l.rec = h[p].rec /\ l.seen = 0
        /\ l.tries = 0 /\ l.uid = h[p].uid
    BY <1>3, <1>4, SetUid
  <1> HIDE DEF l
  <1>7. LocalOK(l, now, DOMAIN execs)
    BY <1>1, <1>2, <1>3, <1>6, ProxyConstants DEF LocalOK
  <1> QED
    BY <1>5, <1>6, <1>7, LocalMove DEF BindFails

LEMMA AfterUpdateLocal ==
    ASSUME ProxyInv, NEW p \in Handlers, NEW r \in Record, Known(r, DOMAIN execs)
    PROVE  /\ AfterUpdate(p, r) \in Locals
           /\ LocalOK(AfterUpdate(p, r), now, DOMAIN execs)
  <1> DEFINE l == At(p, "cancel", r)
  <1>1. now \in Nat /\ h \in [Handlers -> Locals]
    BY HandlerFacts DEF ProxyInv
  <1>2. AfterUpdate(p, r) = Idle \/ (AfterUpdate(p, r) = l /\ r.upstream # None)
    BY DEF AfterUpdate
  <1>3. l \in Locals /\ l.pc = "cancel" /\ l.rec = r /\ l.seen = 0 /\ l.tries = 0
    <2>1. "cancel" \in WithRecord
      BY RecordPlaces
    <2> QED
      BY <1>1, <2>1, AtLocal
  <1> HIDE DEF l
  <1>4. r.upstream # None => LocalOK(l, now, DOMAIN execs)
    BY <1>1, <1>3, ProxyConstants DEF LocalOK
  <1> QED
    BY <1>1, <1>2, <1>3, <1>4, IdleLocal

LEMMA UpdateLoopMoves ==
    ASSUME ProxyInv, NEW p \in Handlers, NEW place \in {"mark", "finish", "intent"},
           NEW u \in Updates, u.upstream = None, NEW settled,
           UpdateLoop(p, place, u, settled)
    PROVE  HandlerMoves(p)
  <1> DEFINE r == Successor(h[p].rec, u)
  <1>1. now \in Nat /\ h[p].pc = place /\ HostsUnchanged /\ UNCHANGED execs
    BY HandlerFacts DEF UpdateLoop
  <1>2. h[p].rec \in Record /\ Known(h[p].rec, DOMAIN execs)
    BY <1>1, Held, RecordPlaces
  <1>3. r \in Record /\ Known(r, DOMAIN execs)
    BY <1>2, SuccessorKnown
  <1>4. CASE Become(p, AfterUpdate(p, h[p].rec)) /\ StoreUnchanged
    BY <1>1, <1>2, <1>4, AfterUpdateLocal, LocalMove
  <1>5. CASE Cas(p, u) /\ Become(p, IF h[p].tries > 1 THEN AfterUpdate(p, r) ELSE Idle)
    <2> DEFINE l == IF h[p].tries > 1 THEN AfterUpdate(p, r) ELSE Idle
    <2> HIDE DEF r
    <2>1. l \in Locals /\ LocalOK(l, now, DOMAIN execs)
      BY <1>1, <1>3, AfterUpdateLocal, IdleLocal
    <2> HIDE DEF l
    <2> QED
      BY <1>1, <1>5, <2>1, UpdateMove DEF l
  <1>6. CASE /\ h[p].tries > 0 /\ CasStale(p) /\ StoreUnchanged
             /\ Become(p, [h[p] EXCEPT !.rec = Stored(p), !.tries = @ - 1])
    BY <1>1, <1>6, ReloadMoves
  <1>7. CASE Return(p) /\ StoreUnchanged
    BY <1>1, <1>7, IdleLocal, LocalMove DEF Return
  <1> HIDE DEF r
  <1> QED
    BY <1>4, <1>5, <1>6, <1>7 DEF UpdateLoop, r

LEMMA MarkMoves ==
    ASSUME ProxyInv, NEW p \in Handlers, MarkReconciliationRequired(p)
    PROVE  HandlerMoves(p)
  BY ProxyUpdates, UpdateLoopMoves DEF MarkReconciliationRequired

LEMMA FinishTerminalMoves ==
    ASSUME ProxyInv, NEW p \in Handlers, FinishTerminal(p)
    PROVE  HandlerMoves(p)
  <1>1. h[p].note \in Verdicts
    BY HandlerFacts DEF LocalOK, FinishTerminal, UpdateLoop
  <1>2. Terminal(h[p].note) \in Updates /\ Terminal(h[p].note).upstream = None
    BY <1>1, ProxyUpdates
  <1> QED
    BY <1>2, UpdateLoopMoves DEF FinishTerminal

LEMMA IntentMoves ==
    ASSUME ProxyInv, NEW p \in Handlers, PersistCancellationIntent(p)
    PROVE  HandlerMoves(p)
  BY ProxyUpdates, UpdateLoopMoves DEF PersistCancellationIntent

LEMMA FinishNonDispatchMoves ==
    ASSUME ProxyInv, NEW p \in Handlers, FinishNonDispatchOnce(p)
    PROVE  HandlerMoves(p)
  <1>1. Terminal("not_dispatched") \in Updates /\ Terminal("not_dispatched").upstream = None
    BY ProxyConstants, ProxyUpdates
  <1>2. now \in Nat
    BY HandlerFacts
  <1> QED
    BY <1>1, <1>2, IdleLocal, UpdateMove DEF FinishNonDispatchOnce, Return

-----------------------------------------------------------------------------
(* Cancellation messages, get_task and cancel_task.                        *)

LEMMA CancelUpstreamMoves ==
    ASSUME ProxyInv, NEW p \in Handlers, CancelUpstream(p)
    PROVE  HandlerMoves(p)
  <1>1. now \in Nat /\ h[p].rec.upstream \in DOMAIN execs
    BY HandlerFacts, Held, RecordPlaces DEF CancelUpstream, LocalOK, Known
  <1> QED
    BY <1>1, TryCancelKeeps, IdleLocal, ExecMove DEF CancelUpstream, Return

LEMMA CancelOrphanMoves ==
    ASSUME ProxyInv, NEW p \in Handlers, CancelOrphan(p)
    PROVE  HandlerMoves(p)
  <1>1. now \in Nat /\ h[p].uid \in DOMAIN execs
    BY HandlerFacts DEF CancelOrphan, LocalOK
  <1> QED
    BY <1>1, TryCancelKeeps, IdleLocal, ExecMove DEF CancelOrphan, Return

LEMMA RequestTaskMoves ==
    ASSUME ProxyInv, NEW p \in Handlers, NEW op \in {"get", "cancel"},
           NEW caller \in Callers, NEW id \in 1 .. minted, RequestTask(p, op, caller, id)
    PROVE  HandlerMoves(p)
  <1> DEFINE ref == [caller |-> caller, id |-> id]
             l == [Idle EXCEPT !.pc = "lock", !.op = op, !.rec = ref]
  <1>1. ref \in [caller : Callers, id : 1 .. MaxRoutes]
    BY ProxyConstants DEF ProxyInv
  <1>2. now \in Nat
    BY HandlerFacts
  <1>3. Become(p, l)
    BY DEF RequestTask
  <1> HIDE DEF ref
  <1>4. l \in Locals /\ l.pc = "lock" /\ l.seen = 0 /\ l.tries = 0
    BY <1>1, IdleLocal DEF Locals, Places
  <1> HIDE DEF l
  <1>5. LocalOK(l, now, DOMAIN execs)
    BY <1>2, <1>4, ProxyConstants DEF LocalOK, WithRecord
  <1> QED
    BY <1>3, <1>4, <1>5, LocalMove DEF RequestTask

LEMMA ReadRouteMoves ==
    ASSUME ProxyInv, NEW p \in Handlers, ReadRoute(p)
    PROVE  HandlerMoves(p)
  <1> DEFINE r == Stored(p)
             a == At(p, "decide", r)
             l == [a EXCEPT !.seen = now]
  <1>1. now \in Nat /\ h \in [Handlers -> Locals]
    BY HandlerFacts DEF ProxyInv
  <1>2. CASE Become(p, Idle)
    BY <1>1, <1>2, IdleLocal, LocalMove DEF ReadRoute
  <1>3. CASE r # None /\ Become(p, l)
    <2>1. r \in Record /\ Known(r, DOMAIN execs)
      BY <1>3, StoredRecord
    <2> HIDE DEF r
    <2>2. a \in Locals /\ a.pc = "decide" /\ a.rec = r /\ a.seen = 0 /\ a.tries = 0
      <3>1. "decide" \in WithRecord
        BY RecordPlaces
      <3> QED
        BY <1>1, <2>1, <3>1, AtLocal
    <2> HIDE DEF a
    <2>3. l \in Locals /\ l.pc = "decide" /\ l.rec = r /\ l.seen = now /\ l.tries = 0
      BY <1>1, <2>2 DEF Locals
    <2> HIDE DEF l
    <2>4. LocalOK(l, now, DOMAIN execs)
      BY <1>1, <2>1, <2>3, ProxyConstants DEF LocalOK
    <2> QED
      BY <1>3, <2>3, <2>4, LocalMove DEF ReadRoute
  <1>4. CASE r # None /\ Become(p, Loop(p, "intent", r))
    <2>1. r \in Record /\ Known(r, DOMAIN execs)
      BY <1>4, StoredRecord
    <2>2. /\ Loop(p, "intent", r) \in Locals
          /\ LocalOK(Loop(p, "intent", r), now, DOMAIN execs)
      BY <1>1, <2>1, PlainLocal DEF Plain
    <2> QED
      BY <1>4, <2>2, LocalMove DEF ReadRoute
  <1> QED
    BY <1>2, <1>3, <1>4 DEF ReadRoute

\* Places that need an upstream task and nothing else.
LEMMA BoundLocal ==
    ASSUME ProxyInv, NEW p \in Handlers, NEW place \in {"retry", "poll"},
           NEW r \in Record, Known(r, DOMAIN execs), r.upstream # None
    PROVE  At(p, place, r) \in Locals /\ LocalOK(At(p, place, r), now, DOMAIN execs)
  <1> DEFINE l == At(p, place, r)
  <1>1. now \in Nat /\ h \in [Handlers -> Locals]
    BY HandlerFacts DEF ProxyInv
  <1>2. l \in Locals /\ l.pc = place /\ l.rec = r /\ l.seen = 0 /\ l.tries = 0
    <2>1. place \in WithRecord
      BY RecordPlaces
    <2> QED
      BY <1>1, <2>1, AtLocal
  <1> HIDE DEF l
  <1>3. LocalOK(l, now, DOMAIN execs)
    BY <1>1, <1>2, ProxyConstants DEF LocalOK
  <1> QED
    BY <1>2, <1>3 DEF l

LEMMA DecideMoves ==
    ASSUME ProxyInv, NEW p \in Handlers, Decide(p)
    PROVE  HandlerMoves(p)
  <1> DEFINE r == h[p].rec
  <1>1. now \in Nat /\ h \in [Handlers -> Locals]
    BY HandlerFacts DEF ProxyInv
  <1>2. r \in Record /\ Known(r, DOMAIN execs)
    BY Held, RecordPlaces DEF Decide
  <1>3. \/ Become(p, Idle)
        \/ Become(p, Loop(p, "mark", r))
        \/ Become(p, Loop(p, "intent", r))
        \/ Become(p, At(p, "nondispatch", r))
        \/ r.upstream # None /\ Become(p, At(p, "retry", r))
        \/ r.upstream # None /\ Become(p, At(p, "poll", r))
    BY DEF Decide
  <1>4. \A l \in {Idle, Loop(p, "mark", r), Loop(p, "intent", r), At(p, "nondispatch", r)} :
           l \in Locals /\ LocalOK(l, now, DOMAIN execs)
    BY <1>1, <1>2, PlainLocal, IdleLocal DEF Plain
  <1>5. r.upstream # None =>
           \A l \in {At(p, "retry", r), At(p, "poll", r)} :
              l \in Locals /\ LocalOK(l, now, DOMAIN execs)
    BY <1>2, BoundLocal
  <1> QED
    BY <1>3, <1>4, <1>5, LocalMove DEF Decide

LEMMA RetryCancelMoves ==
    ASSUME ProxyInv, NEW p \in Handlers, RetryCancel(p)
    PROVE  HandlerMoves(p)
  <1> DEFINE m == [h[p] EXCEPT !.pc = "poll"]
  <1>1. h[p] \in Locals /\ LocalOK(h[p], now, DOMAIN execs) /\ h[p].pc = "retry"
    BY HandlerFacts DEF RetryCancel
  <1>2. h[p].rec \in Record /\ Known(h[p].rec, DOMAIN execs) /\ h[p].rec.upstream # None
    BY <1>1, Held, RecordPlaces DEF LocalOK
  <1>3. /\ m \in Locals /\ m.pc = "poll" /\ m.rec = h[p].rec /\ m.seen = h[p].seen
        /\ m.tries = h[p].tries
    <2>1. "poll" \in Places
      BY DEF Places
    <2> QED
      BY <1>1, <2>1, SetPc
  <1>4. Become(p, m)
    BY DEF RetryCancel, Goto
  <1> HIDE DEF m
  <1>5. LocalOK(m, now, DOMAIN execs)
    BY <1>1, <1>2, <1>3 DEF LocalOK
  <1>6. h[p].rec.upstream \in DOMAIN execs
    BY <1>2 DEF Known
  <1>7. execs' \in Seq(Execution) /\ DOMAIN execs' = DOMAIN execs
    BY <1>6, TryCancelKeeps DEF RetryCancel
  <1> QED
    BY <1>3, <1>4, <1>5, <1>7, ExecMove DEF RetryCancel

\* Places that carry an answer of the upstream.
LEMMA NotedLocal ==
    ASSUME ProxyInv, NEW p \in Handlers, NEW place \in {"polled", "reroute"},
           NEW r \in Record, Known(r, DOMAIN execs), r.upstream # None,
           NEW note \in Statuses
    PROVE  /\ [At(p, place, r) EXCEPT !.note = note] \in Locals
           /\ LocalOK([At(p, place, r) EXCEPT !.note = note], now, DOMAIN execs)
  <1> DEFINE a == At(p, place, r)
             l == [a EXCEPT !.note = note]
  <1>1. now \in Nat /\ h \in [Handlers -> Locals]
    BY HandlerFacts DEF ProxyInv
  <1>2. a \in Locals /\ a.pc = place /\ a.rec = r /\ a.seen = 0 /\ a.tries = 0
    <2>1. place \in WithRecord
      BY RecordPlaces
    <2> QED
      BY <1>1, <2>1, AtLocal
  <1> HIDE DEF a
  <1>3. /\ l \in Locals /\ l.pc = place /\ l.rec = r /\ l.seen = 0 /\ l.tries = 0
        /\ l.note = note
    BY <1>2, SetNote
  <1> HIDE DEF l
  <1>4. LocalOK(l, now, DOMAIN execs)
    BY <1>1, <1>3, ProxyConstants DEF LocalOK
  <1> QED
    BY <1>3, <1>4 DEF l, a

\* The head of finish_terminal with a verdict to write.
LEMMA FinishLocal ==
    ASSUME ProxyInv, NEW p \in Handlers, NEW r \in Record, Known(r, DOMAIN execs),
           NEW verdict \in Verdicts
    PROVE  /\ [Loop(p, "finish", r) EXCEPT !.note = verdict] \in Locals
           /\ LocalOK([Loop(p, "finish", r) EXCEPT !.note = verdict], now, DOMAIN execs)
  <1> DEFINE a == Loop(p, "finish", r)
             l == [a EXCEPT !.note = verdict]
  <1>1. now \in Nat /\ h \in [Handlers -> Locals]
    BY HandlerFacts DEF ProxyInv
  <1>2. a \in Locals /\ a.pc = "finish" /\ a.rec = r /\ a.seen = 0
        /\ a.tries = MaxCasAttempts
    <2>1. "finish" \in WithRecord
      BY RecordPlaces
    <2> QED
      BY <1>1, <2>1, AtLocal
  <1> HIDE DEF a
  <1>3. /\ l \in Locals /\ l.pc = "finish" /\ l.rec = r /\ l.seen = 0
        /\ l.tries = MaxCasAttempts /\ l.note = verdict
    BY <1>2, SetNote
  <1> HIDE DEF l
  <1>4. LocalOK(l, now, DOMAIN execs)
    BY <1>1, <1>3, ProxyConstants DEF LocalOK
  <1> QED
    BY <1>3, <1>4 DEF l, a

LEMMA PollUpstreamMoves ==
    ASSUME ProxyInv, NEW p \in Handlers, PollUpstream(p)
    PROVE  HandlerMoves(p)
  <1>1. /\ LocalOK(h[p], now, DOMAIN execs) /\ h[p].pc = "poll"
        /\ execs \in Seq(Execution)
    BY HandlerFacts DEF PollUpstream, ProxyInv
  <1>2. h[p].rec \in Record /\ Known(h[p].rec, DOMAIN execs) /\ h[p].rec.upstream # None
    BY <1>1, Held, RecordPlaces DEF LocalOK
  <1>3. execs[h[p].rec.upstream] \in Execution
    BY <1>1, <1>2 DEF Known
  <1>4. execs[h[p].rec.upstream].status \in Statuses
    BY <1>3 DEF Execution
  <1> QED
    BY <1>2, <1>4, NotedLocal, LocalMove DEF PollUpstream

LEMMA PollFailsMoves ==
    ASSUME ProxyInv, NEW p \in Handlers, PollFails(p)
    PROVE  HandlerMoves(p)
  <1>1. now \in Nat /\ h \in [Handlers -> Locals]
    BY HandlerFacts DEF ProxyInv
  <1>2. h[p].rec \in Record /\ Known(h[p].rec, DOMAIN execs)
    BY Held, RecordPlaces DEF PollFails
  <1>3. \A place \in {"mark", "intent"} :
           /\ Loop(p, place, h[p].rec) \in Locals
           /\ LocalOK(Loop(p, place, h[p].rec), now, DOMAIN execs)
    BY <1>1, <1>2, PlainLocal DEF Plain
  <1> QED
    BY <1>3, LocalMove DEF PollFails

LEMMA PolledMoves ==
    ASSUME ProxyInv, NEW p \in Handlers, Polled(p)
    PROVE  HandlerMoves(p)
  <1> DEFINE r == h[p].rec
             finish(v) == [Loop(p, "finish", r) EXCEPT !.note = v]
             reroute == [At(p, "reroute", r) EXCEPT !.note = h[p].note]
  <1>1. /\ now \in Nat /\ h \in [Handlers -> Locals]
        /\ LocalOK(h[p], now, DOMAIN execs) /\ h[p].pc = "polled"
    BY HandlerFacts DEF ProxyInv, Polled
  <1>2. r \in Record /\ Known(r, DOMAIN execs) /\ r.upstream # None /\ h[p].note \in Statuses
    BY <1>1, Held, RecordPlaces DEF LocalOK
  <1>3. \/ Become(p, finish("rejected"))
        \/ Become(p, Loop(p, "intent", r))
        \/ Become(p, reroute)
        \/ h[p].note \in TerminalStatus /\ Become(p, finish(h[p].note))
        \/ Become(p, Idle)
    BY DEF Polled
  <1>4. "rejected" \in Verdicts /\ (h[p].note \in TerminalStatus => h[p].note \in Verdicts)
    BY ProxyConstants DEF TerminalStatus
  <1>5. \A v \in Verdicts : finish(v) \in Locals /\ LocalOK(finish(v), now, DOMAIN execs)
    BY <1>2, FinishLocal
  <1>6. reroute \in Locals /\ LocalOK(reroute, now, DOMAIN execs)
    BY <1>2, NotedLocal
  <1>7. /\ Loop(p, "intent", r) \in Locals
        /\ LocalOK(Loop(p, "intent", r), now, DOMAIN execs)
    BY <1>1, <1>2, PlainLocal DEF Plain
  <1> HIDE DEF finish, reroute
  <1> QED
    BY <1>1, <1>3, <1>4, <1>5, <1>6, <1>7, IdleLocal, LocalMove DEF Polled

LEMMA RerouteMoves ==
    ASSUME ProxyInv, NEW p \in Handlers, Reroute(p)
    PROVE  HandlerMoves(p)
  <1> DEFINE u == Routed(h[p].rec.upstream)
             active == IF CasOk(p, u) THEN Successor(h[p].rec, u) ELSE Stored(p)
             l == [Loop(p, "finish", active) EXCEPT !.note = h[p].note]
  <1>1. /\ now \in Nat /\ LocalOK(h[p], now, DOMAIN execs) /\ h[p].pc = "reroute"
        /\ execs \in Seq(Execution)
    BY HandlerFacts DEF ProxyInv, Reroute
  <1>2. h[p].rec \in Record /\ Known(h[p].rec, DOMAIN execs) /\ h[p].rec.upstream # None
    BY <1>1, Held, RecordPlaces DEF LocalOK
  <1>3. h[p].rec.upstream \in DOMAIN execs /\ h[p].rec.upstream \in Nat
    BY <1>1, <1>2 DEF Known
  <1>4. u \in Updates /\ u.upstream \in DOMAIN execs
    BY <1>3, ProxyUpdates
  <1>5. Cas(p, u) /\ HostsUnchanged /\ UNCHANGED execs
    BY DEF Reroute
  <1>6. \/ Become(p, Idle)
        \/ /\ CasOk(p, u) \/ CasStale(p)
           /\ h[p].note \in TerminalStatus
           /\ Become(p, l)
    BY DEF Reroute, Return
  <1> HIDE DEF u
  <1>7. CASE Become(p, Idle)
    BY <1>1, <1>4, <1>5, <1>7, IdleLocal, UpdateMove
  <1>8. CASE /\ CasOk(p, u) \/ CasStale(p)
             /\ h[p].note \in TerminalStatus
             /\ Become(p, l)
    <2>1. Successor(h[p].rec, u) \in Record /\ Known(Successor(h[p].rec, u), DOMAIN execs)
      BY <1>2, <1>4, SuccessorKnown
    <2>2. active \in Record /\ Known(active, DOMAIN execs)
      BY <1>8, <2>1, StoredRecord DEF CasStale
    <2>3. h[p].note \in Verdicts
      BY <1>8, ProxyConstants DEF TerminalStatus
    <2> HIDE DEF active
    <2>4. l \in Locals /\ LocalOK(l, now, DOMAIN execs)
      BY <2>2, <2>3, FinishLocal
    <2> HIDE DEF l
    <2> QED
      BY <1>4, <1>5, <1>8, <2>4, UpdateMove
  <1> QED
    BY <1>6, <1>7, <1>8

-----------------------------------------------------------------------------
(* Every step keeps the invariant and is a step of the table.              *)

LEMMA EveryHandlerMoves ==
    ASSUME ProxyInv, NEW p \in Handlers, Request(p) \/ ReadRoute(p) \/ HandlerStep(p)
    PROVE  HandlerMoves(p)
  <1>1. CASE Request(p)
    BY <1>1, SubmitModeMoves, RequestTaskMoves DEF Request
  <1>2. CASE ReadRoute(p)
    BY <1>2, ReadRouteMoves
  <1>3. CASE HandlerStep(p)
    BY <1>3, RecoverMoves, RecheckMoves, BeginMoves, ExistingMoves, ClaimDispatchMoves,
       CheckCutoffMoves, DispatchMoves, DispatchRefusedMoves, ResponseAmbiguousMoves,
       ResponseTaskMoves, ResponseBadIdMoves, ResponseCompleteMoves,
       BindUpstreamTaskMoves, BindStaleMoves, BindFailsMoves, MarkMoves,
       FinishTerminalMoves, IntentMoves, FinishNonDispatchMoves, CancelUpstreamMoves,
       CancelOrphanMoves, DecideMoves, RetryCancelMoves, PollUpstreamMoves,
       PollFailsMoves, PolledMoves, RerouteMoves
    DEF HandlerStep
  <1> QED
    BY <1>1, <1>2, <1>3

LEMMA HandlerMoveKeepsInv ==
    ASSUME ProxyInv, NEW p \in Handlers, HandlerMoves(p)
    PROVE  ProxyInv'
  <1>1. TypeOK'
    BY StepKeepsType DEF ProxyInv, HandlerMoves
  <1>2. PICK l \in Locals : /\ h' = [h EXCEPT ![p] = l]
                            /\ LocalOK(l, now, DOMAIN execs')
    BY DEF HandlerMoves
  <1>3. now \in Nat /\ now' = now /\ DOMAIN execs \subseteq DOMAIN execs'
    BY HandlerFacts DEF HandlerMoves
  <1>4. ASSUME NEW q \in Handlers PROVE LocalOK(h'[q], now', DOMAIN execs')
    <2>1. CASE q = p
      BY <1>2, <1>3, <2>1 DEF ProxyInv
    <2>2. CASE q # p
      <3>1. h'[q] = h[q]
        BY <1>2, <2>2 DEF ProxyInv
      <3>2. h[q] \in Locals /\ LocalOK(h[q], now, DOMAIN execs)
        BY HandlerFacts
      <3>3. LocalOK(h[q], now, DOMAIN execs')
        BY <1>3, <3>2, LocalGrows
      <3> QED
        BY <1>3, <3>1, <3>3
    <2> QED
      BY <2>1, <2>2
  <1>5. h' \in [Handlers -> Locals]
    BY <1>2 DEF ProxyInv
  <1> QED
    BY <1>1, <1>4, <1>5 DEF ProxyInv, HandlerMoves

\* The environment never touches the table.
LEMMA EnvironmentKeeps ==
    ASSUME ProxyInv, Environment
    PROVE  ProxyInv' /\ UNCHANGED routes
  <1>1. CASE Tick
    <2>1. now \in Nat /\ now' \in Nat /\ now <= now' /\ now' \in 0 .. MaxTime
      BY <1>1, ProxyConstants DEF Tick, ProxyInv
    <2>2. UNCHANGED <<routes, minted, epoch, session, snapshot, h, execs>>
      BY <1>1 DEF Tick
    <2>3. TypeOK' /\ RoutesKnown'
      BY <2>2 DEF ProxyInv, TypeOK, RoutesKnown
    <2>4. ASSUME NEW p \in Handlers PROVE LocalOK(h[p], now', DOMAIN execs)
      BY <2>1, LocalGrows DEF ProxyInv
    <2> QED
      BY <2>1, <2>2, <2>3, <2>4 DEF ProxyInv
  <1>2. ASSUME NEW uid \in DOMAIN execs, UpstreamSettles(uid)
        PROVE  ProxyInv' /\ UNCHANGED routes
    <2>1. PICK status \in Statuses : execs' = [execs EXCEPT ![uid].status = status]
      BY <1>2 DEF UpstreamSettles, Statuses
    <2>2. execs' \in Seq(Execution) /\ DOMAIN execs' = DOMAIN execs
      BY <2>1, ExecUpdates DEF ProxyInv
    <2>3. UNCHANGED <<routes, now, minted, epoch, session, snapshot, h>>
      BY <1>2 DEF UpstreamSettles
    <2>4. TypeOK' /\ RoutesKnown'
      BY <2>2, <2>3 DEF ProxyInv, TypeOK, RoutesKnown
    <2> QED
      BY <2>2, <2>3, <2>4 DEF ProxyInv
  <1>3. ASSUME NEW i \in Instances, Reconnect(i)
        PROVE  ProxyInv' /\ UNCHANGED routes
    <2>1. UNCHANGED <<routes, now, minted, epoch, snapshot, h, execs>>
      BY <1>3 DEF Reconnect
    <2>2. TypeOK' /\ RoutesKnown'
      BY <2>1 DEF ProxyInv, TypeOK, RoutesKnown
    <2>3. session' \in [Instances -> 0 .. MaxSessions]
      BY <1>3, ProxyConstants DEF ProxyInv, Reconnect
    <2> QED
      BY <2>1, <2>2, <2>3 DEF ProxyInv
  <1>4. ASSUME NEW i \in Instances, HandlersLost(i), UNCHANGED <<routes, now, execs>>
        PROVE  /\ TypeOK' /\ RoutesKnown' /\ h' \in [Handlers -> Locals]
               /\ \A p \in Handlers : LocalOK(h'[p], now, DOMAIN execs)
    <2>1. TypeOK' /\ RoutesKnown'
      BY <1>4 DEF ProxyInv, TypeOK, RoutesKnown
    <2>2. ASSUME NEW p \in Handlers
          PROVE  h'[p] \in Locals /\ LocalOK(h'[p], now, DOMAIN execs)
      <3>1. h'[p] = Idle \/ h'[p] = h[p]
        BY <1>4 DEF HandlersLost
      <3> QED
        BY <3>1, HandlerFacts, IdleLocal
    <2>3. h' \in [Handlers -> Locals]
      BY <1>4, <2>2 DEF HandlersLost
    <2> QED
      BY <2>1, <2>2, <2>3
  <1>5. ASSUME NEW i \in Instances, RouterReopen(i)
        PROVE  ProxyInv' /\ UNCHANGED routes
    <2>1. HandlersLost(i) /\ UNCHANGED <<routes, now, minted, session, snapshot, execs>>
      BY <1>5 DEF RouterReopen
    <2>2. epoch' \in [Instances -> 0 .. MaxEpochs]
      BY <1>5, ProxyConstants DEF ProxyInv, RouterReopen
    <2> QED
      BY <1>4, <2>1, <2>2 DEF ProxyInv
  <1>6. ASSUME NEW i \in Instances, ProcessRestart(i)
        PROVE  ProxyInv' /\ UNCHANGED routes
    <2>1. HandlersLost(i) /\ UNCHANGED <<routes, now, minted, execs>>
      BY <1>6 DEF ProcessRestart
    <2>2. epoch' \in [Instances -> 0 .. MaxEpochs]
      BY <1>6, ProxyConstants DEF ProxyInv, ProcessRestart
    <2>3. session' \in [Instances -> 0 .. MaxSessions]
      BY <1>6, ProxyConstants DEF ProxyInv, ProcessRestart
    <2>4. snapshot' \in [Instances -> Snapshots]
      BY <1>6 DEF ProxyInv, ProcessRestart
    <2> QED
      BY <1>4, <2>1, <2>2, <2>3, <2>4 DEF ProxyInv
  <1> QED
    BY <1>1, <1>2, <1>3, <1>5, <1>6 DEF Environment

LEMMA InitEstablishes == Init => ProxyInv
  <1> SUFFICES ASSUME Init PROVE ProxyInv
    OBVIOUS
  <1>1. TypeOK /\ RoutesKnown
    BY DEF Init, StoreInit, TypeOK, RoutesKnown
  <1>2. /\ now = 0 /\ minted = 0 /\ execs = << >>
        /\ epoch = [i \in Instances |-> 0] /\ session = [i \in Instances |-> 0]
        /\ snapshot \in [Instances -> Snapshots] /\ h = [p \in Handlers |-> Idle]
    BY DEF Init
  <1>3. /\ now \in 0 .. MaxTime /\ minted \in 0 .. MaxRoutes
        /\ epoch \in [Instances -> 0 .. MaxEpochs]
        /\ session \in [Instances -> 0 .. MaxSessions]
        /\ execs \in Seq(Execution)
    BY <1>2, ProxyConstants
  <1>4. h \in [Handlers -> Locals] /\ \A p \in Handlers : LocalOK(h[p], now, DOMAIN execs)
    BY <1>2, IdleLocal
  <1> QED
    BY <1>1, <1>2, <1>3, <1>4 DEF ProxyInv

LEMMA StepKeepsInv ==
    ASSUME ProxyInv, [Next]_vars
    PROVE  ProxyInv' /\ [StoreNext]_routes
  <1>1. CASE UNCHANGED vars
    BY <1>1 DEF vars, ProxyInv, TypeOK, RoutesKnown
  <1>2. ASSUME NEW p \in Handlers, Request(p) \/ ReadRoute(p) \/ HandlerStep(p)
        PROVE  ProxyInv' /\ [StoreNext]_routes
    <2>1. HandlerMoves(p)
      BY <1>2, EveryHandlerMoves
    <2> QED
      BY <2>1, HandlerMoveKeepsInv DEF HandlerMoves
  <1>3. CASE Environment
    BY <1>3, EnvironmentKeeps
  <1> QED
    BY <1>1, <1>2, <1>3 DEF Next

LEMMA Invariance == Spec => []ProxyInv
  BY InitEstablishes, StepKeepsInv, PTL DEF Spec

-----------------------------------------------------------------------------
(* The theorems.                                                           *)

\* TaskProxy's type invariant: a handler of task_proxy.rs never holds anything
\* but a record where it uses one, nor names an upstream task it was not given.
THEOREM ProxyTypeCorrect == Spec => []ProxyTypeOK
  <1>1. ProxyInv => ProxyTypeOK
    <2> SUFFICES ASSUME ProxyInv PROVE ProxyTypeOK
      OBVIOUS
    <2>1. ASSUME NEW p \in Handlers
          PROVE  /\ h[p].pc \in Places
                 /\ h[p].tries \in 0 .. MaxCasAttempts
                 /\ h[p].seen \in 0 .. now
                 /\ h[p].pc \in WithRecord => h[p].rec \in Record
                 /\ h[p].pc \in {"await", "bind", "orphan"} => h[p].uid \in DOMAIN execs
      <3>1. h[p] \in Locals /\ LocalOK(h[p], now, DOMAIN execs) /\ now \in Nat
        BY HandlerFacts
      <3>2. h[p].pc \in Places /\ h[p].tries \in Nat /\ h[p].seen \in Nat
        BY <3>1 DEF Locals
      <3> QED
        BY <3>1, <3>2, ProxyConstants DEF LocalOK
    <2>2. now \in Nat
      BY ProxyConstants DEF ProxyInv
    <2> QED
      BY <2>1, <2>2 DEF ProxyInv, ProxyTypeOK
  <1> QED
    BY <1>1, Invariance, PTL

\* The proxy uses the table only as a client of the TaskRouteStorage trait may:
\* whatever its handlers, the upstream, reconnects and restarts do, the table
\* goes through a behaviour of TaskRouteStore.
THEOREM ProxyImplementsStore == Spec => StoreSpec
  <1>1. Init => StoreInit
    BY DEF Init
  <1>2. ProxyInv /\ [Next]_vars => [StoreNext]_routes
    BY StepKeepsInv
  <1> QED
    BY <1>1, <1>2, Invariance, PTL DEF Spec, StoreSpec

\* Hence, among all requests of the proxy, a caller's key names one route
\* (storage.rs, task_routes_caller_idempotency) ...
THEOREM ProxyKeysBoundOnce == Spec => []KeyBoundOnce
  BY ProxyImplementsStore, KeysBoundOnce, PTL

\* ... and no handler, however stale its copy, rewrites a route's history: the
\* upstream ID is write-once, "terminal" is final and a cancellation intent is
\* never withdrawn (task.rs transition).
THEOREM ProxyHistoryKept == Spec => RouteHistory
  BY ProxyImplementsStore, HistoryKept, PTL
=============================================================================
