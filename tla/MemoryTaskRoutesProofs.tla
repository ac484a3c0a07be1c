----------------------- MODULE MemoryTaskRoutesProofs -----------------------
(***************************************************************************)
(* Proofs about MemoryStorage's task routes, for every set of callers,     *)
(* keys and IDs and every capacity: the idempotency index and the expiry   *)
(* index always agree with the map by public ID, and the three collections *)
(* implement the table.                                                    *)
(***************************************************************************)
EXTENDS MemoryTaskRoutes, FiniteSetTheorems, FunctionTheorems, WellFoundedInduction, TLAPS

LEMMA PreparedIsRecord ==
    ASSUME NEW rec \in Store!PreparedRecords
    PROVE  rec \in Store!Record
  <1>1. PICK id \in PublicIds, caller \in Callers, key \in Keys \cup {None},
             binding \in Bindings, session \in Sessions,
             created \in Store!Times, ttl \in Store!Times :
               rec = Store!Prepare(id, caller, key, binding, session, created, ttl)
    BY DEF Store!PreparedRecords
  <1>2. created \in Nat /\ created + ttl \in Nat
    BY IntegerBound DEF Store!Times
  <1> QED
    BY <1>1, <1>2 DEF Store!Prepare, Store!Record, Store!TaskRoutePhase

\* A transition yields a record of the same ID, scope and expiry.
LEMMA SuccessorType ==
    ASSUME NEW r \in Store!Record, NEW u \in Store!Updates
    PROVE  /\ Successor(r, u) \in Store!Record
           /\ Successor(r, u).id = r.id
           /\ Successor(r, u).caller = r.caller
           /\ Successor(r, u).key = r.key
           /\ Successor(r, u).expires = r.expires
  <1>1. /\ u.phase \in Store!TaskRoutePhase
        /\ u.upstream \in UpstreamIds \cup {None}
        /\ u.owner \in Owners \cup {None}
        /\ u.cached \in Verdicts \cup {None}
    BY DEF Store!Updates, Store!Update, Store!Dispatching, Store!Routed,
           Store!Terminal, Store!ReconciliationRequired, Store!CancelRequested,
           Store!CancelRequestedWithUpstream, Store!TaskRoutePhase
  <1> DEFINE up == IF r.upstream # None THEN r.upstream ELSE u.upstream
         s == [r EXCEPT !.upstream = up, !.owner = u.owner, !.phase = u.phase,
                        !.version = r.version + 1, !.cached = u.cached]
  <1>2. up \in UpstreamIds \cup {None} /\ r.version + 1 \in Nat
    BY <1>1 DEF Store!Record
  <1>3. Successor(r, u) = s
    BY DEF Successor
  <1>4. /\ s \in Store!Record
        /\ s.id = r.id /\ s.caller = r.caller /\ s.key = r.key /\ s.expires = r.expires
    <2> HIDE DEF up
    <2> QED BY <1>1, <1>2 DEF Store!Record
  <1> QED
    BY <1>3, <1>4

-----------------------------------------------------------------------------
(* Type correctness.                                                       *)

LEMMA BeginKeepsType ==
    ASSUME TypeOK, NEW rec \in Store!PreparedRecords, BeginOrExisting(rec)
    PROVE  TypeOK'
  <1>1. /\ rec \in Store!Record
        /\ rec.id \in PublicIds /\ rec.caller \in Callers
        /\ rec.key \in Keys \cup {None} /\ rec.expires \in Nat
    BY PreparedIsRecord DEF Store!Record
  <1>2. ValidShape(rec)
    BY DEF BeginOrExisting, BeginAccepted, PreparedForBegin
  <1>3. Store!ValidShape(rec)
    BY <1>2 DEF ValidShape, Store!ValidShape
  <1>4. rec.expires \in Store!Times
    BY <1>1, <1>2, IntegerBound DEF ValidShape, Store!Times
  <1>5. /\ DOMAIN by_id' \subseteq DOMAIN by_id \cup {rec.id}
        /\ by_id'[rec.id] = rec
        /\ \A id \in DOMAIN by_id' : id # rec.id => by_id'[id] = by_id[id]
    BY DEF BeginOrExisting
  <1>6. Store!TypeOK'
    BY <1>1, <1>3, <1>5 DEF TypeOK, Store!TypeOK
  <1>7. (DOMAIN by_idempotency \subseteq Callers \X Keys)'
    BY <1>1 DEF BeginOrExisting, TypeOK, Scope
  <1>8. (by_expiry \subseteq Store!Times \X PublicIds)'
    BY <1>1, <1>4 DEF BeginOrExisting, TypeOK
  <1> QED
    BY <1>6, <1>7, <1>8 DEF TypeOK

LEMMA CasKeepsType ==
    ASSUME TypeOK, NEW caller, NEW id, NEW expected, NEW u \in Store!Updates,
           CompareAndSet(caller, id, expected, u)
    PROVE  TypeOK'
  <1>1. /\ id \in DOMAIN by_id
        /\ by_id[id] \in Store!Record /\ by_id[id].id = id
    BY DEF CompareAndSet, TypeOK, Store!TypeOK
  <1>2. ValidShape(Successor(by_id[id], u))
    BY DEF CompareAndSet, TransitionAllowed
  <1>3. /\ Successor(by_id[id], u) \in Store!Record
        /\ Successor(by_id[id], u).id = id
        /\ Store!ValidShape(Successor(by_id[id], u))
    BY <1>1, <1>2, SuccessorType DEF ValidShape, Store!ValidShape
  <1> QED
    BY <1>1, <1>3 DEF CompareAndSet, TypeOK, Store!TypeOK

LEMMA PurgeKeepsType ==
    ASSUME TypeOK, NEW now, NEW limit, PurgeExpired(now, limit)
    PROVE  TypeOK'
  <1>1. /\ DOMAIN by_id' \subseteq DOMAIN by_id
        /\ \A id \in DOMAIN by_id' : by_id'[id] = by_id[id]
        /\ DOMAIN by_idempotency' \subseteq DOMAIN by_idempotency
        /\ by_expiry' \subseteq by_expiry
    BY DEF PurgeExpired
  <1> QED
    BY <1>1 DEF TypeOK, Store!TypeOK

\* MemoryTaskRoutes' type invariant: every record is well formed and filed under
\* its ID, and the two indexes have the types of MemoryTaskRoutes in storage.rs.
THEOREM TypeCorrect == Spec => []TypeOK
  <1>1. Init => TypeOK
    BY DEF Init, TypeOK, Store!TypeOK
  <1>2. TypeOK /\ [Next]_vars => TypeOK'
    <2> SUFFICES ASSUME TypeOK, [Next]_vars PROVE TypeOK'
      OBVIOUS
    <2>1. CASE UNCHANGED vars
      BY <2>1 DEF vars, TypeOK, Store!TypeOK
    <2>2. CASE \E rec \in Store!PreparedRecords : BeginOrExisting(rec)
      BY <2>2, BeginKeepsType
    <2>3. CASE \E caller \in Callers, id \in PublicIds, expected \in Store!Times,
                  u \in Store!Updates : CompareAndSet(caller, id, expected, u)
      BY <2>3, CasKeepsType
    <2>4. CASE \E now \in Store!Times, limit \in 0 .. MaxPurgeRecords :
                  PurgeExpired(now, limit)
      BY <2>4, PurgeKeepsType
    <2> QED
      BY <2>1, <2>2, <2>3, <2>4 DEF Next
  <1> QED
    BY <1>1, <1>2, PTL DEF Spec

-----------------------------------------------------------------------------
(* The indexes.                                                            *)

\* An insertion moves the scope and the expiry entry of the row it replaces.
LEMMA BeginKeepsIndexes ==
    ASSUME TypeOK, IndexesAgree, NEW rec \in Store!PreparedRecords,
           BeginOrExisting(rec)
    PROVE  IndexesAgree'
  <1> DEFINE gone == ExpiredIdempotency(rec)
             kept == DOMAIN by_id \ gone
  <1>1. /\ DOMAIN by_id' = kept \cup {rec.id}
        /\ by_id'[rec.id] = rec
        /\ \A id \in kept : id # rec.id => by_id'[id] = by_id[id]
        /\ by_expiry' = (by_expiry \ {<<by_id[id].expires, id>> : id \in gone})
                           \cup {<<rec.expires, rec.id>>}
    BY DEF BeginOrExisting
  <1>2. /\ gone \subseteq IndexedId(rec) /\ IndexedId(rec) \subseteq gone
        /\ rec.id \notin kept
    BY DEF BeginOrExisting, BeginAccepted, ExpiredIdempotency
  \* Only the replaced row carries the record's scope.
  <1>3. \A id \in kept : by_id[id].key # None => Scope(by_id[id]) # Scope(rec)
    <2> SUFFICES ASSUME NEW id \in kept, by_id[id].key # None,
                        Scope(by_id[id]) = Scope(rec)
                 PROVE  FALSE
      OBVIOUS
    <2>1. /\ Scope(rec) \in DOMAIN by_idempotency
          /\ by_idempotency[Scope(rec)] = id
      BY DEF IndexesAgree
    <2>2. rec.key # None
      BY DEF Scope
    <2> QED
      BY <1>2, <2>1, <2>2 DEF IndexedId
  <1>4. \A s \in DOMAIN by_idempotency :
           s # Scope(rec) => by_idempotency[s] \in kept
    <2> SUFFICES ASSUME NEW s \in DOMAIN by_idempotency, s # Scope(rec),
                        by_idempotency[s] \in gone
                 PROVE  FALSE
      BY DEF IndexesAgree
    <2>1. /\ Scope(rec) \in DOMAIN by_idempotency
          /\ by_idempotency[s] = by_idempotency[Scope(rec)]
      BY <1>2 DEF IndexedId
    <2> QED
      BY <2>1 DEF IndexesAgree
  <1>5. by_expiry' = {<<by_id'[id].expires, id>> : id \in DOMAIN by_id'}
    <2>1. by_expiry \ {<<by_id[id].expires, id>> : id \in gone}
             = {<<by_id[id].expires, id>> : id \in kept}
      BY DEF IndexesAgree
    <2>2. {<<by_id[id].expires, id>> : id \in kept}
             = {<<by_id'[id].expires, id>> : id \in kept}
      BY <1>1, <1>2
    <2> HIDE DEF kept, gone
    <2> QED
      BY <1>1, <2>1, <2>2
  <1>6. /\ DOMAIN by_idempotency' = (DOMAIN by_idempotency \ {Scope(rec)})
                                      \cup (IF rec.key = None THEN {} ELSE {Scope(rec)})
        /\ \A s \in DOMAIN by_idempotency' :
              by_idempotency'[s] = IF s = Scope(rec) THEN rec.id ELSE by_idempotency[s]
    BY DEF BeginOrExisting
  <1>7. ASSUME NEW id \in DOMAIN by_id', by_id'[id].key # None
        PROVE  /\ Scope(by_id'[id]) \in DOMAIN by_idempotency'
               /\ by_idempotency'[Scope(by_id'[id])] = id
    <2>1. CASE id = rec.id
      BY <1>1, <1>6, <1>7, <2>1
    <2>2. CASE id # rec.id
      <3>1. id \in kept /\ by_id'[id] = by_id[id]
        BY <1>1, <2>2
      <3>2. /\ Scope(by_id[id]) \in DOMAIN by_idempotency
            /\ by_idempotency[Scope(by_id[id])] = id
            /\ Scope(by_id[id]) # Scope(rec)
        BY <1>3, <1>7, <3>1 DEF IndexesAgree
      <3> QED
        BY <1>6, <3>1, <3>2
    <2> QED
      BY <2>1, <2>2
  <1>8. ASSUME NEW s \in DOMAIN by_idempotency'
        PROVE  /\ by_idempotency'[s] \in DOMAIN by_id'
               /\ by_id'[by_idempotency'[s]].key # None
               /\ Scope(by_id'[by_idempotency'[s]]) = s
    <2>1. CASE s = Scope(rec)
      BY <1>1, <1>6, <2>1
    <2>2. CASE s # Scope(rec)
      <3>1. /\ s \in DOMAIN by_idempotency
            /\ by_idempotency'[s] = by_idempotency[s]
            /\ by_idempotency[s] \in kept
        BY <1>4, <1>6, <2>2
      <3>2. by_id'[by_idempotency[s]] = by_id[by_idempotency[s]]
        BY <1>1, <1>2, <3>1
      <3> QED
        BY <1>1, <3>1, <3>2 DEF IndexesAgree
    <2> QED
      BY <2>1, <2>2
  <1>9. \A id \in DOMAIN by_id' :
           by_id'[id].key # None =>
              /\ Scope(by_id'[id]) \in DOMAIN by_idempotency'
              /\ by_idempotency'[Scope(by_id'[id])] = id
    BY <1>7
  <1>10. \A s \in DOMAIN by_idempotency' :
           /\ by_idempotency'[s] \in DOMAIN by_id'
           /\ by_id'[by_idempotency'[s]].key # None
           /\ Scope(by_id'[by_idempotency'[s]]) = s
    BY <1>8
  <1> QED
    BY <1>5, <1>9, <1>10 DEF IndexesAgree, Scope

\* A transition changes neither the scope nor the expiry of its row.
LEMMA CasKeepsIndexes ==
    ASSUME TypeOK, IndexesAgree, NEW caller, NEW id, NEW expected,
           NEW u \in Store!Updates, CompareAndSet(caller, id, expected, u)
    PROVE  IndexesAgree'
  <1>1. id \in DOMAIN by_id /\ by_id[id] \in Store!Record
    BY DEF CompareAndSet, TypeOK, Store!TypeOK
  <1>2. /\ DOMAIN by_id' = DOMAIN by_id
        /\ \A any \in DOMAIN by_id :
              /\ by_id'[any].caller = by_id[any].caller
              /\ by_id'[any].key = by_id[any].key
              /\ by_id'[any].expires = by_id[any].expires
        /\ by_idempotency' = by_idempotency /\ by_expiry' = by_expiry
    BY <1>1, SuccessorType DEF CompareAndSet
  <1>3. {<<by_id'[any].expires, any>> : any \in DOMAIN by_id'}
           = {<<by_id[any].expires, any>> : any \in DOMAIN by_id}
    BY <1>2
  <1> QED
    BY <1>2, <1>3 DEF IndexesAgree, Scope

\* A purge takes the expired entries' rows and their scopes, and no others.
LEMMA PurgeKeepsIndexes ==
    ASSUME IndexesAgree, NEW now, NEW limit, PurgeExpired(now, limit)
    PROVE  IndexesAgree'
  <1> DEFINE gone == {e[2] : e \in Taken(now, limit)}
             scopes == {Scope(by_id[id]) : id \in gone \cap DOMAIN by_id}
  <1>1. /\ DOMAIN by_id' = DOMAIN by_id \ gone
        /\ \A id \in DOMAIN by_id' : by_id'[id] = by_id[id]
        /\ by_expiry' = by_expiry \ Taken(now, limit)
    BY DEF PurgeExpired
  <1>2. /\ DOMAIN by_idempotency' = DOMAIN by_idempotency \ scopes
        /\ \A s \in DOMAIN by_idempotency' : by_idempotency'[s] = by_idempotency[s]
    BY DEF PurgeExpired
  <1>3. Taken(now, limit) \subseteq by_expiry
    BY DEF Taken, ExpiredEntries
  \* An entry is taken exactly when its ID is.
  <1>4. \A id \in DOMAIN by_id :
           id \in gone <=> <<by_id[id].expires, id>> \in Taken(now, limit)
    BY <1>3 DEF IndexesAgree
  <1>5. by_expiry' = {<<by_id'[id].expires, id>> : id \in DOMAIN by_id'}
    <2>1. by_expiry \ Taken(now, limit)
             = {<<by_id[id].expires, id>> : id \in DOMAIN by_id \ gone}
      <3> HIDE DEF gone
      <3> QED BY <1>4 DEF IndexesAgree
    <2> HIDE DEF gone
    <2> QED
      BY <1>1, <2>1
  <1> HIDE DEF gone
  <1>6. ASSUME NEW id \in DOMAIN by_id', by_id'[id].key # None
        PROVE  /\ Scope(by_id'[id]) \in DOMAIN by_idempotency'
               /\ by_idempotency'[Scope(by_id'[id])] = id
    <2>1. /\ id \in DOMAIN by_id /\ id \notin gone /\ by_id'[id] = by_id[id]
          /\ Scope(by_id[id]) \in DOMAIN by_idempotency
          /\ by_idempotency[Scope(by_id[id])] = id
      BY <1>1, <1>6 DEF IndexesAgree
    <2>2. Scope(by_id[id]) \notin scopes
      <3> SUFFICES ASSUME NEW other \in gone \cap DOMAIN by_id,
                          Scope(by_id[other]) = Scope(by_id[id])
                   PROVE  FALSE
        OBVIOUS
      <3>1. by_id[other].key # None
        BY <1>6, <2>1 DEF Scope
      <3>2. by_idempotency[Scope(by_id[other])] = other
        BY <3>1 DEF IndexesAgree
      <3> QED
        BY <2>1, <3>2
    <2> QED
      BY <1>2, <2>1, <2>2
  <1>7. ASSUME NEW s \in DOMAIN by_idempotency'
        PROVE  /\ by_idempotency'[s] \in DOMAIN by_id'
               /\ by_id'[by_idempotency'[s]].key # None
               /\ Scope(by_id'[by_idempotency'[s]]) = s
    <2>1. /\ s \in DOMAIN by_idempotency /\ s \notin scopes
          /\ by_idempotency'[s] = by_idempotency[s]
      BY <1>2
    <2>2. /\ by_idempotency[s] \in DOMAIN by_id
          /\ by_id[by_idempotency[s]].key # None
          /\ Scope(by_id[by_idempotency[s]]) = s
      BY <2>1 DEF IndexesAgree
    <2>3. by_idempotency[s] \notin gone
      BY <2>1, <2>2
    <2> QED
      BY <1>1, <2>1, <2>2, <2>3
  <1>8. \A id \in DOMAIN by_id' :
           by_id'[id].key # None =>
              /\ Scope(by_id'[id]) \in DOMAIN by_idempotency'
              /\ by_idempotency'[Scope(by_id'[id])] = id
    BY <1>6
  <1>9. \A s \in DOMAIN by_idempotency' :
           /\ by_idempotency'[s] \in DOMAIN by_id'
           /\ by_id'[by_idempotency'[s]].key # None
           /\ Scope(by_id'[by_idempotency'[s]]) = s
    BY <1>7
  <1> QED
    BY <1>5, <1>8, <1>9 DEF IndexesAgree, Scope

\* The idempotency and expiry indexes of MemoryStorage (storage.rs) hold exactly
\* what the map by public ID implies, after every operation.
THEOREM IndexesKept == Spec => []IndexesAgree
  <1>1. Init => IndexesAgree
    BY DEF Init, IndexesAgree
  <1>2. TypeOK /\ IndexesAgree /\ [Next]_vars => IndexesAgree'
    <2> SUFFICES ASSUME TypeOK, IndexesAgree, [Next]_vars PROVE IndexesAgree'
      OBVIOUS
    <2>1. CASE UNCHANGED vars
      BY <2>1 DEF vars, IndexesAgree, Scope
    <2>2. CASE \E rec \in Store!PreparedRecords : BeginOrExisting(rec)
      BY <2>2, BeginKeepsIndexes
    <2>3. CASE \E caller \in Callers, id \in PublicIds, expected \in Store!Times,
                  u \in Store!Updates : CompareAndSet(caller, id, expected, u)
      BY <2>3, CasKeepsIndexes
    <2>4. CASE \E now \in Store!Times, limit \in 0 .. MaxPurgeRecords :
                  PurgeExpired(now, limit)
      BY <2>4, PurgeKeepsIndexes
    <2> QED
      BY <2>1, <2>2, <2>3, <2>4 DEF Next
  <1> QED
    BY <1>1, <1>2, TypeCorrect, PTL DEF Spec

-----------------------------------------------------------------------------
(* Refinement of the table: the order of the expiry index.                 *)

LEMMA LeastNatural ==
    ASSUME NEW T \in SUBSET Nat, T # {}
    PROVE  \E x \in T : \A y \in T : x <= y
  <1>1. PICK R : R = {ss \in Nat \X Nat : ss[1] < ss[2]}
    OBVIOUS
  <1>2. OpToRel(<, Nat) = R
    BY <1>1, Zenon DEF OpToRel
  <1>3. IsWellFoundedOn(R, Nat)
    BY <1>2, NatLessThanWellFounded, Zenon
  <1>4. PICK x \in T : \A y \in T : ~(<<y, x>> \in R)
    BY <1>3, WFMin
  <1>5. ASSUME NEW y \in T PROVE x <= y
    <2>1. x \in Nat /\ y \in Nat
      OBVIOUS
    <2>2. <<y, x>> \in Nat \X Nat /\ <<y, x>>[1] = y /\ <<y, x>>[2] = x
      BY <2>1
    <2>3. ~(y < x)
      BY <1>1, <1>4, <2>2, Zenon
    <2> QED
      BY <2>1, <2>3
  <1> QED
    BY <1>5

\* The entries ahead of e in E, and how many they are.
Ahead(E, e) == {f \in E : Before(f, e)}
Rank(E, e) == Cardinality(Ahead(E, e))

\* A purge takes the entries of rank below the limit.
Front(E, limit) == {e \in E : Rank(E, e) < limit}

LEMMA RankType ==
    ASSUME NEW E \in SUBSET (Nat \X Nat), IsFiniteSet(E), NEW e
    PROVE  /\ IsFiniteSet(Ahead(E, e)) /\ Rank(E, e) \in Nat
           /\ Cardinality(E) \in Nat /\ Rank(E, e) <= Cardinality(E)
  <1>1. PICK A : A = Ahead(E, e)
    OBVIOUS
  <1>2. A \in SUBSET E
    BY <1>1 DEF Ahead
  <1>3. IsFiniteSet(A) /\ Cardinality(A) <= Cardinality(E)
    BY <1>2, FS_Subset
  <1> QED
    BY <1>1, <1>3, FS_CardinalityType DEF Rank

LEMMA RankRises ==
    ASSUME NEW E \in SUBSET (Nat \X Nat), IsFiniteSet(E), NEW e \in E, NEW f \in E,
           Before(f, e)
    PROVE  Rank(E, f) < Rank(E, e)
  <1>1. PICK A, B : A = Ahead(E, f) /\ B = Ahead(E, e)
    OBVIOUS
  <1>2. A \in SUBSET B
    BY <1>1 DEF Ahead, Before
  <1>3. f \in B /\ f \notin A
    BY <1>1 DEF Ahead, Before
  <1>4. IsFiniteSet(B) /\ Cardinality(A) \in Nat /\ Cardinality(B) \in Nat
    BY <1>1, RankType DEF Rank
  <1>5. Cardinality(A) <= Cardinality(B) /\ (Cardinality(A) = Cardinality(B) => A = B)
    BY <1>2, <1>4, FS_Subset
  <1> QED
    BY <1>1, <1>3, <1>4, <1>5 DEF Rank

LEMMA FirstOf ==
    ASSUME NEW E \in SUBSET (Nat \X Nat), IsFiniteSet(E), NEW S \in SUBSET E, S # {}
    PROVE  \E e \in S : \A f \in S : ~Before(f, e)
  <1>1. PICK T : T = {Rank(E, e) : e \in S}
    OBVIOUS
  <1>2. T \in SUBSET Nat /\ T # {}
    BY <1>1, RankType
  <1>3. PICK x \in T : \A y \in T : x <= y
    BY <1>2, LeastNatural
  <1>4. PICK e \in S : x = Rank(E, e)
    BY <1>1
  <1>5. ASSUME NEW f \in S, Before(f, e) PROVE FALSE
    <2>1. Rank(E, f) < Rank(E, e) /\ Rank(E, f) \in T
      BY <1>1, <1>5, RankRises
    <2>2. x <= Rank(E, f) /\ x \in Nat /\ Rank(E, f) \in Nat
      BY <1>2, <1>3, <2>1
    <2> QED
      BY <1>4, <2>1, <2>2
  <1> QED
    BY <1>5

LEMMA LastOf ==
    ASSUME NEW E \in SUBSET (Nat \X Nat), IsFiniteSet(E), NEW S \in SUBSET E, S # {}
    PROVE  \E e \in S : \A f \in S : ~Before(e, f)
  <1>1. PICK n, T : n = Cardinality(E) /\ T = {n - Rank(E, e) : e \in S}
    OBVIOUS
  <1>2. n \in Nat /\ \A e \in S : Rank(E, e) \in Nat /\ Rank(E, e) <= n
    BY <1>1, RankType
  <1>3. T \in SUBSET Nat /\ T # {}
    BY <1>1, <1>2
  <1>4. PICK x \in T : \A y \in T : x <= y
    BY <1>3, LeastNatural
  <1>5. PICK e \in S : x = n - Rank(E, e)
    BY <1>1
  <1>6. ASSUME NEW f \in S, Before(e, f) PROVE FALSE
    <2>1. Rank(E, e) < Rank(E, f)
      BY <1>6, RankRises
    <2>2. x <= n - Rank(E, f)
      BY <1>1, <1>4
    <2> QED
      BY <1>2, <1>5, <2>1, <2>2
  <1> QED
    BY <1>6

\* The first `limit' entries: as many as asked for or all of them, and the oldest.
LEMMA FrontIsOldest ==
    ASSUME NEW E \in SUBSET (Nat \X Nat), IsFiniteSet(E), NEW limit \in Nat,
           NEW F, F = Front(E, limit)
    PROVE  /\ F \subseteq E /\ IsFiniteSet(F) /\ Cardinality(F) <= limit
           /\ F # E => Cardinality(F) = limit
           /\ \A e \in F, f \in E \ F : e[1] <= f[1]
  <1>1. F \in SUBSET E
    BY DEF Front
  <1>2. IsFiniteSet(F) /\ Cardinality(F) \in Nat
    BY <1>1, FS_Subset, FS_CardinalityType
  <1>3. Cardinality(F) <= limit
    <2>1. CASE F = {}
      BY <2>1, FS_EmptySet
    <2>2. CASE F # {}
      <3>1. PICK e \in F : \A f \in F : ~Before(e, f)
        BY <1>1, <2>2, LastOf
      <3>2. PICK A : A = Ahead(E, e)
        OBVIOUS
      <3>3. IsFiniteSet(A) /\ Cardinality(A) \in Nat /\ Cardinality(A) < limit
        BY <1>1, <3>1, <3>2, RankType DEF Front, Rank
      <3>4. F \subseteq A \cup {e}
        BY <1>1, <3>1, <3>2 DEF Ahead, Before
      <3>5. IsFiniteSet(A \cup {e}) /\ Cardinality(A \cup {e}) <= Cardinality(A) + 1
            /\ Cardinality(A \cup {e}) \in Nat
        <4>1. IsFiniteSet(A \cup {e})
              /\ Cardinality(A \cup {e}) = IF e \in A THEN Cardinality(A) ELSE Cardinality(A) + 1
          BY <3>3, FS_AddElement
        <4> QED
          BY <3>3, <4>1
      <3>6. Cardinality(F) <= Cardinality(A \cup {e})
        BY <3>4, <3>5, FS_Subset
      <3> QED
        BY <1>2, <3>3, <3>5, <3>6
    <2> QED
      BY <2>1, <2>2
  <1>4. ASSUME F # E PROVE Cardinality(F) = limit
    <2>1. PICK S : S = E \ F
      OBVIOUS
    <2>2. S \in SUBSET E /\ S # {}
      BY <1>1, <1>4, <2>1
    <2>3. PICK e \in S : \A f \in S : ~Before(f, e)
      BY <2>2, FirstOf
    <2>4. PICK A : A = Ahead(E, e)
      OBVIOUS
    <2>5. A \in SUBSET F
      BY <2>1, <2>3, <2>4 DEF Ahead
    <2>6. Cardinality(A) \in Nat /\ ~(Cardinality(A) < limit)
      BY <2>1, <2>3, <2>4, RankType DEF Front, Rank
    <2>7. Cardinality(A) <= Cardinality(F)
      BY <1>2, <2>5, FS_Subset
    <2> QED
      BY <1>2, <1>3, <2>6, <2>7
  <1>5. ASSUME NEW e \in F, NEW f \in E \ F, ~(e[1] <= f[1]) PROVE FALSE
    <2>1. Before(f, e)
      BY <1>1, <1>5 DEF Before
    <2>2. Rank(E, f) < Rank(E, e)
      BY <1>1, <2>1, RankRises
    <2>3. Rank(E, f) \in Nat /\ Rank(E, e) \in Nat /\ Rank(E, e) < limit
          /\ ~(Rank(E, f) < limit)
      BY RankType DEF Front
    <2> QED
      BY <2>2, <2>3
  <1> QED
    BY <1>1, <1>2, <1>3, <1>4, <1>5

-----------------------------------------------------------------------------
(* Refinement of the table: each step of the collections is one of its own. *)

RowsFinite == IsFiniteSet(DOMAIN by_id)

LEMMA TransitionsAgree ==
    /\ \A r, n : Store!IsExpired(r, n) <=> IsExpired(r, n)
    /\ \A r : Store!PreparedForBegin(r) <=> PreparedForBegin(r)
    /\ \A r, u : Store!TransitionAllowed(r, u) <=> TransitionAllowed(r, u)
    /\ \A r, u : Store!Successor(r, u) = Successor(r, u)
  <1>1. \A r, n : Store!IsExpired(r, n) <=> IsExpired(r, n)
    BY DEF IsExpired, Store!IsExpired
  <1>2. \A r : Store!ValidShape(r) <=> ValidShape(r)
    BY DEF ValidShape, Store!ValidShape
  <1>3. \A r : Store!PreparedForBegin(r) <=> PreparedForBegin(r)
    BY <1>2 DEF PreparedForBegin, Store!PreparedForBegin
  <1>4. \A r, u : Store!Successor(r, u) = Successor(r, u)
    BY Zenon DEF Successor, Store!Successor
  <1>5. \A p, q : Store!CanTransition(p, q) <=> CanTransition(p, q)
    BY Zenon DEF CanTransition, Store!CanTransition
  <1>6. \A r, u : Store!TransitionAllowed(r, u) <=> TransitionAllowed(r, u)
    BY <1>2, <1>4, <1>5 DEF TransitionAllowed, Store!TransitionAllowed
  <1> QED
    BY <1>1, <1>3, <1>4, <1>6

LEMMA SameCount == \A S : Store!Cardinality(S) = Cardinality(S)
  BY DEF Store!Cardinality, Cardinality

\* The idempotency index finds the rows that a scan for the key would.
LEMMA ScopeIsBinding ==
    ASSUME IndexesAgree, NEW rec
    PROVE  Store!BoundTo(rec.caller, rec.key) = IndexedId(rec)
  <1>1. ASSUME NEW id \in Store!BoundTo(rec.caller, rec.key)
        PROVE  id \in IndexedId(rec)
    BY <1>1 DEF Store!BoundTo, IndexesAgree, IndexedId, Scope
  <1>2. ASSUME NEW id \in IndexedId(rec)
        PROVE  id \in Store!BoundTo(rec.caller, rec.key)
    BY <1>2 DEF Store!BoundTo, IndexesAgree, IndexedId, Scope
  <1> QED
    BY <1>1, <1>2

LEMMA BeginIsInsertion ==
    ASSUME TypeOK, IndexesAgree, RowsFinite,
           NEW rec \in Store!PreparedRecords, BeginOrExisting(rec)
    PROVE  Store!BeginOrExisting(rec) /\ RowsFinite'
  <1>1. PICK gone, rows : gone = ExpiredIdempotency(rec) /\ rows = DOMAIN by_id
    OBVIOUS
  <1>2. gone = IndexedId(rec) /\ gone \subseteq rows
        /\ \A id \in IndexedId(rec) : IsExpired(by_id[id], rec.created)
    BY <1>1 DEF BeginOrExisting, BeginAccepted, ExpiredIdempotency
  <1>3. Store!ExpiredBinding(rec) = gone /\ Store!LiveBinding(rec) = {}
    BY <1>2, ScopeIsBinding, TransitionsAgree DEF Store!ExpiredBinding, Store!LiveBinding
  <1>4. Store!RemainingRows(rec) = rows \ gone
    BY <1>1, <1>3 DEF Store!RemainingRows
  <1>5. Store!ActiveForCaller(rec) = ActiveForCaller(rec)
    BY TransitionsAgree DEF Store!ActiveForCaller, ActiveForCaller
  <1>6. /\ PreparedForBegin(rec) /\ (rec.id \in rows => rec.id \in gone)
        /\ Cardinality(rows) - Cardinality(gone) < MaxStoredTaskRoutes
        /\ Cardinality(ActiveForCaller(rec)) < MaxActiveTaskRoutesPerCaller
    BY <1>1 DEF BeginOrExisting, BeginAccepted
  <1>7. IsFiniteSet(rows) /\ Cardinality(rows) \in Nat
        /\ IsFiniteSet(rows \ gone) /\ Cardinality(rows \ gone) \in Nat
        /\ Cardinality(rows \ gone) = Cardinality(rows) - Cardinality(gone)
    <2>1. rows \cap gone = gone
      BY <1>2
    <2>2. IsFiniteSet(rows) /\ rows \ gone \in SUBSET rows
      BY <1>1 DEF RowsFinite
    <2> QED
      BY <2>1, <2>2, FS_Difference, FS_CardinalityType, FS_Subset
  <1>8. IsFiniteSet(ActiveForCaller(rec)) /\ Cardinality(ActiveForCaller(rec)) \in Nat
    <2>1. ActiveForCaller(rec) \in SUBSET rows
      BY <1>1 DEF ActiveForCaller
    <2> QED
      BY <1>7, <2>1, FS_Subset, FS_CardinalityType
  <1>9. ~Store!AtCapacity(rec)
    <2>1. MaxStoredTaskRoutes \in Nat /\ MaxActiveTaskRoutesPerCaller \in Nat
      BY CapacityBounds
    <2>2. Cardinality(rows \ gone) < MaxStoredTaskRoutes
      BY <1>6, <1>7
    <2>3. /\ ~(Cardinality(rows \ gone) >= MaxStoredTaskRoutes)
          /\ ~(Cardinality(ActiveForCaller(rec)) >= MaxActiveTaskRoutesPerCaller)
      BY <1>6, <1>7, <1>8, <2>1, <2>2
    <2> QED
      BY <1>4, <1>5, <2>3, SameCount DEF Store!AtCapacity
  <1>10. Store!BeginInserts(rec)
    BY <1>1, <1>3, <1>4, <1>6, <1>9, TransitionsAgree DEF Store!BeginInserts
  <1>11. by_id' = [id \in (rows \ gone) \cup {rec.id} |->
                     IF id = rec.id THEN rec ELSE by_id[id]]
    BY <1>1, Zenon DEF BeginOrExisting
  <1>12. by_id' = Store!Inserted(rec)
    BY <1>4, <1>11, Zenon DEF Store!Inserted
  <1>13. DOMAIN by_id' = (rows \ gone) \cup {rec.id}
    BY <1>11
  <1>14. Store!BeginOrExisting(rec)
    BY <1>10, <1>12 DEF Store!BeginOrExisting
  <1>15. RowsFinite'
    <2>1. IsFiniteSet((rows \ gone) \cup {rec.id})
      BY <1>7, FS_AddElement
    <2> QED
      BY <1>13, <2>1 DEF RowsFinite
  <1> QED
    BY <1>14, <1>15

LEMMA CasIsTransition ==
    ASSUME NEW caller, NEW id, NEW expected, NEW u, RowsFinite,
           CompareAndSet(caller, id, expected, u)
    PROVE  Store!CompareAndSet(caller, id, expected, u) /\ RowsFinite'
  <1>1. Store!CasSucceeds(caller, id, expected, u)
    BY TransitionsAgree DEF CompareAndSet, Store!CasSucceeds
  <1>2. by_id' = [by_id EXCEPT ![id] = Store!Successor(@, u)]
    <2>1. by_id' = [by_id EXCEPT ![id] = Successor(by_id[id], u)]
      BY DEF CompareAndSet
    <2>2. Successor(by_id[id], u) = Store!Successor(by_id[id], u)
      BY TransitionsAgree
    <2> QED
      BY <2>1, <2>2, Zenon
  <1>3. DOMAIN by_id' = DOMAIN by_id
    BY <1>2
  <1> QED
    BY <1>1, <1>2, <1>3 DEF Store!CompareAndSet, RowsFinite

\* The entries that a purge takes name as many rows, the oldest of those expired.
LEMMA PurgeIsRemoval ==
    ASSUME TypeOK, IndexesAgree, RowsFinite,
           NEW now, NEW limit \in 0 .. MaxPurgeRecords, PurgeExpired(now, limit)
    PROVE  Store!PurgeExpired(now, limit) /\ RowsFinite'
  <1>1. PICK E, F, gone, rows :
           /\ E = ExpiredEntries(now) /\ F = Taken(now, limit)
           /\ gone = {e[2] : e \in F} /\ rows = DOMAIN by_id
    OBVIOUS
  <1>2. limit \in Nat
    BY CapacityBounds
  <1>3. /\ rows \subseteq Nat /\ IsFiniteSet(rows)
        /\ \A id \in rows : by_id[id].expires \in Nat
    BY <1>1, OrderedIds DEF RowsFinite, TypeOK, Store!TypeOK, Store!Record
  <1>4. by_expiry = {<<by_id[id].expires, id>> : id \in rows}
    BY <1>1 DEF IndexesAgree
  <1>5. PICK X : X = Store!ExpiredRows(now)
    OBVIOUS
  <1>6. X \in SUBSET rows /\ \A id \in rows : id \in X <=> by_id[id].expires <= now
    BY <1>1, <1>5 DEF Store!ExpiredRows, Store!IsExpired
  <1>7. E = {<<by_id[id].expires, id>> : id \in X}
    BY <1>1, <1>4, <1>6 DEF ExpiredEntries
  <1>8. E \in SUBSET (Nat \X Nat)
    BY <1>3, <1>6, <1>7
  <1>9. PICK f : f = [id \in X |-> <<by_id[id].expires, id>>]
    OBVIOUS
  <1>10. IsFiniteSet(X) /\ IsFiniteSet(E)
    <2>1. IsFiniteSet(X)
      BY <1>3, <1>6, FS_Subset
    <2>2. f \in [X -> E] /\ \A e \in E : \E id \in X : f[id] = e
      BY <1>7, <1>9
    <2>3. f \in Surjection(X, E)
      BY <2>2, Fun_IsSurj
    <2> QED
      BY <2>1, <2>3, FS_Surjection
  <1>11. F = Front(E, limit)
    BY <1>1 DEF Taken, Front, Rank, Ahead
  <1>12. /\ F \subseteq E /\ IsFiniteSet(F) /\ Cardinality(F) <= limit
         /\ F # E => Cardinality(F) = limit
         /\ \A d \in F, e \in E \ F : d[1] <= e[1]
    BY <1>2, <1>8, <1>10, <1>11, FrontIsOldest
  <1>13. \A id \in X : id \in gone <=> <<by_id[id].expires, id>> \in F
    BY <1>1, <1>7, <1>12
  <1>14. gone \in SUBSET X
    BY <1>1, <1>7, <1>12
  <1>15. Cardinality(gone) = Cardinality(F)
    <2>1. PICK g : g = [e \in F |-> e[2]]
      OBVIOUS
    <2>2. g \in [F -> gone] /\ \A id \in gone : \E e \in F : g[e] = id
      BY <1>1, <2>1
    <2>3. \A d, e \in F : g[d] = g[e] => d = e
      BY <1>7, <1>12, <2>1
    <2>4. g \in Bijection(F, gone)
      BY <2>2, <2>3, Fun_IsBij
    <2> QED
      BY <1>12, <2>4, FS_Bijection DEF ExistsBijection
  <1>16. gone # X => Cardinality(gone) = limit
    <2>1. ASSUME F = E PROVE gone = X
      BY <1>7, <1>13, <1>14, <2>1
    <2> QED
      BY <1>12, <1>15, <2>1
  <1>17. ASSUME NEW d \in gone, NEW e \in X \ gone
         PROVE  by_id[d].expires <= by_id[e].expires
    <2>1. <<by_id[d].expires, d>> \in F /\ <<by_id[e].expires, e>> \in E \ F
      BY <1>7, <1>13, <1>14
    <2> QED
      BY <1>12, <2>1
  <1>18. gone \in Store!OldestExpired(now, limit)
    <2>1. gone \in SUBSET Store!ExpiredRows(now)
      BY <1>5, <1>14
    <2>2. Store!Cardinality(gone) <= limit
      BY <1>12, <1>15, SameCount
    <2>3. gone # Store!ExpiredRows(now) => Store!Cardinality(gone) = limit
      BY <1>5, <1>16, SameCount
    <2>4. \A d \in gone, e \in Store!ExpiredRows(now) \ gone :
             by_id[d].expires <= by_id[e].expires
      BY <1>5, <1>17
    <2> QED
      BY <2>1, <2>2, <2>3, <2>4, Zenon DEF Store!OldestExpired
  <1>19. by_id' = [id \in rows \ gone |-> by_id[id]]
    BY <1>1, Zenon DEF PurgeExpired
  <1>20. by_id' = Store!Removed(gone)
    BY <1>1, <1>19, Zenon DEF Store!Removed
  <1>21. RowsFinite'
    <2>1. DOMAIN by_id' \in SUBSET rows
      BY <1>19
    <2> QED
      BY <1>3, <2>1, FS_Subset DEF RowsFinite
  <1> QED
    BY <1>18, <1>20, <1>21 DEF Store!PurgeExpired

\* Begin, compare-and-set and purge of MemoryStorage (storage.rs) do to the map what one
\* transaction of SqliteStorage does to the table: the index finds the rows that a query
\* would, and the set ordered by expiry yields those of ORDER BY expires_at LIMIT.
THEOREM ImplementsStore == Spec => RefinesStore
  <1>1. Init => Store!StoreInit /\ RowsFinite
    <2>1. ASSUME Init PROVE DOMAIN by_id = {}
      BY <2>1 DEF Init
    <2> QED
      BY <2>1, FS_EmptySet DEF Init, RowsFinite, Store!StoreInit
  <1>2. TypeOK /\ IndexesAgree /\ RowsFinite /\ [Next]_vars =>
           [Store!StoreNext]_by_id /\ RowsFinite'
    <2> SUFFICES ASSUME TypeOK, IndexesAgree, RowsFinite, [Next]_vars
                 PROVE  [Store!StoreNext]_by_id /\ RowsFinite'
      OBVIOUS
    <2>1. CASE UNCHANGED vars
      BY <2>1 DEF vars, RowsFinite
    <2>2. CASE \E rec \in Store!PreparedRecords : BeginOrExisting(rec)
      BY <2>2, BeginIsInsertion DEF Store!StoreNext
    <2>3. CASE \E caller \in Callers, id \in PublicIds, expected \in Store!Times,
                  u \in Store!Updates : CompareAndSet(caller, id, expected, u)
      BY <2>3, CasIsTransition DEF Store!StoreNext
    <2>4. CASE \E now \in Store!Times, limit \in 0 .. MaxPurgeRecords :
                  PurgeExpired(now, limit)
      BY <2>4, PurgeIsRemoval DEF Store!StoreNext
    <2> QED
      BY <2>1, <2>2, <2>3, <2>4 DEF Next
  <1> QED
    BY <1>1, <1>2, TypeCorrect, IndexesKept, PTL DEF Spec, RefinesStore, Store!StoreSpec
=============================================================================
