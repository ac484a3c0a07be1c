--------------------------- MODULE OutboundProofs ---------------------------
(***************************************************************************)
(* Proofs about the two parts that stand between the gateway and an        *)
(* upstream: the pool of processes, for every number of users, keys and    *)
(* slots, and one source's connection, for every number of callers and     *)
(* every restart budget.                                                   *)
(***************************************************************************)
EXTENDS ProcessPool, MCUpstream, FiniteSetTheorems, TLAPS

-----------------------------------------------------------------------------
(* The process pool: its inductive invariant.                              *)

\* Places that wait for a serialization lock under the mutex, that hold a
\* reference, and that hold a slot for a process that is not there yet.
Waits == {"serial", "serial_slot"}
Uses == {"held", "releasing"}
Spends == {"insert", "serial_slot"}

Entry ==
    [generation : Nat, references : Nat, budget : Nat, idle : BOOLEAN,
     guard : Users \cup {None}]
User == [pc : Places, key : Keys \cup {None}, generation : Nat]

\* A user that is in acquire or release, or holds a permit, has named a process.
Asks(l) == l.pc \notin {"away", "visit"} => l.key \in Keys

EntriesOK(E) ==
    DOMAIN E \subseteq Keys /\ E \in [DOMAIN E -> Entry] /\ IsFiniteSet(DOMAIN E)

TypeOK ==
    /\ EntriesOK(entries)
    /\ slots \in Nat
    /\ user \in [Users -> User] /\ \A u \in Users : Asks(user[u])
    /\ lost \in [Keys -> Nat]

\* However many users there may be, finitely many have called.
Busy == {u \in Users : user[u].pc # "away"}

\* User u with locals l, entries E and the mutex m: it waits for a lock only while
\* it keeps the mutex, so that the entry stays, and it uses a serialized process
\* only with the lock of that very entry.
Guarded(u, l, E, m) ==
    /\ l.pc \in Waits => m = u /\ l.key \in DOMAIN E \cap Serialized
    /\ l.pc = "held" /\ l.key \in Serialized => l.key \in DOMAIN E /\ E[l.key].guard = u

PoolInv ==
    /\ TypeOK
    /\ IsFiniteSet(Busy)
    /\ \A u \in Users : Guarded(u, user[u], entries, mutex)
    /\ UsesAccounted

-----------------------------------------------------------------------------
(* Counting users.                                                         *)

Using(l, key) == IF l.key = key /\ l.pc \in Uses THEN 1 ELSE 0
Spending(l) == IF l.pc \in Spends THEN 1 ELSE 0
UsersWith(U, key) == {u \in Users : U[u].key = key /\ U[u].pc \in Uses}
Spenders(U) == {u \in Users : U[u].pc \in Spends}
References(E, key) == IF key \in DOMAIN E THEN E[key].references ELSE 0

\* A set from which u leaves, or which it joins.
LEMMA CountMove ==
    ASSUME NEW S, NEW T, NEW u, NEW i \in {0, 1}, NEW j \in {0, 1}, IsFiniteSet(S),
           u \in S <=> i = 1,
           j = 1 => T = S \cup {u}, j = 0 => T = S \ {u}
    PROVE  /\ IsFiniteSet(T) /\ Cardinality(S) \in Nat /\ Cardinality(T) \in Nat
           /\ Cardinality(T) + i = Cardinality(S) + j
  <1>1. Cardinality(S) \in Nat
    BY FS_CardinalityType
  <1>2. CASE j = 1
    <2>1. T = S \cup {u}
      BY <1>2
    <2>2. IsFiniteSet(T) /\ Cardinality(T) = IF u \in S THEN Cardinality(S)
                                             ELSE Cardinality(S) + 1
      BY <2>1, FS_AddElement
    <2> QED
      BY <1>1, <1>2, <2>2
  <1>3. CASE j = 0
    <2>1. T = S \ {u}
      BY <1>3
    <2>2. IsFiniteSet(T) /\ Cardinality(T) = IF u \in S THEN Cardinality(S) - 1
                                             ELSE Cardinality(S)
      BY <2>1, FS_RemoveElement
    <2>3. Cardinality(T) \in Nat
      BY <2>2, FS_CardinalityType
    <2> QED
      BY <1>1, <1>3, <2>2, <2>3
  <1> QED
    BY <1>2, <1>3

\* What a step of user u does to the numbers of users.
LEMMA UserMoves ==
    ASSUME PoolInv, NEW u \in Users, NEW l \in User, Asks(l),
           user' = [user EXCEPT ![u] = l]
    PROVE  /\ user' \in [Users -> User] /\ \A v \in Users : Asks(user'[v])
           /\ \A v \in Users : user'[v] = IF v = u THEN l ELSE user[v]
           /\ IsFiniteSet(Busy')
           /\ \A key \in Keys :
                 /\ Cardinality(UsersWith(user, key)) \in Nat
                 /\ Cardinality(UsersWith(user', key)) \in Nat
                 /\ Cardinality(UsersWith(user', key)) + Using(user[u], key)
                       = Cardinality(UsersWith(user, key)) + Using(l, key)
           /\ Cardinality(Spenders(user)) \in Nat /\ Cardinality(Spenders(user')) \in Nat
           /\ Cardinality(Spenders(user')) + Spending(user[u]) = Cardinality(Spenders(user)) + Spending(l)
  <1>1. /\ user \in [Users -> User] /\ \A v \in Users : Asks(user[v])
        /\ IsFiniteSet(Busy)
    BY DEF PoolInv, TypeOK
  <1>2. \A v \in Users : user'[v] = IF v = u THEN l ELSE user[v]
    BY <1>1
  <1>3. user' \in [Users -> User] /\ \A v \in Users : Asks(user'[v])
    BY <1>1, <1>2
  <1>4. IsFiniteSet(Busy')
    <2>1. Busy' \in SUBSET (Busy \cup {u})
      BY <1>2 DEF Busy
    <2> QED
      BY <1>1, <2>1, FS_AddElement, FS_Subset
  <1>5. ASSUME NEW key \in Keys
        PROVE  /\ Cardinality(UsersWith(user, key)) \in Nat
               /\ Cardinality(UsersWith(user', key)) \in Nat
               /\ Cardinality(UsersWith(user', key)) + Using(user[u], key)
                     = Cardinality(UsersWith(user, key)) + Using(l, key)
    <2>1. UsersWith(user, key) \in SUBSET Busy
      BY DEF UsersWith, Uses, Busy
    <2>2. IsFiniteSet(UsersWith(user, key))
      BY <1>1, <2>1, FS_Subset
    <2>3. UsersWith(user', key) = IF Using(l, key) = 1 THEN UsersWith(user, key) \cup {u}
                                ELSE UsersWith(user, key) \ {u}
      BY <1>2 DEF UsersWith, Using
    <2>4. u \in UsersWith(user, key) <=> Using(user[u], key) = 1
      BY DEF UsersWith, Using
    <2>5. PICK i \in {0, 1} : i = Using(user[u], key)
      BY DEF Using
    <2>6. PICK j \in {0, 1} : j = Using(l, key)
      BY DEF Using
    <2>7. PICK S : S = UsersWith(user, key)
      OBVIOUS
    <2>8. PICK T : T = UsersWith(user', key)
      OBVIOUS
    <2>9. IsFiniteSet(S) /\ (u \in S <=> i = 1)
          /\ (j = 1 => T = S \cup {u}) /\ (j = 0 => T = S \ {u})
      BY <2>2, <2>3, <2>4, <2>5, <2>6, <2>7, <2>8
    <2>10. /\ Cardinality(S) \in Nat /\ Cardinality(T) \in Nat
           /\ Cardinality(T) + i = Cardinality(S) + j
      BY <2>5, <2>6, <2>9, CountMove
    <2> QED
      BY <2>5, <2>6, <2>7, <2>8, <2>10
  <1>6. /\ Cardinality(Spenders(user)) \in Nat /\ Cardinality(Spenders(user')) \in Nat
        /\ Cardinality(Spenders(user')) + Spending(user[u]) = Cardinality(Spenders(user)) + Spending(l)
    <2>1. Spenders(user) \in SUBSET Busy
      BY DEF Spenders, Spends, Busy
    <2>2. IsFiniteSet(Spenders(user))
      BY <1>1, <2>1, FS_Subset
    <2>3. Spenders(user') = IF Spending(l) = 1 THEN Spenders(user) \cup {u} ELSE Spenders(user) \ {u}
      BY <1>2 DEF Spenders, Spending
    <2>4. u \in Spenders(user) <=> Spending(user[u]) = 1
      BY DEF Spenders, Spending
    <2>5. PICK i \in {0, 1} : i = Spending(user[u])
      BY DEF Spending
    <2>6. PICK j \in {0, 1} : j = Spending(l)
      BY DEF Spending
    <2>7. PICK S : S = Spenders(user)
      OBVIOUS
    <2>8. PICK T : T = Spenders(user')
      OBVIOUS
    <2>9. IsFiniteSet(S) /\ (u \in S <=> i = 1)
          /\ (j = 1 => T = S \cup {u}) /\ (j = 0 => T = S \ {u})
      BY <2>2, <2>3, <2>4, <2>5, <2>6, <2>7, <2>8
    <2>10. /\ Cardinality(S) \in Nat /\ Cardinality(T) \in Nat
           /\ Cardinality(T) + i = Cardinality(S) + j
      BY <2>5, <2>6, <2>9, CountMove
    <2> QED
      BY <2>5, <2>6, <2>7, <2>8, <2>10
  <1> QED
    BY <1>2, <1>3, <1>4, <1>5, <1>6

-----------------------------------------------------------------------------
(* A step of one user.                                                     *)

\* The references and slots change by what user u takes or gives back, and the
\* entries and locks of others are left to them.
LEMMA MoveKeeps ==
    ASSUME PoolInv, NEW u \in Users, NEW l \in User, Asks(l),
           user' = [user EXCEPT ![u] = l],
           EntriesOK(entries'), lost' \in [Keys -> Nat], slots' \in Nat,
           \A key \in Keys :
              References(entries', key) + Using(user[u], key) + lost[key]
                 = References(entries, key) + Using(l, key) + lost'[key],
           slots' + Cardinality(DOMAIN entries') + Spending(l)
              = slots + Cardinality(DOMAIN entries) + Spending(user[u]),
           mutex' = mutex \/ mutex \in {None, u},
           DOMAIN entries \subseteq DOMAIN entries',
           \A key \in DOMAIN entries :
              entries[key].guard \notin {None, u} => entries'[key].guard = entries[key].guard,
           Guarded(u, l, entries', mutex')
    PROVE  PoolInv'
  <1>1. /\ user' \in [Users -> User] /\ \A v \in Users : Asks(user'[v])
        /\ \A v \in Users : user'[v] = IF v = u THEN l ELSE user[v]
        /\ IsFiniteSet(Busy')
        /\ \A key \in Keys :
              /\ Cardinality(UsersWith(user, key)) \in Nat
              /\ Cardinality(UsersWith(user', key)) \in Nat
              /\ Cardinality(UsersWith(user', key)) + Using(user[u], key)
                    = Cardinality(UsersWith(user, key)) + Using(l, key)
        /\ Cardinality(Spenders(user)) \in Nat /\ Cardinality(Spenders(user')) \in Nat
        /\ Cardinality(Spenders(user')) + Spending(user[u])
              = Cardinality(Spenders(user)) + Spending(l)
    BY UserMoves
  <1>2. TypeOK'
    BY <1>1 DEF TypeOK, EntriesOK
  <1>3. ASSUME NEW v \in Users
        PROVE  Guarded(v, user'[v], entries', mutex')
    <2>1. CASE v = u
      BY <1>1, <2>1
    <2>2. CASE v # u
      <3>1. user'[v] = user[v] /\ Guarded(v, user[v], entries, mutex) /\ v # None
        BY <1>1, <2>2, PoolConstants DEF PoolInv
      <3>2. user[v].pc \in Waits => mutex' = v /\ user[v].key \in DOMAIN entries' \cap Serialized
        BY <2>2, <3>1 DEF Guarded
      <3>3. user[v].pc = "held" /\ user[v].key \in Serialized =>
               user[v].key \in DOMAIN entries' /\ entries'[user[v].key].guard = v
        BY <2>2, <3>1 DEF Guarded
      <3> QED
        BY <3>1, <3>2, <3>3 DEF Guarded
    <2> QED
      BY <2>1, <2>2
  <1>4. \A key \in Keys :
           Cardinality(UsersWith(user', key)) + lost'[key] = References(entries', key)
    <2> SUFFICES ASSUME NEW key \in Keys
                 PROVE  Cardinality(UsersWith(user', key)) + lost'[key] = References(entries', key)
      OBVIOUS
    <2>1. /\ Cardinality(UsersWith(user, key)) \in Nat
          /\ Cardinality(UsersWith(user', key)) \in Nat
          /\ Cardinality(UsersWith(user', key)) + Using(user[u], key)
                = Cardinality(UsersWith(user, key)) + Using(l, key)
      BY <1>1
    <2>2. Cardinality(UsersWith(user, key)) + lost[key] = References(entries, key)
      BY DEF PoolInv, UsesAccounted, ReferencesExact, References, UsersOf, UsersWith, Uses
    <2>3. /\ References(entries, key) \in Nat /\ References(entries', key) \in Nat
          /\ lost[key] \in Nat /\ lost'[key] \in Nat
      BY DEF PoolInv, TypeOK, EntriesOK, References, Entry
    <2>4. Using(user[u], key) \in Nat /\ Using(l, key) \in Nat
      BY DEF Using
    <2>5. References(entries', key) + Using(user[u], key) + lost[key]
             = References(entries, key) + Using(l, key) + lost'[key]
      OBVIOUS
    <2> QED
      BY <2>1, <2>2, <2>3, <2>4, <2>5
  <1>5. ReferencesExact'
    BY <1>4 DEF ReferencesExact, References, UsersOf, UsersWith, Uses
  <1>6. SlotsConserved'
    <2>1. /\ Cardinality(Spenders(user)) \in Nat /\ Cardinality(Spenders(user')) \in Nat
          /\ Cardinality(Spenders(user')) + Spending(user[u]) = Cardinality(Spenders(user)) + Spending(l)
      BY <1>1
    <2>2. slots + Cardinality(DOMAIN entries) + Cardinality(Spenders(user)) = MaxProcesses
      BY DEF PoolInv, UsesAccounted, SlotsConserved, Spends, Spenders
    <2>3. /\ Cardinality(DOMAIN entries) \in Nat /\ Cardinality(DOMAIN entries') \in Nat
          /\ slots \in Nat
      BY FS_CardinalityType DEF PoolInv, TypeOK, EntriesOK
    <2>4. Spending(user[u]) \in Nat /\ Spending(l) \in Nat
      BY DEF Spending
    <2>5. slots' + Cardinality(DOMAIN entries') + Spending(l)
             = slots + Cardinality(DOMAIN entries) + Spending(user[u])
      OBVIOUS
    <2>6. slots' + Cardinality(DOMAIN entries') + Cardinality(Spenders(user')) = MaxProcesses
      BY <2>1, <2>2, <2>3, <2>4, <2>5, PoolConstants
    <2> QED
      BY <2>6 DEF SlotsConserved, Spends, Spenders
  <1> QED
    BY <1>1, <1>2, <1>3, <1>5, <1>6 DEF PoolInv, UsesAccounted, Guarded

-----------------------------------------------------------------------------
(* Entries and users that change.                                          *)

\* What the invariant says of a user and of an entry.
LEMMA PoolFacts ==
    ASSUME PoolInv
    PROVE  /\ EntriesOK(entries) /\ slots \in Nat /\ lost \in [Keys -> Nat]
           /\ user \in [Users -> User]
           /\ \A u \in Users : user[u] \in User /\ Asks(user[u])
                               /\ Guarded(u, user[u], entries, mutex)
           /\ \A key \in DOMAIN entries : key \in Keys /\ entries[key] \in Entry
           /\ Cardinality(DOMAIN entries) \in Nat
  BY FS_CardinalityType DEF PoolInv, TypeOK, EntriesOK

LEMMA EntryJoins ==
    ASSUME NEW E, EntriesOK(E), NEW key \in Keys, key \notin DOMAIN E, NEW e \in Entry, NEW F,
           F = [k \in DOMAIN E \cup {key} |-> IF k = key THEN e ELSE E[k]]
    PROVE  /\ EntriesOK(F) /\ DOMAIN F = DOMAIN E \cup {key}
           /\ \A k \in DOMAIN F : F[k] = IF k = key THEN e ELSE E[k]
           /\ \A k \in Keys : References(F, k) = IF k = key THEN e.references ELSE References(E, k)
           /\ Cardinality(DOMAIN F) = Cardinality(DOMAIN E) + 1
  <1>1. /\ DOMAIN F = DOMAIN E \cup {key}
        /\ \A k \in DOMAIN F : F[k] = IF k = key THEN e ELSE E[k]
    OBVIOUS
  <1>2. IsFiniteSet(DOMAIN F) /\ Cardinality(DOMAIN F) = Cardinality(DOMAIN E) + 1
    BY <1>1, FS_AddElement DEF EntriesOK
  <1>3. EntriesOK(F)
    BY <1>1, <1>2 DEF EntriesOK
  <1>4. \A k \in Keys : References(F, k) = IF k = key THEN e.references ELSE References(E, k)
    BY <1>1 DEF References
  <1> QED
    BY <1>1, <1>2, <1>3, <1>4

\* A user that goes to another place.
LEMMA UserGoes ==
    ASSUME PoolInv, NEW u \in Users, NEW place \in Places, Goto(u, place),
           user[u].pc \notin {"away", "visit"}
    PROVE  \E l \in User :
              /\ user' = [user EXCEPT ![u] = l]
              /\ l.pc = place /\ l.key = user[u].key /\ l.key \in Keys /\ Asks(l)
  <1>1. user[u] \in User /\ Asks(user[u])
    BY PoolFacts
  <1>2. PICK l : l = [user[u] EXCEPT !.pc = place]
    OBVIOUS
  <1>3. l \in User /\ l.pc = place /\ l.key = user[u].key
    BY <1>1, <1>2 DEF User
  <1>4. user' = [user EXCEPT ![u] = l]
    BY <1>2 DEF Goto
  <1> QED
    BY <1>1, <1>3, <1>4 DEF Asks

\* A user that receives its permit.
LEMMA UserHolds ==
    ASSUME PoolInv, NEW u \in Users, NEW generation \in Nat, Hold(u, generation),
           user[u].pc \notin {"away", "visit"}
    PROVE  \E l \in User :
              /\ user' = [user EXCEPT ![u] = l]
              /\ l.pc = "held" /\ l.key = user[u].key /\ l.key \in Keys /\ Asks(l)
  <1>1. user[u] \in User /\ Asks(user[u]) /\ user \in [Users -> User]
    BY PoolFacts
  <1>2. PICK l : l = [user[u] EXCEPT !.pc = "held", !.generation = generation]
    OBVIOUS
  <1>3. l \in User /\ l.pc = "held" /\ l.key = user[u].key
    BY <1>1, <1>2 DEF User, Places
  <1>4. user' = [user EXCEPT ![u] = l]
    BY <1>1, <1>2 DEF Hold
  <1> QED
    BY <1>1, <1>3, <1>4 DEF Asks

\* A user that goes away.
LEMMA AwayIsUser ==
    Away \in User /\ Away.pc = "away" /\ Asks(Away)
  BY DEF Away, User, Places, Asks

\* The entry that gains a reference.
Counted(e) == [e EXCEPT !.references = @ + 1]
Referenced(e) == [Counted(e) EXCEPT !.idle = FALSE]

LEMMA ReferencedIsEntry ==
    ASSUME NEW e \in Entry
    PROVE  /\ Referenced(e) \in Entry /\ Referenced(e).guard = e.guard
           /\ Referenced(e).references = e.references + 1
  <1>1. PICK c : c = Counted(e)
    OBVIOUS
  <1>2. c \in Entry /\ c.guard = e.guard /\ c.references = e.references + 1
    BY <1>1 DEF Counted, Entry
  <1>3. Referenced(e) = [c EXCEPT !.idle = FALSE]
    BY <1>1 DEF Referenced
  <1> QED
    BY <1>2, <1>3 DEF Entry

-----------------------------------------------------------------------------
(* Every step of a user keeps the invariant.                               *)

\* What u does to the numbers when it neither uses a process nor holds a slot.
LEMMA Sums ==
    ASSUME NEW l \in User
    PROVE  /\ \A key \in Keys : Using(l, key) = IF l.key = key /\ l.pc \in Uses THEN 1 ELSE 0
           /\ Spending(l) = IF l.pc \in Spends THEN 1 ELSE 0
  BY DEF Using, Spending

\* Steps that leave entries and permits alone.
LEMMA QuietKeeps ==
    ASSUME PoolInv, NEW u \in Users, NEW l \in User, Asks(l),
           user' = [user EXCEPT ![u] = l],
           user[u].pc \notin Uses, l.pc \notin Uses,
           entries' = entries, lost' = lost, slots' \in Nat,
           slots' + Spending(l) = slots + Spending(user[u]),
           mutex' = mutex \/ mutex \in {None, u},
           Guarded(u, l, entries, mutex')
    PROVE  PoolInv'
  <1>1. \A key \in Keys : Using(user[u], key) = 0 /\ Using(l, key) = 0
    BY DEF Using
  <1>2. \A key \in Keys :
           References(entries', key) + Using(user[u], key) + lost[key]
              = References(entries, key) + Using(l, key) + lost'[key]
    BY <1>1
  <1>3. slots' + Cardinality(DOMAIN entries') + Spending(l)
           = slots + Cardinality(DOMAIN entries) + Spending(user[u])
    <2>1. Spending(l) \in Nat /\ Spending(user[u]) \in Nat
      BY DEF Spending
    <2>2. slots \in Nat /\ Cardinality(DOMAIN entries) \in Nat
      BY PoolFacts
    <2> QED
      BY <2>1, <2>2
  <1>4. EntriesOK(entries') /\ lost' \in [Keys -> Nat]
    BY PoolFacts
  <1>5. Guarded(u, l, entries', mutex')
    OBVIOUS
  <1> QED
    BY <1>2, <1>3, <1>4, <1>5, MoveKeeps

LEMMA AcquireKeeps ==
    ASSUME PoolInv, NEW u \in Users, NEW key \in Keys, Acquire(u, key)
    PROVE  PoolInv'
  <1>1. PICK l : l = [Away EXCEPT !.pc = "lookup", !.key = key]
    OBVIOUS
  <1>2. l \in User /\ l.pc = "lookup" /\ Asks(l)
    BY <1>1 DEF Away, User, Places, Asks
  <1>3. user' = [user EXCEPT ![u] = l]
    BY <1>1 DEF Acquire
  <1>4. user[u].pc = "away" /\ UNCHANGED <<entries, mutex, slots, lost>>
    BY DEF Acquire
  <1>5. user[u].pc \notin Uses /\ l.pc \notin Uses /\ Guarded(u, l, entries, mutex')
    BY <1>2, <1>4 DEF Uses, Waits, Guarded
  <1>6. Spending(l) = 0 /\ Spending(user[u]) = 0 /\ slots' \in Nat
    BY <1>2, <1>4, PoolFacts DEF Spending, Spends
  <1> QED
    BY <1>2, <1>3, <1>4, <1>5, <1>6, QuietKeeps

\* A reference to an entry that needs no lock, or whose lock u takes with it.
LEMMA UseKeeps ==
    ASSUME PoolInv, NEW u \in Users, NEW l \in User, Asks(l), NEW key \in DOMAIN entries,
           user' = [user EXCEPT ![u] = l],
           user[u].pc \notin Uses, l.pc = "held", l.key = key,
           NEW e \in Entry, e.references = entries[key].references + 1,
           entries' = [entries EXCEPT ![key] = e],
           e.guard = entries[key].guard \/ (entries[key].guard = None /\ e.guard = u),
           key \in Serialized => e.guard = u,
           lost' = lost,
           slots' = slots + Spending(user[u]),
           mutex' = mutex \/ mutex \in {None, u}
    PROVE  PoolInv'
  <1>1. /\ EntriesOK(entries') /\ DOMAIN entries' = DOMAIN entries
        /\ \A k \in DOMAIN entries : entries'[k] = IF k = key THEN e ELSE entries[k]
        /\ \A k \in Keys :
              References(entries', k) = IF k = key THEN e.references ELSE References(entries, k)
    <2>1. EntriesOK(entries)
      BY PoolFacts
    <2>2. DOMAIN entries' = DOMAIN entries
          /\ \A k \in DOMAIN entries : entries'[k] = IF k = key THEN e ELSE entries[k]
      BY <2>1 DEF EntriesOK
    <2>3. EntriesOK(entries')
      BY <2>1, <2>2 DEF EntriesOK
    <2> QED
      BY <2>2, <2>3 DEF References
  <1>2. /\ \A k \in Keys : References(entries, k) \in Nat /\ lost[k] \in Nat
        /\ References(entries, key) = entries[key].references /\ key \in Keys
        /\ entries[key].references \in Nat
    <2>1. \A k \in DOMAIN entries : k \in Keys /\ entries[k].references \in Nat
      BY PoolFacts DEF Entry
    <2>2. \A k \in Keys : lost[k] \in Nat
      BY PoolFacts
    <2> QED
      BY <2>1, <2>2 DEF References
  <1>3. \A k \in Keys : Using(user[u], k) = 0 /\ Using(l, k) = IF k = key THEN 1 ELSE 0
    BY DEF Using, Uses
  <1>4. ASSUME NEW k \in Keys
        PROVE  References(entries', k) + Using(user[u], k) + lost[k]
                  = References(entries, k) + Using(l, k) + lost'[k]
    <2>1. CASE k = key
      <3>1. /\ References(entries', k) = References(entries, k) + 1
            /\ Using(user[u], k) = 0 /\ Using(l, k) = 1
            /\ References(entries, k) \in Nat /\ lost[k] \in Nat /\ lost'[k] = lost[k]
        BY <1>1, <1>2, <1>3, <2>1
      <3> QED
        BY <3>1
    <2>2. CASE k # key
      BY <1>1, <1>2, <1>3, <2>2
    <2> QED
      BY <2>1, <2>2
  <1>5. Spending(l) = 0 /\ Spending(user[u]) \in Nat
    BY DEF Spending, Spends
  <1>6. slots \in Nat /\ Cardinality(DOMAIN entries) \in Nat
    BY PoolFacts
  <1>7. /\ slots' \in Nat
        /\ slots' + Cardinality(DOMAIN entries') + Spending(l)
              = slots + Cardinality(DOMAIN entries) + Spending(user[u])
    BY <1>1, <1>5, <1>6
  <1>8. \A k \in DOMAIN entries :
           entries[k].guard \notin {None, u} => entries'[k].guard = entries[k].guard
    BY <1>1
  <1>9. Guarded(u, l, entries', mutex')
    BY <1>1 DEF Guarded, Waits
  <1>10. lost' \in [Keys -> Nat] /\ DOMAIN entries \subseteq DOMAIN entries'
    BY <1>1, PoolFacts
  <1> QED
    BY <1>1, <1>4, <1>7, <1>8, <1>9, <1>10, MoveKeeps

\* Sharing an entry that needs no lock.
LEMMA ShareKeeps ==
    ASSUME PoolInv, NEW u \in Users, NEW key \in DOMAIN entries \ Serialized,
           user[u].pc \in {"lookup", "insert"}, user[u].key = key, Share(u, key),
           slots' = slots + Spending(user[u]), mutex' = mutex, lost' = lost
    PROVE  PoolInv'
  <1>1. entries[key] \in Entry
    BY PoolFacts
  <1>2. entries[key].generation \in Nat /\ user[u].pc # "away"
    BY <1>1 DEF Entry
  <1>3. PICK l \in User : /\ user' = [user EXCEPT ![u] = l] /\ Asks(l)
                          /\ l.pc = "held" /\ l.key = key
    BY <1>2, UserHolds DEF Share
  <1>4. PICK e : e = Referenced(entries[key])
    OBVIOUS
  <1>5. e \in Entry /\ e.guard = entries[key].guard
        /\ e.references = entries[key].references + 1
    BY <1>1, <1>4, ReferencedIsEntry
  <1>6. entries' = [entries EXCEPT ![key] = e]
    BY <1>4, PoolFacts DEF Share, Referenced, Counted, EntriesOK
  <1>7. user[u].pc \notin Uses
    BY DEF Uses
  <1> QED
    BY <1>3, <1>5, <1>6, <1>7, UseKeeps

LEMMA AcquireExistingKeeps ==
    ASSUME PoolInv, NEW u \in Users, AcquireExisting(u)
    PROVE  PoolInv'
  <1>1. user[u].pc = "lookup" /\ mutex = None /\ lost' = lost /\ slots' = slots /\ slots \in Nat
    BY PoolFacts DEF AcquireExisting, MutexFree
  <1>2. user[u].pc \notin Uses /\ Spending(user[u]) = 0
    BY <1>1 DEF Uses, Spending, Spends
  <1>3. CASE user[u].key \notin DOMAIN entries /\ Goto(u, "slot") /\ UNCHANGED <<entries, mutex>>
    <2>1. PICK l \in User : /\ user' = [user EXCEPT ![u] = l] /\ Asks(l) /\ l.pc = "slot"
      BY <1>1, <1>3, UserGoes DEF Places
    <2>2. l.pc \notin Uses /\ Spending(l) = 0 /\ Guarded(u, l, entries, mutex')
      BY <2>1 DEF Uses, Spending, Spends, Guarded, Waits
    <2> QED
      BY <1>1, <1>2, <1>3, <2>1, <2>2, QuietKeeps
  <1>4. CASE user[u].key \in DOMAIN entries \ Serialized /\ Share(u, user[u].key)
             /\ mutex' = mutex
    <2>1. slots' = slots + Spending(user[u])
      BY <1>1, <1>2
    <2> QED
      BY <1>1, <1>4, <2>1, ShareKeeps
  <1>5. CASE /\ user[u].key \in DOMAIN entries \cap Serialized
             /\ mutex' = u /\ Goto(u, "serial") /\ entries' = entries
    <2>1. PICK l \in User : /\ user' = [user EXCEPT ![u] = l] /\ Asks(l) /\ l.pc = "serial"
                            /\ l.key = user[u].key
      BY <1>1, <1>5, UserGoes DEF Places
    <2>2. l.pc \notin Uses /\ Spending(l) = 0 /\ Guarded(u, l, entries, mutex')
      BY <1>5, <2>1 DEF Uses, Spending, Spends, Guarded, Waits
    <2> QED
      BY <1>1, <1>2, <1>5, <2>1, <2>2, QuietKeeps
  <1> QED
    BY <1>3, <1>4, <1>5 DEF AcquireExisting

LEMMA TakeSlotKeeps ==
    ASSUME PoolInv, NEW u \in Users, TakeSlot(u)
    PROVE  PoolInv'
  <1>1. /\ user[u].pc = "slot" /\ Goto(u, "insert") /\ UNCHANGED <<entries, mutex, lost>>
        /\ slots \in Nat /\ slots > 0 /\ slots' = slots - 1
    BY PoolFacts DEF TakeSlot
  <1>2. PICK l \in User : /\ user' = [user EXCEPT ![u] = l] /\ Asks(l) /\ l.pc = "insert"
    BY <1>1, UserGoes DEF Places
  <1>3. /\ l.pc \notin Uses /\ Spending(l) = 1 /\ Guarded(u, l, entries, mutex')
        /\ user[u].pc \notin Uses /\ Spending(user[u]) = 0
    BY <1>1, <1>2 DEF Uses, Spending, Spends, Guarded, Waits
  <1>4. slots' \in Nat /\ slots' + Spending(l) = slots + Spending(user[u])
    BY <1>1, <1>3
  <1> QED
    BY <1>1, <1>2, <1>3, <1>4, QuietKeeps

LEMMA SlotTimeoutKeeps ==
    ASSUME PoolInv, NEW u \in Users, SlotTimeout(u)
    PROVE  PoolInv'
  <1>1. /\ user[u].pc = "slot" /\ user' = [user EXCEPT ![u] = Away]
        /\ UNCHANGED <<entries, mutex, slots, lost>> /\ slots \in Nat
    BY PoolFacts DEF SlotTimeout
  <1>2. /\ Away.pc \notin Uses /\ Spending(Away) = 0 /\ Guarded(u, Away, entries, mutex')
        /\ user[u].pc \notin Uses /\ Spending(user[u]) = 0
    BY <1>1, AwayIsUser DEF Uses, Spending, Spends, Guarded, Waits
  <1> QED
    BY <1>1, <1>2, AwayIsUser, QuietKeeps

LEMMA CancelKeeps ==
    ASSUME PoolInv, NEW u \in Users, Cancel(u)
    PROVE  PoolInv'
  <1>1. /\ user[u].pc \in {"lookup", "slot", "insert", "serial", "serial_slot", "visit"}
        /\ user' = [user EXCEPT ![u] = Away]
        /\ entries' = entries /\ lost' = lost /\ slots \in Nat
        /\ mutex' = IF mutex = u THEN None ELSE mutex
        /\ slots' = IF user[u].pc \in {"insert", "serial_slot"} THEN slots + 1 ELSE slots
    BY PoolFacts DEF Cancel
  <1>2. /\ Away.pc \notin Uses /\ Spending(Away) = 0 /\ Guarded(u, Away, entries, mutex')
        /\ user[u].pc \notin Uses
    BY <1>1, AwayIsUser DEF Uses, Spending, Spends, Guarded, Waits
  <1>3. Spending(user[u]) = IF user[u].pc \in {"insert", "serial_slot"} THEN 1 ELSE 0
    BY DEF Spending, Spends
  <1>4. slots' \in Nat /\ slots' + Spending(Away) = slots + Spending(user[u])
    BY <1>1, <1>2, <1>3
  <1>5. mutex' = mutex \/ mutex' = None
    BY <1>1
  <1>6. mutex' = mutex \/ mutex \in {None, u}
    BY <1>1
  <1> QED
    BY <1>1, <1>2, <1>4, <1>6, AwayIsUser, QuietKeeps

LEMMA SerializeKeeps ==
    ASSUME PoolInv, NEW u \in Users, Serialize(u)
    PROVE  PoolInv'
  <1>1. PICK key : key = user[u].key
    OBVIOUS
  <1>2. /\ user[u].pc \in {"serial", "serial_slot"}
        /\ entries[key].guard = None
        /\ entries' = [entries EXCEPT ![key].guard = u, ![key].references = @ + 1,
                                      ![key].idle = FALSE]
        /\ Hold(u, entries[key].generation)
        /\ slots' = IF user[u].pc = "serial_slot" THEN slots + 1 ELSE slots
        /\ mutex' = None /\ lost' = lost /\ slots \in Nat
    BY <1>1, PoolFacts DEF Serialize
  <1>3. mutex = u /\ key \in DOMAIN entries \cap Serialized
    BY <1>1, <1>2, PoolFacts DEF Guarded, Waits
  <1>4. entries[key] \in Entry
    BY <1>3, PoolFacts
  <1>5. entries[key].generation \in Nat /\ user[u].pc # "away"
    BY <1>2, <1>4 DEF Entry
  <1>6. PICK l \in User : /\ user' = [user EXCEPT ![u] = l] /\ Asks(l)
                          /\ l.pc = "held" /\ l.key = key
    BY <1>1, <1>2, <1>5, UserHolds
  <1>7. PICK g : g = [entries[key] EXCEPT !.guard = u]
    OBVIOUS
  <1>8. g \in Entry /\ g.guard = u /\ g.references = entries[key].references
    BY <1>4, <1>7 DEF Entry
  <1>9. PICK e : e = Referenced(g)
    OBVIOUS
  <1>10. e \in Entry /\ e.guard = u /\ e.references = entries[key].references + 1
    BY <1>8, <1>9, ReferencedIsEntry
  <1>11. entries' = [entries EXCEPT ![key] = e]
    BY <1>2, <1>3, <1>7, <1>9, PoolFacts DEF Referenced, Counted, EntriesOK
  <1>12. user[u].pc \notin Uses /\ slots' = slots + Spending(user[u])
    BY <1>2 DEF Uses, Spending, Spends
  <1>13. /\ key \in DOMAIN entries /\ lost' = lost
         /\ e.guard = entries[key].guard \/ (entries[key].guard = None /\ e.guard = u)
         /\ key \in Serialized => e.guard = u
         /\ mutex' = mutex \/ mutex \in {None, u}
    BY <1>2, <1>3, <1>10
  <1> QED
    BY <1>6, <1>10, <1>11, <1>12, <1>13, UseKeeps

LEMMA InsertKeeps ==
    ASSUME PoolInv, NEW u \in Users, Insert(u)
    PROVE  PoolInv'
  <1>1. PICK key : key = user[u].key
    OBVIOUS
  <1>2. /\ user[u].pc = "insert" /\ mutex = None /\ lost' = lost /\ slots \in Nat
        /\ key \in Keys
    BY <1>1, PoolFacts DEF Insert, MutexFree, Asks
  <1>3. user[u].pc \notin Uses /\ Spending(user[u]) = 1
    BY <1>2 DEF Uses, Spending, Spends
  <1>4. CASE key \in DOMAIN entries \ Serialized /\ Share(u, key) /\ slots' = slots + 1
             /\ mutex' = mutex
    <2>1. slots' = slots + Spending(user[u])
      BY <1>3, <1>4
    <2> QED
      BY <1>1, <1>2, <1>4, <2>1, ShareKeeps
  <1>5. CASE /\ key \in DOMAIN entries \cap Serialized
             /\ mutex' = u /\ Goto(u, "serial_slot") /\ entries' = entries /\ slots' = slots
    <2>1. PICK l \in User : /\ user' = [user EXCEPT ![u] = l] /\ Asks(l)
                            /\ l.pc = "serial_slot" /\ l.key = key
      BY <1>1, <1>2, <1>5, UserGoes DEF Places
    <2>2. l.pc \notin Uses /\ Spending(l) = 1 /\ Guarded(u, l, entries, mutex')
      BY <1>5, <2>1 DEF Uses, Spending, Spends, Guarded, Waits
    <2>3. slots' \in Nat /\ slots' + Spending(l) = slots + Spending(user[u])
      BY <1>2, <1>3, <1>5, <2>2
    <2> QED
      BY <1>2, <1>3, <1>5, <2>1, <2>2, <2>3, QuietKeeps
  <1>6. CASE /\ key \notin DOMAIN entries
             /\ entries' = [k \in DOMAIN entries \cup {key} |->
                   IF k = key THEN NewEntry(IF key \in Serialized THEN u ELSE None)
                   ELSE entries[k]]
             /\ Hold(u, 1) /\ mutex' = mutex /\ slots' = slots
    <2>1. PICK l \in User : /\ user' = [user EXCEPT ![u] = l] /\ Asks(l)
                            /\ l.pc = "held" /\ l.key = key
      BY <1>1, <1>2, <1>6, UserHolds
    <2>2. PICK e : e = NewEntry(IF key \in Serialized THEN u ELSE None)
      OBVIOUS
    <2>3. /\ e \in Entry /\ e.references = 1
          /\ e.guard = IF key \in Serialized THEN u ELSE None
      BY <2>2, PoolConstants DEF NewEntry, Entry
    <2>4. EntriesOK(entries)
      BY PoolFacts
    <2>5. entries' = [k \in DOMAIN entries \cup {key} |-> IF k = key THEN e ELSE entries[k]]
      BY <1>6, <2>2
    <2>6. /\ EntriesOK(entries') /\ DOMAIN entries' = DOMAIN entries \cup {key}
          /\ \A k \in DOMAIN entries' : entries'[k] = IF k = key THEN e ELSE entries[k]
          /\ \A k \in Keys :
                References(entries', k) = IF k = key THEN e.references ELSE References(entries, k)
          /\ Cardinality(DOMAIN entries') = Cardinality(DOMAIN entries) + 1
      BY <1>2, <1>6, <2>3, <2>4, <2>5, EntryJoins
    <2>7. \A k \in Keys : Using(user[u], k) = 0 /\ Using(l, k) = IF k = key THEN 1 ELSE 0
      BY <1>3, <2>1 DEF Using, Uses
    <2>8. /\ \A k \in Keys : References(entries, k) \in Nat /\ lost[k] \in Nat
          /\ References(entries, key) = 0
      <3>1. \A k \in DOMAIN entries : entries[k].references \in Nat
        BY PoolFacts DEF Entry
      <3>2. \A k \in Keys : lost[k] \in Nat
        BY PoolFacts
      <3> QED
        BY <1>6, <3>1, <3>2 DEF References
    <2>9. ASSUME NEW k \in Keys
          PROVE  References(entries', k) + Using(user[u], k) + lost[k]
                    = References(entries, k) + Using(l, k) + lost'[k]
      <3>1. CASE k = key
        <4>1. /\ References(entries', k) = 1 /\ References(entries, k) = 0
              /\ Using(user[u], k) = 0 /\ Using(l, k) = 1
              /\ lost[k] \in Nat /\ lost'[k] = lost[k]
          BY <1>2, <2>3, <2>6, <2>7, <2>8, <3>1
        <4> QED
          BY <4>1
      <3>2. CASE k # key
        BY <1>2, <2>6, <2>7, <2>8, <3>2
      <3> QED
        BY <3>1, <3>2
    <2>10. Spending(l) = 0 /\ Cardinality(DOMAIN entries) \in Nat
      BY <2>1, PoolFacts DEF Spending, Spends
    <2>11. /\ slots' \in Nat
           /\ slots' + Cardinality(DOMAIN entries') + Spending(l)
                 = slots + Cardinality(DOMAIN entries) + Spending(user[u])
      BY <1>2, <1>3, <1>6, <2>6, <2>10
    <2>12. \A k \in DOMAIN entries :
              entries[k].guard \notin {None, u} => entries'[k].guard = entries[k].guard
      BY <1>6, <2>6
    <2>13. Guarded(u, l, entries', mutex')
      BY <2>1, <2>3, <2>6 DEF Guarded, Waits
    <2>14. /\ lost' \in [Keys -> Nat] /\ DOMAIN entries \subseteq DOMAIN entries'
           /\ (mutex' = mutex \/ mutex \in {None, u})
      BY <1>2, <1>6, <2>6, PoolFacts
    <2> QED
      BY <2>1, <2>6, <2>9, <2>11, <2>12, <2>13, <2>14, MoveKeeps
  <1> QED
    BY <1>1, <1>4, <1>5, <1>6 DEF Insert

-----------------------------------------------------------------------------
(* Giving a process back.                                                  *)

\* A dropped guard frees the lock of u's entry and no other.
LEMMA GuardDropped ==
    ASSUME PoolInv, NEW u \in Users
    PROVE  /\ EntriesOK(WithoutGuard(u)) /\ DOMAIN WithoutGuard(u) = DOMAIN entries
           /\ \A k \in DOMAIN entries :
                 /\ WithoutGuard(u)[k].references = entries[k].references
                 /\ entries[k].guard # u => WithoutGuard(u)[k].guard = entries[k].guard
           /\ \A k \in Keys : References(WithoutGuard(u), k) = References(entries, k)
  <1>1. PICK key : key = user[u].key
    OBVIOUS
  <1>2. EntriesOK(entries)
    BY PoolFacts
  <1>3. CASE key \in DOMAIN entries /\ entries[key].guard = u
    <2>1. entries[key] \in Entry
      BY <1>2, <1>3 DEF EntriesOK
    <2>2. PICK e : e = [entries[key] EXCEPT !.guard = None]
      OBVIOUS
    <2>3. e \in Entry /\ e.references = entries[key].references
      BY <2>1, <2>2 DEF Entry
    <2>4. PICK E : E = WithoutGuard(u)
      OBVIOUS
    <2>5. E = [entries EXCEPT ![key] = e]
      BY <1>1, <1>3, <2>2, <2>4 DEF WithoutGuard
    <2>6. /\ DOMAIN E = DOMAIN entries
          /\ \A k \in DOMAIN entries : E[k] = IF k = key THEN e ELSE entries[k]
      BY <1>2, <2>5 DEF EntriesOK
    <2>7. EntriesOK(E)
      BY <1>2, <2>3, <2>5, <2>6 DEF EntriesOK
    <2>8. \A k \in DOMAIN entries :
             /\ E[k].references = entries[k].references
             /\ entries[k].guard # u => E[k].guard = entries[k].guard
      BY <1>3, <2>3, <2>6
    <2>9. \A k \in Keys : References(E, k) = References(entries, k)
      BY <2>6, <2>8 DEF References
    <2> QED
      BY <2>4, <2>6, <2>7, <2>8, <2>9
  <1>4. CASE ~(key \in DOMAIN entries /\ entries[key].guard = u)
    <2>1. WithoutGuard(u) = entries
      BY <1>1, <1>4 DEF WithoutGuard
    <2> QED
      BY <1>2, <2>1
  <1> QED
    BY <1>3, <1>4

LEMMA DropGuardKeeps ==
    ASSUME PoolInv, NEW u \in Users, DropGuard(u)
    PROVE  PoolInv'
  <1>1. /\ user[u].pc = "held" /\ entries' = WithoutGuard(u) /\ Goto(u, "releasing")
        /\ UNCHANGED <<mutex, slots, lost>> /\ slots \in Nat
        /\ lost \in [Keys -> Nat] /\ Cardinality(DOMAIN entries) \in Nat
    BY PoolFacts DEF DropGuard
  <1>2. PICK l \in User : /\ user' = [user EXCEPT ![u] = l] /\ Asks(l)
                          /\ l.pc = "releasing" /\ l.key = user[u].key
    BY <1>1, UserGoes DEF Places
  <1>3. /\ EntriesOK(entries') /\ DOMAIN entries' = DOMAIN entries
        /\ \A k \in DOMAIN entries :
              entries[k].guard # u => entries'[k].guard = entries[k].guard
        /\ \A k \in Keys : References(entries', k) = References(entries, k)
    BY <1>1, GuardDropped
  <1>4. \A k \in Keys : Using(user[u], k) = Using(l, k)
    BY <1>1, <1>2 DEF Using, Uses
  <1>5. \A k \in Keys :
           References(entries', k) + Using(user[u], k) + lost[k]
              = References(entries, k) + Using(l, k) + lost'[k]
    BY <1>1, <1>3, <1>4
  <1>6. Spending(l) = 0 /\ Spending(user[u]) = 0
    BY <1>1, <1>2 DEF Spending, Spends
  <1>7. slots' + Cardinality(DOMAIN entries') + Spending(l)
           = slots + Cardinality(DOMAIN entries) + Spending(user[u])
    BY <1>1, <1>3, <1>6
  <1>8. /\ Guarded(u, l, entries', mutex') /\ DOMAIN entries \subseteq DOMAIN entries'
        /\ \A k \in DOMAIN entries :
              entries[k].guard \notin {None, u} => entries'[k].guard = entries[k].guard
    BY <1>2, <1>3 DEF Guarded, Waits
  <1>9. slots' \in Nat /\ lost' \in [Keys -> Nat]
        /\ (mutex' = mutex \/ mutex \in {None, u})
    BY <1>1
  <1> QED
    BY <1>2, <1>3, <1>5, <1>7, <1>8, <1>9, MoveKeeps

LEMMA LoseKeeps ==
    ASSUME PoolInv, NEW u \in Users, Lose(u)
    PROVE  PoolInv'
  <1>1. PICK key : key = user[u].key
    OBVIOUS
  <1>2. /\ user[u].pc \in Uses /\ entries' = WithoutGuard(u)
        /\ lost' = [lost EXCEPT ![key] = @ + 1]
        /\ user' = [user EXCEPT ![u] = Away]
        /\ mutex' = mutex /\ slots' = slots /\ slots \in Nat
    BY <1>1, PoolFacts DEF Lose, Uses
  <1>3. key \in Keys /\ lost \in [Keys -> Nat] /\ Cardinality(DOMAIN entries) \in Nat
    BY <1>1, <1>2, PoolFacts DEF Uses, Asks
  <1>4. /\ EntriesOK(entries') /\ DOMAIN entries' = DOMAIN entries
        /\ \A k \in DOMAIN entries :
              entries[k].guard # u => entries'[k].guard = entries[k].guard
        /\ \A k \in Keys : References(entries', k) = References(entries, k)
    BY <1>2, GuardDropped
  <1>5. lost' \in [Keys -> Nat] /\ \A k \in Keys : lost'[k] = IF k = key THEN lost[k] + 1 ELSE lost[k]
    BY <1>2, <1>3
  <1>6. \A k \in Keys : Using(user[u], k) = (IF k = key THEN 1 ELSE 0) /\ Using(Away, k) = 0
    BY <1>1, <1>2, AwayIsUser DEF Using, Uses
  <1>7. \A k \in Keys : References(entries, k) \in Nat /\ lost[k] \in Nat
    <2>1. \A k \in DOMAIN entries : entries[k].references \in Nat
      BY PoolFacts DEF Entry
    <2> QED
      BY <1>3, <2>1 DEF References
  <1>8. ASSUME NEW k \in Keys
        PROVE  References(entries', k) + Using(user[u], k) + lost[k]
                  = References(entries, k) + Using(Away, k) + lost'[k]
    <2>1. CASE k = key
      BY <1>4, <1>5, <1>6, <1>7, <2>1
    <2>2. CASE k # key
      BY <1>4, <1>5, <1>6, <1>7, <2>2
    <2> QED
      BY <2>1, <2>2
  <1>9. Spending(Away) = 0 /\ Spending(user[u]) = 0
    BY <1>2, AwayIsUser DEF Spending, Spends, Uses
  <1>10. slots' + Cardinality(DOMAIN entries') + Spending(Away)
            = slots + Cardinality(DOMAIN entries) + Spending(user[u])
    BY <1>2, <1>4, <1>9
  <1>11. /\ Guarded(u, Away, entries', mutex') /\ DOMAIN entries \subseteq DOMAIN entries'
         /\ \A k \in DOMAIN entries :
               entries[k].guard \notin {None, u} => entries'[k].guard = entries[k].guard
    BY <1>4, AwayIsUser DEF Guarded, Waits
  <1>12. slots' \in Nat /\ (mutex' = mutex \/ mutex \in {None, u})
    BY <1>2
  <1> QED
    BY <1>2, <1>4, <1>5, <1>8, <1>10, <1>11, <1>12, AwayIsUser, MoveKeeps

\* A permit is one of the references counted.
LEMMA PermitCounted ==
    ASSUME PoolInv, NEW u \in Users, user[u].pc = "releasing",
           user' = [user EXCEPT ![u] = Away]
    PROVE  user[u].key \in DOMAIN entries /\ entries[user[u].key].references > 0
  <1>1. user[u].key \in Keys
    BY PoolFacts DEF Asks
  <1>2. /\ Cardinality(UsersWith(user, user[u].key)) \in Nat
        /\ Cardinality(UsersWith(user', user[u].key)) \in Nat
        /\ Cardinality(UsersWith(user', user[u].key)) + Using(user[u], user[u].key)
              = Cardinality(UsersWith(user, user[u].key)) + Using(Away, user[u].key)
    BY <1>1, AwayIsUser, UserMoves
  <1>3. Using(user[u], user[u].key) = 1 /\ Using(Away, user[u].key) = 0
    BY AwayIsUser DEF Using, Uses
  <1>4. Cardinality(UsersWith(user, user[u].key)) > 0
    BY <1>2, <1>3
  <1>5. Cardinality(UsersWith(user, user[u].key)) + lost[user[u].key]
           = References(entries, user[u].key)
    BY <1>1 DEF PoolInv, UsesAccounted, ReferencesExact, References, UsersOf, UsersWith, Uses
  <1>6. lost[user[u].key] \in Nat
    BY <1>1, PoolFacts
  <1>7. References(entries, user[u].key) > 0
    BY <1>2, <1>4, <1>5, <1>6
  <1> QED
    BY <1>7 DEF References

\* The entry that a permit is given back to.
Unreferenced(e) == [[e EXCEPT !.references = @ - 1] EXCEPT !.idle = (e.references = 1)]

LEMMA UnreferencedIsEntry ==
    ASSUME NEW e \in Entry, e.references > 0
    PROVE  /\ Unreferenced(e) \in Entry /\ Unreferenced(e).guard = e.guard
           /\ Unreferenced(e).references = e.references - 1
  <1>1. PICK c : c = [e EXCEPT !.references = @ - 1]
    OBVIOUS
  <1>2. e.references \in Nat /\ e.references - 1 \in Nat
    BY DEF Entry
  <1>3. c \in Entry /\ c.guard = e.guard /\ c.references = e.references - 1
    BY <1>1, <1>2 DEF Entry
  <1>4. PICK b : b = (e.references = 1)
    OBVIOUS
  <1>5. b \in BOOLEAN
    BY <1>4
  <1>6. Unreferenced(e) = [c EXCEPT !.idle = b]
    BY <1>1, <1>4 DEF Unreferenced
  <1> QED
    BY <1>3, <1>5, <1>6 DEF Entry

LEMMA ReleaseKeeps ==
    ASSUME PoolInv, NEW u \in Users, Release(u)
    PROVE  PoolInv'
  <1>1. PICK key : key = user[u].key
    OBVIOUS
  <1>2. /\ user[u].pc = "releasing" /\ user' = [user EXCEPT ![u] = Away]
        /\ mutex' = mutex /\ slots' = slots /\ lost' = lost /\ slots \in Nat
        /\ lost \in [Keys -> Nat] /\ Cardinality(DOMAIN entries) \in Nat
    BY PoolFacts DEF Release
  <1>3. key \in DOMAIN entries /\ entries[key].references > 0
    BY <1>1, <1>2, PermitCounted
  <1>4. key \in Keys /\ entries[key] \in Entry /\ EntriesOK(entries)
    BY <1>3, PoolFacts
  <1>5. entries[key].references \in Nat /\ entries[key].references # 0
    BY <1>3, <1>4 DEF Entry
  <1>6. PICK e : e = Unreferenced(entries[key])
    OBVIOUS
  <1>7. e \in Entry /\ e.guard = entries[key].guard /\ e.references = entries[key].references - 1
    BY <1>3, <1>4, <1>6, UnreferencedIsEntry
  <1>8. entries' = [entries EXCEPT ![key].references = @ - 1,
                                   ![key].idle = entries[key].references = 1]
    BY <1>1, <1>3, <1>5 DEF Release
  <1>9. entries' = [entries EXCEPT ![key] = e]
    BY <1>3, <1>4, <1>6, <1>8 DEF Unreferenced, EntriesOK
  <1>10. /\ DOMAIN entries' = DOMAIN entries
         /\ \A k \in DOMAIN entries : entries'[k] = IF k = key THEN e ELSE entries[k]
    BY <1>4, <1>9 DEF EntriesOK
  <1>11. EntriesOK(entries')
    BY <1>4, <1>7, <1>9, <1>10 DEF EntriesOK
  <1>12. \A k \in Keys : References(entries, k) \in Nat /\ lost[k] \in Nat
    <2>1. \A k \in DOMAIN entries : entries[k].references \in Nat
      BY PoolFacts DEF Entry
    <2> QED
      BY <1>2, <2>1 DEF References
  <1>13. \A k \in Keys : Using(user[u], k) = (IF k = key THEN 1 ELSE 0) /\ Using(Away, k) = 0
    BY <1>1, <1>2, AwayIsUser DEF Using, Uses
  <1>14. ASSUME NEW k \in Keys
         PROVE  References(entries', k) + Using(user[u], k) + lost[k]
                   = References(entries, k) + Using(Away, k) + lost'[k]
    <2>1. CASE k = key
      <3>1. /\ References(entries', k) = entries[key].references - 1
            /\ References(entries, k) = entries[key].references
        BY <1>3, <1>7, <1>10, <2>1 DEF References
      <3>2. Using(user[u], k) = 1 /\ Using(Away, k) = 0 /\ lost'[k] = lost[k] /\ lost[k] \in Nat
        BY <1>2, <1>12, <1>13, <2>1
      <3> QED
        BY <1>5, <3>1, <3>2
    <2>2. CASE k # key
      <3>1. References(entries', k) = References(entries, k)
        BY <1>10, <2>2 DEF References
      <3>2. Using(user[u], k) = 0 /\ Using(Away, k) = 0 /\ lost'[k] = lost[k]
        BY <1>2, <1>13, <2>2
      <3> QED
        BY <1>12, <3>1, <3>2
    <2> QED
      BY <2>1, <2>2
  <1>15. Spending(Away) = 0 /\ Spending(user[u]) = 0
    BY <1>2, AwayIsUser DEF Spending, Spends
  <1>16. slots' + Cardinality(DOMAIN entries') + Spending(Away)
            = slots + Cardinality(DOMAIN entries) + Spending(user[u])
    BY <1>2, <1>10, <1>15
  <1>17. /\ Guarded(u, Away, entries', mutex') /\ DOMAIN entries \subseteq DOMAIN entries'
         /\ \A k \in DOMAIN entries :
               entries[k].guard \notin {None, u} => entries'[k].guard = entries[k].guard
    BY <1>7, <1>10, AwayIsUser DEF Guarded, Waits
  <1>18. slots' \in Nat /\ lost' \in [Keys -> Nat]
         /\ (mutex' = mutex \/ mutex \in {None, u})
    BY <1>2
  <1> QED
    BY <1>2, <1>11, <1>14, <1>16, <1>17, <1>18, AwayIsUser, MoveKeeps

-----------------------------------------------------------------------------
(* Steps of the pool alone.                                                *)

\* A process in use has a reference.
LEMMA UseCounted ==
    ASSUME PoolInv, NEW u \in Users, user[u].pc \in Uses
    PROVE  user[u].key \in DOMAIN entries /\ entries[user[u].key].references # 0
  <1>1. PICK key : key = user[u].key
    OBVIOUS
  <1>2. key \in Keys
    BY <1>1, PoolFacts DEF Asks, Uses
  <1>3. UsersWith(user, key) \in SUBSET Busy /\ IsFiniteSet(Busy)
    BY DEF UsersWith, Uses, Busy, PoolInv
  <1>4. IsFiniteSet(UsersWith(user, key)) /\ u \in UsersWith(user, key)
    BY <1>1, <1>3, FS_Subset DEF UsersWith
  <1>5. Cardinality(UsersWith(user, key)) \in Nat /\ Cardinality(UsersWith(user, key)) # 0
    BY <1>4, FS_CardinalityType, FS_EmptySet
  <1>6. Cardinality(UsersWith(user, key)) + lost[key] = References(entries, key)
    BY <1>2 DEF PoolInv, UsesAccounted, ReferencesExact, References, UsersOf, UsersWith, Uses
  <1>7. lost[key] \in Nat
    BY <1>2, PoolFacts
  <1>8. References(entries, key) # 0
    BY <1>5, <1>6, <1>7
  <1> QED
    BY <1>1, <1>8 DEF References

LEMMA AskKeeps ==
    ASSUME PoolInv, NEW u \in Users, Ask(u)
    PROVE  PoolInv'
  <1>1. /\ user[u].pc = "away" /\ Goto(u, "visit") /\ user[u] \in User
        /\ UNCHANGED <<entries, mutex, slots, lost>> /\ slots \in Nat
    BY PoolFacts DEF Ask
  <1>2. PICK l : l = [user[u] EXCEPT !.pc = "visit"]
    OBVIOUS
  <1>3. l \in User /\ l.pc = "visit" /\ Asks(l)
    BY <1>1, <1>2 DEF User, Places, Asks
  <1>4. user' = [user EXCEPT ![u] = l]
    BY <1>1, <1>2 DEF Goto
  <1>5. /\ user[u].pc \notin Uses /\ l.pc \notin Uses /\ Guarded(u, l, entries, mutex')
        /\ Spending(l) = 0 /\ Spending(user[u]) = 0
    BY <1>1, <1>3 DEF Uses, Waits, Guarded, Spending, Spends
  <1> QED
    BY <1>1, <1>3, <1>4, <1>5, QuietKeeps

\* What a call does to the entries alone: references stay, and so do the locks that
\* someone holds.
EntriesMove ==
    /\ EntriesOK(entries') /\ slots' \in Nat
    /\ \A k \in Keys : References(entries', k) = References(entries, k)
    /\ slots' + Cardinality(DOMAIN entries') = slots + Cardinality(DOMAIN entries)
    /\ \A k \in DOMAIN entries : entries[k].references # 0 =>
          k \in DOMAIN entries' /\ entries'[k].guard = entries[k].guard

LEMMA EntriesMoveKeeps ==
    ASSUME PoolInv, NEW u \in Users, user[u].pc = "visit",
           user' = [user EXCEPT ![u] = Away], mutex = None,
           UNCHANGED <<mutex, lost>>, EntriesMove
    PROVE  PoolInv'
  <1>1. /\ user' \in [Users -> User] /\ \A v \in Users : Asks(user'[v])
        /\ \A v \in Users : user'[v] = IF v = u THEN Away ELSE user[v]
        /\ IsFiniteSet(Busy')
        /\ \A key \in Keys :
              /\ Cardinality(UsersWith(user, key)) \in Nat
              /\ Cardinality(UsersWith(user', key)) \in Nat
              /\ Cardinality(UsersWith(user', key)) + Using(user[u], key)
                    = Cardinality(UsersWith(user, key)) + Using(Away, key)
        /\ Cardinality(Spenders(user)) \in Nat /\ Cardinality(Spenders(user')) \in Nat
        /\ Cardinality(Spenders(user')) + Spending(user[u])
              = Cardinality(Spenders(user)) + Spending(Away)
    BY AwayIsUser, UserMoves
  <1>2. /\ \A key \in Keys : Using(user[u], key) = 0 /\ Using(Away, key) = 0
        /\ Spending(user[u]) = 0 /\ Spending(Away) = 0
    BY AwayIsUser DEF Using, Uses, Spending, Spends
  <1>3. TypeOK'
    <2>1. lost' \in [Keys -> Nat]
      BY PoolFacts
    <2> QED
      BY <1>1, <2>1 DEF TypeOK, EntriesMove
  <1>4. ASSUME NEW v \in Users
        PROVE  Guarded(v, user'[v], entries', mutex')
    <2>1. CASE v = u
      BY <1>1, <2>1, AwayIsUser DEF Guarded, Waits
    <2>2. CASE v # u
      <3>1. Guarded(v, user[v], entries, mutex) /\ v # None /\ user'[v] = user[v]
        BY <1>1, <2>2, PoolConstants DEF PoolInv
      <3>2. user[v].pc \notin Waits
        BY <3>1 DEF Guarded
      <3>3. user[v].pc = "held" /\ user[v].key \in Serialized =>
               user[v].key \in DOMAIN entries' /\ entries'[user[v].key].guard = v
        BY <3>1, UseCounted DEF Guarded, Uses, EntriesMove
      <3> QED
        BY <3>1, <3>2, <3>3 DEF Guarded
    <2> QED
      BY <2>1, <2>2
  <1>5. ReferencesExact'
    <2>1. \A key \in Keys :
             Cardinality(UsersWith(user, key)) + lost[key] = References(entries, key)
      BY DEF PoolInv, UsesAccounted, ReferencesExact, References, UsersOf, UsersWith, Uses
    <2>2. \A key \in Keys :
             Cardinality(UsersWith(user', key)) = Cardinality(UsersWith(user, key))
      <3> SUFFICES ASSUME NEW key \in Keys
                   PROVE  Cardinality(UsersWith(user', key)) = Cardinality(UsersWith(user, key))
        OBVIOUS
      <3>1. /\ Cardinality(UsersWith(user, key)) \in Nat
            /\ Cardinality(UsersWith(user', key)) \in Nat
            /\ Cardinality(UsersWith(user', key)) + Using(user[u], key)
                  = Cardinality(UsersWith(user, key)) + Using(Away, key)
        BY ONLY <1>1, key \in Keys
      <3>2. Using(user[u], key) = 0 /\ Using(Away, key) = 0
        BY ONLY <1>2, key \in Keys
      <3> QED
        BY ONLY <3>1, <3>2
    <2>3. \A key \in Keys :
             Cardinality(UsersWith(user', key)) + lost'[key] = References(entries', key)
      BY <2>1, <2>2 DEF EntriesMove
    <2> QED
      BY <2>3 DEF ReferencesExact, References, UsersOf, UsersWith, Uses
  <1>6. SlotsConserved'
    <2>1. slots + Cardinality(DOMAIN entries) + Cardinality(Spenders(user)) = MaxProcesses
      BY DEF PoolInv, UsesAccounted, SlotsConserved, Spends, Spenders
    <2>2. /\ slots \in Nat /\ Cardinality(DOMAIN entries) \in Nat
          /\ slots' \in Nat /\ Cardinality(DOMAIN entries') \in Nat
      BY PoolFacts, FS_CardinalityType DEF EntriesOK, EntriesMove
    <2>3. Cardinality(Spenders(user')) = Cardinality(Spenders(user))
      BY <1>1, <1>2
    <2>4. slots' + Cardinality(DOMAIN entries') + Cardinality(Spenders(user')) = MaxProcesses
      BY <1>1, <2>1, <2>2, <2>3 DEF EntriesMove
    <2> QED
      BY <2>4 DEF SlotsConserved, Spends, Spenders
  <1> QED
    BY <1>1, <1>3, <1>4, <1>5, <1>6 DEF PoolInv, UsesAccounted

LEMMA ReapIdleMoves ==
    ASSUME PoolInv, ReapIdle
    PROVE  EntriesMove
  <1>1. PICK expired \in SUBSET Idle :
           /\ entries' = [k \in DOMAIN entries \ expired |-> entries[k]]
           /\ slots' = slots + Cardinality(expired)
    BY DEF ReapIdle
  <1>3. expired \in SUBSET DOMAIN entries /\ \A k \in expired : entries[k].references = 0
    BY <1>1 DEF Idle
  <1>4. EntriesOK(entries) /\ slots \in Nat /\ Cardinality(DOMAIN entries) \in Nat
    BY PoolFacts
  <1>5. IsFiniteSet(expired) /\ Cardinality(expired) \in Nat
    BY <1>3, <1>4, FS_Subset, FS_CardinalityType DEF EntriesOK
  <1>6. DOMAIN entries' = DOMAIN entries \ expired
    BY <1>1
  <1>7. /\ IsFiniteSet(DOMAIN entries \ expired)
        /\ Cardinality(DOMAIN entries \ expired)
              = Cardinality(DOMAIN entries) - Cardinality(DOMAIN entries \cap expired)
    BY <1>4, FS_Difference DEF EntriesOK
  <1>8. DOMAIN entries \cap expired = expired
    BY <1>3
  <1>9. slots' \in Nat
        /\ slots' + Cardinality(DOMAIN entries') = slots + Cardinality(DOMAIN entries)
    <2>1. Cardinality(DOMAIN entries') = Cardinality(DOMAIN entries) - Cardinality(expired)
      BY <1>6, <1>7, <1>8
    <2>2. slots' = slots + Cardinality(expired)
      BY <1>1
    <2> QED
      BY <1>4, <1>5, <2>1, <2>2
  <1>10. EntriesOK(entries')
    BY <1>1, <1>4, <1>6, <1>7 DEF EntriesOK
  <1>11. \A k \in DOMAIN entries : entries[k].references # 0 =>
            k \in DOMAIN entries' /\ entries'[k].guard = entries[k].guard
    BY <1>1, <1>3, <1>6
  <1>12. \A k \in Keys : References(entries', k) = References(entries, k)
    BY <1>1, <1>3, <1>6 DEF References
  <1> QED
    BY <1>9, <1>10, <1>11, <1>12 DEF EntriesMove

LEMMA RecordCrashMoves ==
    ASSUME PoolInv, NEW key \in Keys, RecordCrash(key)
    PROVE  EntriesMove
  <1>1. /\ key \in DOMAIN entries /\ entries[key].budget > 0
        /\ entries' = [entries EXCEPT ![key].budget = @ - 1, ![key].generation = @ + 1]
        /\ UNCHANGED slots
    BY DEF RecordCrash
  <1>2. EntriesOK(entries) /\ slots \in Nat /\ entries[key] \in Entry
    BY <1>1, PoolFacts
  <1>3. PICK c : c = [entries[key] EXCEPT !.budget = @ - 1]
    OBVIOUS
  <1>4. entries[key].budget - 1 \in Nat
    BY <1>1, <1>2 DEF Entry
  <1>5. c \in Entry /\ c.guard = entries[key].guard /\ c.references = entries[key].references
    BY <1>2, <1>3, <1>4 DEF Entry
  <1>6. PICK e : e = [c EXCEPT !.generation = @ + 1]
    OBVIOUS
  <1>7. e \in Entry /\ e.guard = entries[key].guard /\ e.references = entries[key].references
    BY <1>5, <1>6 DEF Entry
  <1>8. entries' = [entries EXCEPT ![key] = e]
    BY <1>1, <1>2, <1>3, <1>6 DEF EntriesOK
  <1>9. /\ DOMAIN entries' = DOMAIN entries
        /\ \A k \in DOMAIN entries : entries'[k] = IF k = key THEN e ELSE entries[k]
    BY <1>2, <1>8 DEF EntriesOK
  <1>10. EntriesOK(entries')
    BY <1>2, <1>7, <1>8, <1>9 DEF EntriesOK
  <1>11. \A k \in Keys : References(entries', k) = References(entries, k)
    BY <1>7, <1>9 DEF References
  <1>12. /\ \A k \in DOMAIN entries : entries[k].references # 0 =>
              k \in DOMAIN entries' /\ entries'[k].guard = entries[k].guard
         /\ slots' \in Nat
         /\ slots' + Cardinality(DOMAIN entries') = slots + Cardinality(DOMAIN entries)
    BY <1>1, <1>2, <1>7, <1>9
  <1> QED
    BY <1>1, <1>10, <1>11, <1>12 DEF EntriesMove

LEMMA VisitKeeps ==
    ASSUME PoolInv, NEW u \in Users, Visit(u)
    PROVE  PoolInv'
  <1>1. ASSUME ReapIdle PROVE EntriesMove
    BY <1>1, ReapIdleMoves
  <1>2. ASSUME NEW key \in Keys, RecordCrash(key) PROVE EntriesMove
    BY <1>2, RecordCrashMoves
  <1>3. ASSUME UNCHANGED <<entries, slots>> PROVE EntriesMove
    BY <1>3, PoolFacts DEF EntriesMove
  <1>4. EntriesMove
    BY <1>1, <1>2, <1>3 DEF Visit
  <1> QED
    BY <1>4, EntriesMoveKeeps DEF Visit, MutexFree

-----------------------------------------------------------------------------
(* The theorems of the pool.                                               *)

LEMMA PoolStarts ==
    ASSUME Init
    PROVE  PoolInv
  <1>1. /\ DOMAIN entries = {} /\ entries = [k \in {} |-> None] /\ mutex = None
        /\ slots = MaxProcesses /\ user = [u \in Users |-> Away]
        /\ lost = [key \in Keys |-> 0]
    BY DEF Init
  <1>2. EntriesOK(entries) /\ slots \in Nat
    BY <1>1, FS_EmptySet, PoolConstants DEF EntriesOK
  <1>3. TypeOK
    BY <1>1, <1>2, AwayIsUser DEF TypeOK
  <1>4. Busy = {} /\ \A key \in Keys : UsersOf(key, {"held", "releasing"}) = {}
    BY <1>1, AwayIsUser DEF Busy, UsersOf
  <1>5. {u \in Users : user[u].pc \in {"insert", "serial_slot"}} = {}
    BY <1>1, AwayIsUser
  <1>6. IsFiniteSet({}) /\ Cardinality({}) = 0
    BY FS_EmptySet
  <1>7. ReferencesExact
    <2>1. \A key \in Keys : Cardinality(UsersOf(key, {"held", "releasing"})) = 0
      BY <1>4, <1>6
    <2>2. \A key \in Keys : lost[key] = 0 /\ key \notin DOMAIN entries
      BY <1>1
    <2> QED
      BY <2>1, <2>2 DEF ReferencesExact
  <1>8. SlotsConserved
    <2>1. /\ Cardinality({u \in Users : user[u].pc \in {"insert", "serial_slot"}}) = 0
          /\ Cardinality(DOMAIN entries) = 0
      BY <1>1, <1>5, <1>6
    <2>2. slots = MaxProcesses /\ slots \in Nat
      BY <1>1, <1>2
    <2> QED
      BY <2>1, <2>2 DEF SlotsConserved
  <1>9. \A u \in Users : Guarded(u, user[u], entries, mutex)
    BY <1>1, AwayIsUser DEF Guarded, Waits
  <1> QED
    BY <1>3, <1>4, <1>6, <1>7, <1>8, <1>9 DEF PoolInv, UsesAccounted

LEMMA PoolStutters ==
    ASSUME PoolInv, UNCHANGED vars
    PROVE  PoolInv'
  BY DEF PoolInv, vars, TypeOK, Busy, UsesAccounted, ReferencesExact, SlotsConserved, UsersOf

\* The inductive invariant of the pool, for any number of users, keys and slots.
THEOREM PoolInvariance == Spec => []PoolInv
  <1>1. Init => PoolInv
    BY PoolStarts
  <1>2. PoolInv /\ [Next]_vars => PoolInv'
    <2> SUFFICES ASSUME PoolInv, [Next]_vars PROVE PoolInv'
      OBVIOUS
    <2>1. ASSUME NEW u \in Users, Proceed(u) PROVE PoolInv'
      BY <2>1, AcquireExistingKeeps, TakeSlotKeeps, SlotTimeoutKeeps, InsertKeeps,
         SerializeKeeps, VisitKeeps DEF Proceed
    <2>2. ASSUME NEW u \in Users, Return(u) PROVE PoolInv'
      BY <2>2, DropGuardKeeps, ReleaseKeeps DEF Return
    <2>3. ASSUME NEW u \in Users, Cancel(u) PROVE PoolInv'
      BY <2>3, CancelKeeps
    <2>4. ASSUME NEW u \in Users, Lose(u) PROVE PoolInv'
      BY <2>4, LoseKeeps
    <2>5. ASSUME NEW u \in Users, NEW key \in Keys, Acquire(u, key) PROVE PoolInv'
      BY <2>5, AcquireKeeps
    <2>6. ASSUME NEW u \in Users, Ask(u) PROVE PoolInv'
      BY <2>6, AskKeeps
    <2>7. CASE UNCHANGED vars
      BY <2>7, PoolStutters
    <2> QED
      BY <2>1, <2>2, <2>3, <2>4, <2>5, <2>6, <2>7 DEF Next
  <1> QED
    BY <1>1, <1>2, PTL DEF Spec

\* acquire, release and reap_idle: no order of timeouts, reaping, crashes, races and
\* cancelled calls loses a reference or a slot.
THEOREM UsesCounted == Spec => []UsesAccounted
  <1>1. PoolInv => UsesAccounted
    BY DEF PoolInv
  <1> QED
    BY <1>1, PoolInvariance, PTL

\* A set in which no two elements differ has one element at most.
LEMMA AtMostOne ==
    ASSUME NEW S, \A x, y \in S : x = y
    PROVE  Cardinality(S) <= 1
  <1>1. CASE S = {}
    BY <1>1, FS_EmptySet
  <1>2. CASE S # {}
    <2>1. PICK x : x \in S
      BY <1>2
    <2>2. S = {x}
      BY <2>1
    <2> QED
      BY <2>2, FS_Singleton
  <1> QED
    BY <1>1, <1>2

\* The serialization lock of a process key: one caller at a time holds a permit, also
\* when the entry was reaped and made anew with a lock of its own.
THEOREM SerializedOnce == Spec => []SerializedExclusive
  <1>1. PoolInv => SerializedExclusive
    <2> SUFFICES ASSUME PoolInv, NEW key \in Serialized
                 PROVE  Cardinality(UsersOf(key, {"held"})) <= 1
      BY DEF SerializedExclusive
    <2>1. \A u \in UsersOf(key, {"held"}) : entries[key].guard = u
      BY DEF PoolInv, Guarded, UsersOf
    <2> QED
      BY <2>1, AtMostOne
  <1> QED
    BY <1>1, PoolInvariance, PTL

-----------------------------------------------------------------------------
(* One source: its inductive invariant.                                    *)

Restarting == {"connect", "verify", "close"}
RequestPlaces == {"idle", "select", "send", "sent", "failed", "restart"} \cup Restarting

Request == [pc : RequestPlaces, meant : Nat, conn : Nat, gen : Nat, new : Nat]

SourceTypeOK ==
    /\ peer \in [conn : Nat, gen : Nat]
    /\ {service, restarts, opened} \subseteq Nat
    /\ req \in [Callers -> Request]
    /\ restartLock \subseteq Callers \cup {Shutdown}

\* Connections that were opened to the server which was reviewed.
Reviewed(conns, others) == (1 .. conns) \ others

\* The connection in use was reviewed, and stays so; only opened ones can be foreign.
PeerReviewed ==
    /\ peer.conn \in Reviewed(opened, foreign)
    /\ foreign \subseteq 1 .. opened

\* So is every connection that a request has chosen, and was sent over.
ChosenReviewed ==
    /\ \A c \in Callers : req[c].pc = "send" =>
          req[c].conn \in Reviewed(opened, foreign) /\ req[c].meant \in {0, req[c].conn}
    /\ \A m \in sent : m.meant \in {0, m.conn} /\ m.conn \in Reviewed(opened, foreign)

\* Who restarts the source, or closes it, holds restart_lock, and alone has a new or a
\* replaced connection.
LockHeld ==
    /\ \A c \in Callers :
          /\ req[c].pc \in Restarting => restartLock = {c}
          /\ req[c].pc \notin {"verify", "close"} => req[c].new = 0
          /\ req[c].pc = "verify" => req[c].new \in 1 .. opened
    /\ stop = "closing" => restartLock = {Shutdown}

\* An attempt is charged before it is made, and makes one generation at most.
Charged ==
    /\ restarts <= MaxRestarts
    /\ opened <= 1 + restarts
    /\ peer.gen <= 1 + restarts
    /\ \A c \in Callers :
          /\ req[c].pc = "connect" => opened <= restarts
          /\ req[c].pc \in {"connect", "verify"} =>
                peer.gen <= restarts /\ req[c].gen = peer.gen

Owned ==
    /\ open \subseteq 1 .. opened
    /\ \A conn \in open : conn = service \/ \E c \in Callers : req[c].new = conn

SourceInv ==
    SourceTypeOK /\ PeerReviewed /\ ChosenReviewed /\ LockHeld /\ Charged /\ Owned

-----------------------------------------------------------------------------
(* A step that opens nothing.                                              *)

\* Caller c goes on outside restart_lock, which it gives back if it held it; what it was
\* opening or replacing is closed.
LEMMA CallerMoves ==
    ASSUME SourceInv, NEW c \in Callers, NEW l \in Request,
           req' = [req EXCEPT ![c] = l],
           UNCHANGED <<peer, service, restarts, stop, foreign, opened>>,
           restartLock' = restartLock \/ restartLock' = restartLock \ {c},
           l.pc \notin Restarting, l.new = 0,
           l.pc = "send" =>
              l.conn \in Reviewed(opened, foreign) /\ l.meant \in {0, l.conn},
           \A m \in sent' :
              m \in sent \/ (m.meant \in {0, m.conn} /\ m.conn \in Reviewed(opened, foreign)),
           open' \subseteq open, req[c].new \notin open',
           Source!UpstreamBounds
    PROVE  SourceInv'
  <1>1. \A d \in Callers : req'[d] = IF d = c THEN l ELSE req[d]
    BY DEF SourceInv, SourceTypeOK
  <1>2. SourceTypeOK'
    BY DEF SourceInv, SourceTypeOK
  <1>3. PeerReviewed'
    BY DEF SourceInv, PeerReviewed, Reviewed
  <1>4. ChosenReviewed'
    <2>1. ASSUME NEW d \in Callers, req'[d].pc = "send"
          PROVE  req'[d].conn \in Reviewed(opened, foreign) /\ req'[d].meant \in {0, req'[d].conn}
      BY <1>1, <2>1 DEF SourceInv, ChosenReviewed
    <2>2. ASSUME NEW m \in sent'
          PROVE  m.meant \in {0, m.conn} /\ m.conn \in Reviewed(opened, foreign)
      BY DEF SourceInv, ChosenReviewed
    <2> QED
      BY <2>1, <2>2 DEF ChosenReviewed, Reviewed
  <1>5. LockHeld'
    <2>1. ASSUME NEW d \in Callers
          PROVE  /\ req'[d].pc \in Restarting => restartLock' = {d}
                 /\ req'[d].pc \notin {"verify", "close"} => req'[d].new = 0
                 /\ req'[d].pc = "verify" => req'[d].new \in 1 .. opened
      <3>1. CASE d = c
        BY <1>1, <3>1 DEF Restarting
      <3>2. CASE d # c
        BY <1>1, <3>2 DEF SourceInv, LockHeld
      <3> QED
        BY <3>1, <3>2
    <2>2. stop = "closing" => restartLock' = {Shutdown}
      BY DEF SourceInv, LockHeld, Source!UpstreamBounds
    <2> QED
      BY <2>1, <2>2 DEF LockHeld
  <1>6. Charged'
    BY <1>1 DEF SourceInv, Charged, Restarting
  <1>7. Owned'
    <2>1. ASSUME NEW conn \in open'
          PROVE  conn = service \/ \E d \in Callers : req'[d].new = conn
      <3>1. conn = service \/ \E d \in Callers : req[d].new = conn
        BY DEF SourceInv, Owned
      <3>2. \A d \in Callers : req[d].new = conn => req'[d].new = conn
        BY <1>1
      <3> QED
        BY <3>1, <3>2
    <2> QED
      BY <2>1 DEF SourceInv, Owned
  <1> QED
    BY <1>2, <1>3, <1>4, <1>5, <1>6, <1>7 DEF SourceInv

\* What is not in use is 0, which is no connection.
LEMMA NothingNew ==
    ASSUME SourceInv, NEW c \in Callers, req[c].pc \notin {"verify", "close"}
    PROVE  req[c].new = 0 /\ 0 \notin open
  BY DEF SourceInv, LockHeld, Owned

LEMMA RequestTyped ==
    ASSUME SourceInv, NEW c \in Callers
    PROVE  req \in [Callers -> Request] /\ req[c] \in Request
  BY DEF SourceInv, SourceTypeOK

LEMMA NoRequestTyped ==
    /\ Source!NoRequest \in Request /\ Source!NoRequest.new = 0
    /\ Source!NoRequest.pc = "idle"
  BY DEF Source!NoRequest, Request, RequestPlaces

\* A request that ends.
LEMMA EndKeeps ==
    ASSUME SourceInv, NEW c \in Callers, Source!End(c), Source!UpstreamBounds,
           UNCHANGED <<peer, service, restarts, stop, foreign, opened, sent>>,
           open' \subseteq open, req[c].new \notin open'
    PROVE  SourceInv'
  <1>1. req' = [req EXCEPT ![c] = Source!NoRequest] /\ restartLock' = restartLock \ {c}
    BY DEF Source!End
  <1> QED
    BY <1>1, NoRequestTyped, CallerMoves DEF Restarting

-----------------------------------------------------------------------------
(* The actions of one source.                                              *)

\* A caller that goes to another place outside restart_lock.
LEMMA StepKeeps ==
    ASSUME SourceInv, NEW c \in Callers, Source!UpstreamBounds,
           NEW place \in {"sent", "failed", "restart"}, Source!Step(c, place),
           req[c].pc \notin Restarting,
           UNCHANGED <<peer, service, restarts, stop, foreign, opened, open, restartLock>>,
           \A m \in sent' :
              m \in sent \/ (m.meant \in {0, m.conn} /\ m.conn \in Reviewed(opened, foreign))
    PROVE  SourceInv'
  <1>1. req[c] \in Request /\ req[c].new = 0 /\ 0 \notin open
    BY RequestTyped, NothingNew DEF Restarting
  <1>2. PICK l : l = [req[c] EXCEPT !.pc = place]
    OBVIOUS
  <1>3. l \in Request /\ l.pc = place /\ l.new = 0
    BY <1>1, <1>2 DEF Request, RequestPlaces
  <1>4. req' = [req EXCEPT ![c] = l]
    BY <1>2 DEF Source!Step
  <1>5. l.pc \notin Restarting /\ l.pc # "send"
    BY <1>3 DEF Restarting
  <1>6. open' \subseteq open /\ req[c].new \notin open'
    BY <1>1
  <1> QED
    BY <1>3, <1>4, <1>5, <1>6, CallerMoves

LEMMA EntersKeeps ==
    ASSUME SourceInv, NEW c \in Callers, NEW session \in Nat, Source!Enters(c, session),
           Source!UpstreamBounds
    PROVE  SourceInv'
  <1>1. PICK l : l = [Source!NoRequest EXCEPT !.pc = "select", !.meant = session]
    OBVIOUS
  <1>2. l \in Request /\ l.pc = "select" /\ l.new = 0
    BY <1>1 DEF Source!NoRequest, Request, RequestPlaces
  <1>3. req[c].pc = "idle" /\ req' = [req EXCEPT ![c] = l]
        /\ UNCHANGED <<peer, service, restarts, stop, foreign, opened, open, restartLock, sent>>
    BY <1>1 DEF Source!Enters, Source!source, Source!world
  <1>4. open' \subseteq open /\ req[c].new \notin open'
    BY <1>3, NothingNew
  <1>5. l.pc \notin Restarting /\ l.pc # "send"
    BY <1>2 DEF Restarting
  <1> QED
    BY <1>2, <1>3, <1>4, <1>5, CallerMoves

LEMMA BeginBoundKeeps ==
    ASSUME SourceInv, NEW c \in Callers, Source!BeginBound(c), Source!UpstreamBounds
    PROVE  SourceInv'
  <1>1. PICK session \in 1 .. opened : Source!Enters(c, session)
    BY DEF Source!BeginBound
  <1>2. session \in Nat
    BY <1>1 DEF SourceInv, SourceTypeOK
  <1> QED
    BY <1>1, <1>2, EntersKeeps

\* The chosen connection is the one in use, which was reviewed.
LEMMA SelectKeeps ==
    ASSUME SourceInv, NEW c \in Callers, Source!Select(c), Source!UpstreamBounds
    PROVE  SourceInv'
  <1>1. req[c].pc = "select"
        /\ UNCHANGED <<peer, service, restarts, stop, foreign, opened, open, sent>>
    BY DEF Source!Select, Source!source, Source!world
  <1>2. open' \subseteq open /\ req[c].new \notin open' /\ req[c].new = 0
    BY <1>1, NothingNew
  <1>3. CASE req[c].meant \notin {0, peer.conn}
    <2>1. Source!End(c)
      BY <1>3 DEF Source!Select
    <2> QED
      BY <1>1, <1>2, <2>1, EndKeeps
  <1>4. CASE req[c].meant \in {0, peer.conn}
    <2>1. req[c] \in Request /\ req \in [Callers -> Request]
      BY RequestTyped
    <2>2. peer.conn \in Nat /\ peer.gen \in Nat
      BY DEF SourceInv, SourceTypeOK
    <2>3. PICK l : l = [req[c] EXCEPT !.pc = "send", !.conn = peer.conn, !.gen = peer.gen]
      OBVIOUS
    <2>4. /\ l \in Request /\ l.pc = "send" /\ l.new = 0 /\ l.conn = peer.conn
          /\ l.meant = req[c].meant
      BY <1>2, <2>1, <2>2, <2>3 DEF Request, RequestPlaces
    <2>5. req' = [req EXCEPT ![c] = l] /\ restartLock' = restartLock
      BY <1>4, <2>1, <2>3 DEF Source!Select
    <2>6. l.conn \in Reviewed(opened, foreign) /\ l.meant \in {0, l.conn}
      BY <1>4, <2>4 DEF SourceInv, PeerReviewed
    <2>7. l.pc \notin Restarting
      BY <2>4 DEF Restarting
    <2> QED
      BY <1>1, <1>2, <2>4, <2>5, <2>6, <2>7, CallerMoves
  <1> QED
    BY <1>3, <1>4

LEMMA SendKeeps ==
    ASSUME SourceInv, NEW c \in Callers, Source!Send(c), Source!UpstreamBounds
    PROVE  SourceInv'
  <1>1. /\ req[c].pc = "send" /\ Source!Step(c, "sent")
        /\ UNCHANGED <<peer, service, restarts, stop, foreign, opened, open, restartLock>>
        /\ sent' = sent \cup {[meant |-> req[c].meant, conn |-> req[c].conn]}
    BY DEF Source!Send, Source!source, Source!world
  <1>2. \A m \in sent' :
           m \in sent \/ (m.meant \in {0, m.conn} /\ m.conn \in Reviewed(opened, foreign))
    BY <1>1 DEF SourceInv, ChosenReviewed
  <1>3. req[c].pc \notin Restarting
    BY <1>1 DEF Restarting
  <1> QED
    BY <1>1, <1>2, <1>3, StepKeeps

LEMMA AnswerKeeps ==
    ASSUME SourceInv, NEW c \in Callers, Source!Answer(c), Source!UpstreamBounds
    PROVE  SourceInv'
  <1>1. req[c].pc = "sent"
        /\ UNCHANGED <<peer, service, restarts, stop, foreign, opened, open, sent>>
    BY DEF Source!Answer, Source!source, Source!world
  <1>2. open' \subseteq open /\ req[c].new \notin open' /\ req[c].pc \notin Restarting
    BY <1>1, NothingNew DEF Restarting
  <1>3. CASE Source!End(c)
    BY <1>1, <1>2, <1>3, EndKeeps
  <1>4. CASE Source!Step(c, "failed") /\ restartLock' = restartLock
    BY <1>1, <1>2, <1>4, StepKeeps
  <1> QED
    BY <1>3, <1>4 DEF Source!Answer

LEMMA CheckDownKeeps ==
    ASSUME SourceInv, NEW c \in Callers, Source!CheckDown(c), Source!UpstreamBounds
    PROVE  SourceInv'
  <1>1. req[c].pc = "failed"
        /\ UNCHANGED <<peer, service, restarts, stop, foreign, opened, open, sent>>
    BY DEF Source!CheckDown, Source!source, Source!world
  <1>2. open' \subseteq open /\ req[c].new \notin open' /\ req[c].pc \notin Restarting
    BY <1>1, NothingNew DEF Restarting
  <1>3. CASE Source!End(c)
    BY <1>1, <1>2, <1>3, EndKeeps
  <1>4. CASE Source!Step(c, "restart") /\ restartLock' = restartLock
    BY <1>1, <1>2, <1>4, StepKeeps
  <1> QED
    BY <1>3, <1>4 DEF Source!CheckDown

LEMMA DropKeeps ==
    ASSUME SourceInv, NEW c \in Callers, Source!Drop(c), Source!UpstreamBounds
    PROVE  SourceInv'
  <1>1. Source!End(c) /\ open' = open \ {req[c].new}
        /\ UNCHANGED <<peer, service, restarts, stop, foreign, opened, sent>>
    BY DEF Source!Drop, Source!source
  <1>2. open' \subseteq open /\ req[c].new \notin open'
    BY <1>1
  <1> QED
    BY <1>1, <1>2, EndKeeps

LEMMA CloseOldKeeps ==
    ASSUME SourceInv, NEW c \in Callers, Source!CloseOld(c), Source!UpstreamBounds
    PROVE  SourceInv'
  <1>1. Source!End(c) /\ open' = open \ {req[c].new}
        /\ UNCHANGED <<peer, service, restarts, stop, foreign, opened, sent>>
    BY DEF Source!CloseOld, Source!source
  <1>2. open' \subseteq open /\ req[c].new \notin open'
    BY <1>1
  <1> QED
    BY <1>1, <1>2, EndKeeps

\* The budget is spent before the attempt, by the one that takes the lock.
LEMMA RestartKeeps ==
    ASSUME SourceInv, NEW c \in Callers, Source!Restart(c), Source!UpstreamBounds
    PROVE  SourceInv'
  <1>1. req[c].pc = "restart" /\ restartLock = {}
        /\ UNCHANGED <<peer, service, stop, foreign, opened, open, sent>>
    BY DEF Source!Restart, Source!Free, Source!world
  <1>2. open' \subseteq open /\ req[c].new \notin open' /\ req[c].new = 0
    BY <1>1, NothingNew
  <1>3. CASE peer.gen # req[c].gen \/ restarts >= MaxRestarts
    <2>1. Source!End(c) /\ restarts' = restarts
      BY <1>3 DEF Source!Restart
    <2> QED
      BY <1>1, <1>2, <2>1, EndKeeps
  <1>4. CASE ~(peer.gen # req[c].gen \/ restarts >= MaxRestarts)
    <2>1. /\ restartLock' = {c} /\ restarts' = restarts + 1
          /\ req' = [req EXCEPT ![c].pc = "connect"]
      BY <1>4 DEF Source!Restart, Source!Step
    <2>2. req[c] \in Request /\ req \in [Callers -> Request]
      BY RequestTyped
    <2>3. PICK l : l = [req[c] EXCEPT !.pc = "connect"]
      OBVIOUS
    <2>4. l \in Request /\ l.pc = "connect" /\ l.new = 0 /\ l.gen = req[c].gen
      BY <1>2, <2>2, <2>3 DEF Request, RequestPlaces, Restarting
    <2>5. req' = [req EXCEPT ![c] = l]
      BY <2>1, <2>3
    <2>6. \A d \in Callers : req'[d] = IF d = c THEN l ELSE req[d]
      BY <2>2, <2>5
    <2>7. \A d \in Callers : req[d].pc \notin Restarting
      BY <1>1 DEF SourceInv, LockHeld
    <2>8. SourceTypeOK'
      BY <1>1, <2>1, <2>4, <2>5 DEF SourceInv, SourceTypeOK
    <2>9. PeerReviewed' /\ Owned'
      <3>1. \A d \in Callers : req'[d].new = req[d].new
        BY <1>2, <2>4, <2>6
      <3> QED
        BY <1>1, <3>1 DEF SourceInv, PeerReviewed, Owned, Reviewed
    <2>10. ChosenReviewed'
      BY <1>1, <2>4, <2>6 DEF SourceInv, ChosenReviewed, Reviewed
    <2>11. LockHeld'
      <3>1. stop' # "closing"
        BY <1>1 DEF SourceInv, LockHeld
      <3>2. ASSUME NEW d \in Callers
            PROVE  /\ req'[d].pc \in Restarting => restartLock' = {d}
                   /\ req'[d].pc \notin {"verify", "close"} => req'[d].new = 0
                   /\ req'[d].pc = "verify" => req'[d].new \in 1 .. opened
        <4>1. CASE d = c
          BY <2>1, <2>4, <2>6, <4>1
        <4>2. CASE d # c
          BY <2>6, <2>7, <4>2 DEF SourceInv, LockHeld
        <4> QED
          BY <4>1, <4>2
      <3> QED
        BY <1>1, <3>1, <3>2 DEF LockHeld
    <2>12. Charged'
      <3>1. /\ restarts \in Nat /\ opened \in Nat /\ peer.gen \in Nat /\ MaxRestarts \in Nat
            /\ restarts < MaxRestarts /\ req[c].gen = peer.gen
            /\ opened <= 1 + restarts /\ peer.gen <= 1 + restarts
        BY <1>4 DEF SourceInv, SourceTypeOK, Charged, Source!UpstreamBounds
      <3>2. /\ restarts' <= MaxRestarts /\ opened <= restarts' /\ peer.gen <= restarts'
            /\ opened <= 1 + restarts' /\ peer.gen <= 1 + restarts'
        BY <2>1, <3>1
      <3>3. ASSUME NEW d \in Callers
            PROVE  /\ req'[d].pc = "connect" => opened' <= restarts'
                   /\ req'[d].pc \in {"connect", "verify"} =>
                         peer'.gen <= restarts' /\ req'[d].gen = peer'.gen
        <4>1. CASE d = c
          BY <1>1, <2>4, <2>6, <3>1, <3>2, <4>1
        <4>2. CASE d # c
          BY <2>6, <2>7, <4>2 DEF Restarting
        <4> QED
          BY <4>1, <4>2
      <3> QED
        BY <1>1, <3>2, <3>3 DEF Charged
    <2> QED
      BY <2>8, <2>9, <2>10, <2>11, <2>12 DEF SourceInv
  <1> QED
    BY <1>3, <1>4

\* What was reviewed stays so when another connection is attempted.
LEMMA ReviewedStays ==
    ASSUME SourceInv, NEW o \in Nat, o = opened + 1, NEW f, f \subseteq foreign \cup {o}
    PROVE  /\ \A conn \in Reviewed(opened, foreign) : conn \in Reviewed(o, f)
           /\ \A conn \in 1 .. opened : conn \in 1 .. o /\ conn # o
           /\ f \subseteq 1 .. o
           /\ opened \in Nat
  <1>1. opened \in Nat /\ foreign \subseteq 1 .. opened
    BY DEF SourceInv, SourceTypeOK, PeerReviewed
  <1> QED
    BY <1>1 DEF Reviewed

\* What holds of connections does not change when one more is attempted.
LEMMA AttemptKeeps ==
    ASSUME SourceInv, opened' = opened + 1, foreign' \subseteq foreign \cup {opened + 1},
           UNCHANGED <<peer, sent>>,
           \A d \in Callers : req'[d].pc = "send" => req'[d] = req[d]
    PROVE  PeerReviewed' /\ ChosenReviewed' /\ opened' \in Nat
  <1>1. opened \in Nat /\ opened + 1 \in Nat
    BY DEF SourceInv, SourceTypeOK
  <1>2. /\ \A conn \in Reviewed(opened, foreign) : conn \in Reviewed(opened', foreign')
        /\ foreign' \subseteq 1 .. opened'
    BY <1>1, ReviewedStays
  <1>3. PeerReviewed'
    BY <1>2 DEF SourceInv, PeerReviewed
  <1>4. ChosenReviewed'
    BY <1>2 DEF SourceInv, ChosenReviewed
  <1> QED
    BY <1>1, <1>3, <1>4

LEMMA ConnectKeeps ==
    ASSUME SourceInv, NEW c \in Callers, Source!Connect(c), Source!UpstreamBounds
    PROVE  SourceInv'
  <1>1. /\ req[c].pc = "connect" /\ opened' = opened + 1
        /\ UNCHANGED <<peer, service, restarts, stop, sent>>
    BY DEF Source!Connect, Source!source
  <1>2. /\ restartLock = {c} /\ req[c].new = 0 /\ 0 \notin open /\ stop # "closing"
        /\ \A d \in Callers : d # c => req[d].pc \notin Restarting
    BY <1>1, NothingNew DEF SourceInv, LockHeld, Restarting, Source!UpstreamBounds
  <1>3. /\ opened \in Nat /\ restarts \in Nat /\ peer.gen \in Nat
        /\ restarts <= MaxRestarts /\ opened <= restarts
        /\ peer.gen <= restarts /\ req[c].gen = peer.gen
    BY <1>1 DEF SourceInv, SourceTypeOK, Charged
  <1>4. req \in [Callers -> Request] /\ req[c] \in Request
    BY RequestTyped
  <1>5. open \subseteq 1 .. opened
    BY DEF SourceInv, Owned
  <1>6. CASE /\ req' = [req EXCEPT ![c].pc = "verify", ![c].new = opened + 1]
             /\ open' = open \cup {opened + 1}
             /\ \E other \in SUBSET {opened + 1} : foreign' = foreign \cup other
             /\ restartLock' = restartLock
    <2>0. PICK n \in Nat : n = opened + 1 /\ n \in 1 .. n
      BY <1>3
    <2>1. PICK l : l = [req[c] EXCEPT !.pc = "verify", !.new = n]
      OBVIOUS
    <2>2. l \in Request /\ l.pc = "verify" /\ l.new = n /\ l.gen = req[c].gen
      BY <1>4, <2>0, <2>1 DEF Request, RequestPlaces, Restarting
    <2>3. req' = [req EXCEPT ![c] = l]
      BY <1>4, <1>6, <2>0, <2>1
    <2>4. \A d \in Callers : req'[d] = IF d = c THEN l ELSE req[d]
      BY <1>4, <2>3
    <2>5. foreign' \subseteq foreign \cup {opened + 1}
      BY <1>6
    <2>6. PeerReviewed' /\ ChosenReviewed' /\ opened' \in Nat
      <3>1. \A d \in Callers : req'[d].pc = "send" => req'[d] = req[d]
        BY <2>2, <2>4
      <3> QED
        BY <1>1, <2>5, <3>1, AttemptKeeps
    <2>7. SourceTypeOK'
      <3>1. req' \in [Callers -> Request]
        BY <1>4, <2>2, <2>3
      <3>2. restartLock' = restartLock
        BY <1>6
      <3> QED
        BY <1>1, <2>6, <3>1, <3>2 DEF SourceInv, SourceTypeOK
    <2>8. LockHeld'
      <3>1. ASSUME NEW d \in Callers
            PROVE  /\ req'[d].pc \in Restarting => restartLock' = {d}
                   /\ req'[d].pc \notin {"verify", "close"} => req'[d].new = 0
                   /\ req'[d].pc = "verify" => req'[d].new \in 1 .. opened'
        <4>1. CASE d = c
          BY <1>1, <1>2, <1>6, <2>0, <2>2, <2>4, <4>1
        <4>2. CASE d # c
          BY <1>2, <2>4, <4>2 DEF SourceInv, LockHeld, Restarting
        <4> QED
          BY <4>1, <4>2
      <3> QED
        BY <1>1, <1>2, <3>1 DEF LockHeld
    <2>9. Charged'
      <3>1. opened' <= 1 + restarts /\ peer.gen <= 1 + restarts
        BY <1>1, <1>3
      <3>2. ASSUME NEW d \in Callers
            PROVE  /\ req'[d].pc = "connect" => opened' <= restarts'
                   /\ req'[d].pc \in {"connect", "verify"} =>
                         peer'.gen <= restarts' /\ req'[d].gen = peer'.gen
        <4>1. CASE d = c
          BY <1>1, <1>3, <2>2, <2>4, <4>1
        <4>2. CASE d # c
          BY <1>2, <2>4, <4>2 DEF Restarting
        <4> QED
          BY <4>1, <4>2
      <3> QED
        BY <1>1, <1>3, <3>1, <3>2 DEF Charged
    <2>10. Owned'
      <3>1. open' \subseteq 1 .. opened'
        BY <1>1, <1>3, <1>5, <1>6
      <3>2. ASSUME NEW conn \in open'
            PROVE  conn = service \/ \E d \in Callers : req'[d].new = conn
        <4>1. CASE conn = opened + 1
          BY <2>0, <2>2, <2>4, <4>1
        <4>2. CASE conn \in open
          <5>1. conn # 0 /\ (conn = service \/ \E d \in Callers : req[d].new = conn)
            BY <1>2, <4>2 DEF SourceInv, Owned
          <5>2. \A d \in Callers : req[d].new = conn => req'[d].new = conn
            BY <1>2, <2>4, <5>1
          <5> QED
            BY <5>1, <5>2
        <4> QED
          BY <1>6, <4>1, <4>2
      <3> QED
        BY <1>1, <3>1, <3>2 DEF Owned
    <2> QED
      BY <2>6, <2>7, <2>8, <2>9, <2>10 DEF SourceInv
  <1>7. CASE Source!End(c) /\ open' = open /\ foreign' = foreign
    <2>1. req' = [req EXCEPT ![c] = Source!NoRequest] /\ restartLock' = restartLock \ {c}
      BY <1>7 DEF Source!End
    <2>2. \A d \in Callers : req'[d] = IF d = c THEN Source!NoRequest ELSE req[d]
      BY <1>4, <2>1
    <2>3. PeerReviewed' /\ ChosenReviewed' /\ opened' \in Nat
      <3>1. \A d \in Callers : req'[d].pc = "send" => req'[d] = req[d]
        BY <2>2, NoRequestTyped
      <3> QED
        BY <1>1, <1>7, <3>1, AttemptKeeps
    <2>4. SourceTypeOK'
      BY <1>1, <2>1, <2>3, NoRequestTyped DEF SourceInv, SourceTypeOK
    <2>5. \A d \in Callers : req'[d].pc \notin Restarting /\ req'[d].new = 0
      <3>1. ASSUME NEW d \in Callers
            PROVE  req'[d].pc \notin Restarting /\ req'[d].new = 0
        <4>1. CASE d = c
          BY <2>2, <4>1, NoRequestTyped DEF Restarting
        <4>2. CASE d # c
          BY <1>2, <2>2, <4>2 DEF SourceInv, LockHeld, Restarting
        <4> QED
          BY <4>1, <4>2
      <3> QED
        BY <3>1
    <2>6. LockHeld'
      BY <1>1, <1>2, <2>5 DEF LockHeld, Restarting
    <2>7. Charged'
      <3>1. opened' <= 1 + restarts /\ peer.gen <= 1 + restarts
        BY <1>1, <1>3
      <3> QED
        BY <1>1, <1>3, <2>5, <3>1 DEF Charged, Restarting
    <2>8. Owned'
      <3>1. open' \subseteq 1 .. opened'
        BY <1>1, <1>3, <1>5, <1>7
      <3>2. ASSUME NEW conn \in open'
            PROVE  conn = service
        <4>1. conn # 0 /\ (conn = service \/ \E d \in Callers : req[d].new = conn)
          BY <1>2, <1>7 DEF SourceInv, Owned
        <4>2. \A d \in Callers : req[d].new = 0
          BY <1>2 DEF SourceInv, LockHeld, Restarting
        <4> QED
          BY <4>1, <4>2
      <3> QED
        BY <1>1, <3>1, <3>2 DEF Owned
    <2> QED
      BY <2>3, <2>4, <2>6, <2>7, <2>8 DEF SourceInv
  <1> QED
    BY <1>6, <1>7 DEF Source!Connect

\* The new connection is installed only if it is to the server that was reviewed.
LEMMA VerifyKeeps ==
    ASSUME SourceInv, NEW c \in Callers, Source!Verify(c), Source!UpstreamBounds
    PROVE  SourceInv'
  <1>1. /\ req[c].pc = "verify"
        /\ UNCHANGED <<restarts, stop, foreign, opened, sent>>
    BY DEF Source!Verify
  <1>2. /\ restartLock = {c} /\ req[c].new \in 1 .. opened /\ stop # "closing"
        /\ \A d \in Callers : d # c => req[d].pc \notin Restarting /\ req[d].new = 0
    BY <1>1 DEF SourceInv, LockHeld, Restarting, Source!UpstreamBounds
  <1>3. /\ opened \in Nat /\ restarts \in Nat /\ peer.gen \in Nat /\ service \in Nat
        /\ restarts <= MaxRestarts /\ opened <= 1 + restarts
        /\ peer.gen <= restarts /\ req[c].gen = peer.gen
    BY <1>1 DEF SourceInv, SourceTypeOK, Charged
  <1>4. req \in [Callers -> Request] /\ req[c] \in Request
    BY RequestTyped
  <1>5. CASE /\ req[c].new \notin foreign
             /\ peer' = [conn |-> req[c].new, gen |-> req[c].gen + 1]
             /\ service' = req[c].new
             /\ req' = [req EXCEPT ![c].pc = "close", ![c].new = service]
             /\ restartLock' = restartLock /\ open' = open
    <2>1. PICK l : l = [req[c] EXCEPT !.pc = "close", !.new = service]
      OBVIOUS
    <2>2. l \in Request /\ l.pc = "close" /\ l.new = service
      BY <1>3, <1>4, <2>1 DEF Request, RequestPlaces, Restarting
    <2>3. req' = [req EXCEPT ![c] = l]
      BY <1>4, <1>5, <2>1
    <2>4. \A d \in Callers : req'[d] = IF d = c THEN l ELSE req[d]
      BY <1>4, <2>3
    <2>5. peer' \in [conn : Nat, gen : Nat] /\ peer'.conn = req[c].new /\ peer'.gen = peer.gen + 1
      BY <1>2, <1>3, <1>5
    <2>6. SourceTypeOK'
      BY <1>1, <1>2, <1>3, <1>5, <2>2, <2>3, <2>5 DEF SourceInv, SourceTypeOK
    <2>7. PeerReviewed'
      BY <1>1, <1>2, <1>5, <2>5 DEF SourceInv, PeerReviewed, Reviewed
    <2>8. ChosenReviewed'
      BY <1>1, <2>2, <2>4 DEF SourceInv, ChosenReviewed, Reviewed
    <2>9. LockHeld'
      <3>1. ASSUME NEW d \in Callers
            PROVE  /\ req'[d].pc \in Restarting => restartLock' = {d}
                   /\ req'[d].pc \notin {"verify", "close"} => req'[d].new = 0
                   /\ req'[d].pc = "verify" => req'[d].new \in 1 .. opened
        <4>1. CASE d = c
          BY <1>2, <1>5, <2>2, <2>4, <4>1
        <4>2. CASE d # c
          BY <1>2, <2>4, <4>2 DEF Restarting
        <4> QED
          BY <4>1, <4>2
      <3> QED
        BY <1>1, <1>2, <3>1 DEF LockHeld
    <2>10. Charged'
      <3>1. peer'.gen <= 1 + restarts
        BY <1>3, <2>5
      <3>2. \A d \in Callers : req'[d].pc \notin {"connect", "verify"}
        BY <1>2, <2>2, <2>4 DEF Restarting
      <3> QED
        BY <1>1, <1>3, <3>1, <3>2 DEF Charged
    <2>11. Owned'
      <3>1. ASSUME NEW conn \in open'
            PROVE  conn = service' \/ \E d \in Callers : req'[d].new = conn
        <4>1. conn = service \/ \E d \in Callers : req[d].new = conn
          BY <1>5 DEF SourceInv, Owned
        <4>2. CASE conn = service
          BY <2>2, <2>4, <4>2
        <4>3. ASSUME NEW d \in Callers, req[d].new = conn
              PROVE  conn = service' \/ \E x \in Callers : req'[x].new = conn
          <5>1. CASE d = c
            BY <1>5, <4>3, <5>1
          <5>2. CASE d # c
            BY <2>4, <4>3, <5>2
          <5> QED
            BY <5>1, <5>2
        <4> QED
          BY <4>1, <4>2, <4>3
      <3> QED
        BY <1>1, <1>5, <3>1 DEF SourceInv, Owned
    <2> QED
      BY <2>6, <2>7, <2>8, <2>9, <2>10, <2>11 DEF SourceInv
  <1>6. CASE Source!End(c) /\ open' = open \ {req[c].new} /\ UNCHANGED <<peer, service>>
    BY <1>1, <1>6, EndKeeps
  <1> QED
    BY <1>5, <1>6 DEF Source!Verify

LEMMA TakeServiceKeeps ==
    ASSUME SourceInv, Source!TakeService, Source!UpstreamBounds
    PROVE  SourceInv'
  <1>1. /\ restartLock = {}
        /\ UNCHANGED <<peer, service, restarts, foreign, opened, open, sent, req>>
        /\ \/ stop' = "stopped" /\ restartLock' = restartLock
           \/ stop' = "closing" /\ restartLock' = {Shutdown}
    BY DEF Source!TakeService, Source!source, Source!world, Source!Free
  <1>2. SourceTypeOK' /\ PeerReviewed' /\ ChosenReviewed' /\ Charged' /\ Owned'
    BY <1>1 DEF SourceInv, SourceTypeOK, PeerReviewed, ChosenReviewed, Charged, Owned, Reviewed
  <1>3. \A d \in Callers : req[d].pc \notin Restarting
    BY <1>1 DEF SourceInv, LockHeld
  <1>4. LockHeld'
    BY <1>1, <1>3 DEF SourceInv, LockHeld
  <1> QED
    BY <1>2, <1>4 DEF SourceInv

LEMMA CloseServiceKeeps ==
    ASSUME SourceInv, Source!CloseService, Source!UpstreamBounds
    PROVE  SourceInv'
  <1>1. /\ stop = "closing" /\ open' = open \ {service} /\ service' = 0
        /\ restartLock' = {} /\ stop' \in {"stopped", "timed_out"}
        /\ UNCHANGED <<peer, restarts, foreign, opened, sent, req>>
    BY DEF Source!CloseService
  <1>2. SourceTypeOK' /\ PeerReviewed' /\ ChosenReviewed' /\ Charged'
    BY <1>1 DEF SourceInv, SourceTypeOK, PeerReviewed, ChosenReviewed, Charged, Reviewed
  <1>3. Owned'
    BY <1>1 DEF SourceInv, Owned
  <1>4. \A d \in Callers : req[d].pc \notin Restarting
    BY <1>1 DEF SourceInv, LockHeld, Source!UpstreamBounds
  <1>5. LockHeld'
    BY <1>1, <1>4 DEF SourceInv, LockHeld
  <1> QED
    BY <1>2, <1>3, <1>5 DEF SourceInv

\* Steps that touch neither requests, locks nor connections.
LEMMA SourceRests ==
    ASSUME SourceInv,
           UNCHANGED <<peer, service, restarts, restartLock, foreign, opened, open, sent, req>>,
           stop' = stop \/ stop' = "stopping"
    PROVE  SourceInv'
  BY DEF SourceInv, SourceTypeOK, PeerReviewed, ChosenReviewed, LockHeld, Charged, Owned, Reviewed

LEMMA BeginShutdownKeeps ==
    ASSUME SourceInv, Source!BeginShutdown
    PROVE  SourceInv'
  BY SourceRests DEF Source!BeginShutdown, Source!source, Source!world

LEMMA BreaksKeeps ==
    ASSUME SourceInv, NEW conn, Source!Breaks(conn)
    PROVE  SourceInv'
  BY SourceRests DEF Source!Breaks, Source!source

LEMMA SourceStutters ==
    ASSUME SourceInv, UNCHANGED Source!vars
    PROVE  SourceInv'
  BY SourceRests DEF Source!vars, Source!source, Source!world

LEMMA SourceStarts ==
    ASSUME Source!Init, Source!UpstreamBounds
    PROVE  SourceInv
  <1>1. /\ peer = [conn |-> 1, gen |-> 1] /\ service = 1 /\ restarts = 0
        /\ restartLock = {} /\ stop = "running"
        /\ req = [c \in Callers |-> Source!NoRequest]
        /\ foreign = {} /\ open = {1} /\ opened = 1 /\ sent = {}
    BY DEF Source!Init
  <1>2. \A c \in Callers : req[c] = Source!NoRequest
    BY <1>1
  <1>3. SourceTypeOK
    BY <1>1, NoRequestTyped DEF SourceTypeOK
  <1>4. PeerReviewed
    BY <1>1 DEF PeerReviewed, Reviewed
  <1>5. ChosenReviewed
    BY <1>1, <1>2, NoRequestTyped DEF ChosenReviewed
  <1>6. LockHeld
    BY <1>1, <1>2, NoRequestTyped DEF LockHeld, Restarting
  <1>7. Charged
    BY <1>1, <1>2, NoRequestTyped DEF Charged, Source!UpstreamBounds
  <1>8. Owned
    BY <1>1 DEF Owned
  <1> QED
    BY <1>3, <1>4, <1>5, <1>6, <1>7, <1>8 DEF SourceInv

LEMMA SourceNext ==
    ASSUME SourceInv, [Source!Next]_(Source!vars), Source!UpstreamBounds
    PROVE  SourceInv'
  <1>1. ASSUME NEW c \in Callers, Source!BeginUnbound(c) PROVE SourceInv'
    BY <1>1, EntersKeeps DEF Source!BeginUnbound
  <1>2. ASSUME NEW c \in Callers, Source!BeginBound(c) PROVE SourceInv'
    BY <1>2, BeginBoundKeeps
  <1>3. ASSUME NEW c \in Callers, Source!Proceed(c) PROVE SourceInv'
    BY <1>3, SelectKeeps, SendKeeps, AnswerKeeps, CheckDownKeeps, RestartKeeps, ConnectKeeps,
       VerifyKeeps, CloseOldKeeps DEF Source!Proceed
  <1>4. ASSUME NEW c \in Callers, Source!Drop(c) PROVE SourceInv'
    BY <1>4, DropKeeps
  <1>5. CASE Source!BeginShutdown \/ Source!TakeService \/ Source!CloseService
    BY <1>5, BeginShutdownKeeps, TakeServiceKeeps, CloseServiceKeeps
  <1>6. ASSUME NEW conn \in open, Source!Breaks(conn) PROVE SourceInv'
    BY <1>6, BreaksKeeps
  <1>7. CASE UNCHANGED Source!vars
    BY <1>7, SourceStutters
  <1> QED
    BY <1>1, <1>2, <1>3, <1>4, <1>5, <1>6, <1>7 DEF Source!Next

\* The inductive invariant of a source, for any number of callers and any budget.
THEOREM SourceInvariance == Source!Spec => []SourceInv
  <1>1. Source!Init => SourceInv
    BY SourceBounds, SourceStarts
  <1>2. SourceInv /\ [Source!Next]_(Source!vars) => SourceInv'
    BY SourceBounds, SourceNext
  <1> QED
    BY <1>1, <1>2, PTL DEF Source!Spec

\* peer and restart_after_failure: however restarts, failures and cancelled requests are
\* interleaved, a request bound to a session is sent on that session's connection, and
\* none is sent to a server that was not reviewed.
THEOREM SentAsBound == Source!Spec => []SentWhereBound
  <1>1. SourceInv => SentWhereBound
    BY DEF SourceInv, ChosenReviewed, Reviewed, SentWhereBound, Source!SentWhereBound
  <1> QED
    BY <1>1, SourceInvariance, PTL

\* restart_after_failure: however many requests fail together, no more connections are
\* attempted than the budget allows, and each open one has an owner that will close it.
THEOREM BudgetKept == Source!Spec => []RestartsBounded
  <1>1. SourceInv => RestartsBounded
    <2> SUFFICES ASSUME SourceInv PROVE RestartsBounded
      OBVIOUS
    <2>1. opened <= 1 + MaxRestarts
      BY SourceBounds DEF SourceInv, SourceTypeOK, Charged, Source!UpstreamBounds
    <2>2. open \subseteq {service} \cup {req[c].new : c \in Callers}
      BY DEF SourceInv, Owned
    <2>3. peer.gen <= 1 + restarts
      BY DEF SourceInv, Charged
    <2> QED
      BY <2>1, <2>2, <2>3 DEF RestartsBounded, Source!RestartsBounded
  <1> QED
    BY <1>1, SourceInvariance, PTL
=============================================================================
