----------------------------- MODULE ProcessPool -----------------------------
(***************************************************************************)
(* The pool of upstream processes (process_pool.rs): one entry per process *)
(* key, shared by reference count, with a serialization lock for keys that *)
(* may be used by one caller at a time, and a bounded number of slots.     *)
(*                                                                         *)
(* A critical section of the entries mutex is one step, except where it    *)
(* awaits the serialization lock: `acquire' then keeps the mutex (`mutex') *)
(* until the lock is free, and every other operation of the pool waits.    *)
(*                                                                         *)
(* Keys stands for the keys that ProcessKey::validate accepts, and         *)
(* Serialized for those of class ShareableWithSerialization.  Time enters  *)
(* only through the idle TTL: an idle entry may have reached it or not.    *)
(*                                                                         *)
(* A user is one use of the pool by a task.  A task may hold a permit and  *)
(* call the pool again for another use; it is in one call at a time.       *)
(***************************************************************************)
EXTENDS Integers, FiniteSets

CONSTANTS
    Users,          \* uses of the pool
    TaskOf,         \* the task of each
    Keys,
    Serialized,
    MaxProcesses,   \* max_processes
    RestartBudget,  \* restart_budget of a new entry
    MaxLost,        \* bound: permits of a key dropped without `release'
    None

ASSUME PoolConstants ==
    /\ DOMAIN TaskOf = Users
    /\ Serialized \subseteq Keys
    /\ MaxProcesses \in Nat \ {0}   \* asserted by `bounded'
    /\ {RestartBudget, MaxLost} \subseteq Nat
    /\ None \notin Users \cup Keys

VARIABLES
    entries,    \* the map of PoolEntry by key
    mutex,      \* the user that keeps the entries mutex across an await
    slots,      \* free permits of the slots semaphore
    user,       \* user[u]: where a user is, its key, and its permit's generation
    lost        \* history: permits of each key dropped without `release'

vars == <<entries, mutex, slots, user, lost>>

NewEntry(guard) ==
    [generation |-> 1, references |-> 1, budget |-> RestartBudget,
     idle |-> FALSE, guard |-> guard]

Away == [pc |-> "away", key |-> None, generation |-> 0]

Goto(u, place) == user' = [user EXCEPT ![u].pc = place]
Hold(u, generation) ==
    user' = [user EXCEPT ![u].pc = "held", ![u].generation = generation]

MutexFree == mutex = None

InCall(u) == user[u].pc \notin {"away", "held"}

\* A task that awaits the answer to one call makes no other, and drops nothing.
MayCall(u) == \A v \in Users : v # u /\ TaskOf[v] = TaskOf[u] => ~InCall(v)

-----------------------------------------------------------------------------
(* acquire                                                                 *)

Acquire(u, key) ==
    /\ user[u].pc = "away" /\ MayCall(u)
    /\ user' = [user EXCEPT ![u] = [Away EXCEPT !.pc = "lookup", !.key = key]]
    /\ UNCHANGED <<entries, mutex, slots, lost>>

\* One more reference to an existing entry that needs no serialization.
Share(u, key) ==
    /\ entries' = [entries EXCEPT ![key].references = @ + 1, ![key].idle = FALSE]
    /\ Hold(u, entries[key].generation)

\* acquire_existing
AcquireExisting(u) ==
    LET key == user[u].key IN
    /\ user[u].pc = "lookup" /\ MutexFree
    /\ \/ key \notin DOMAIN entries /\ Goto(u, "slot") /\ UNCHANGED <<entries, mutex>>
       \/ /\ key \in DOMAIN entries \ Serialized
          /\ Share(u, key) /\ UNCHANGED mutex
       \/ /\ key \in DOMAIN entries \cap Serialized
          /\ mutex' = u /\ Goto(u, "serial") /\ UNCHANGED entries
    /\ UNCHANGED <<slots, lost>>

\* A slot for a new process, or none within startup_timeout.
TakeSlot(u) ==
    /\ user[u].pc = "slot" /\ slots > 0
    /\ slots' = slots - 1
    /\ Goto(u, "insert")
    /\ UNCHANGED <<entries, mutex, lost>>

SlotTimeout(u) ==
    /\ user[u].pc = "slot"
    /\ user' = [user EXCEPT ![u] = Away]
    /\ UNCHANGED <<entries, mutex, slots, lost>>

\* Mutant: the entry made by someone else meanwhile is overwritten.
InsertBlindly(u) ==
    LET key == user[u].key IN
    /\ user[u].pc = "insert" /\ MutexFree
    /\ entries' = [k \in DOMAIN entries \cup {key} |->
            IF k = key THEN NewEntry(IF key \in Serialized THEN u ELSE None) ELSE entries[k]]
    /\ Hold(u, 1) /\ UNCHANGED <<mutex, slots, lost>>

\* With a slot: the entry exists by now, and the slot is given back once it is
\* shared; or it is inserted with the slot.
Insert(u) ==
    LET key == user[u].key IN
    /\ user[u].pc = "insert" /\ MutexFree
    /\ \/ /\ key \in DOMAIN entries \ Serialized
          /\ Share(u, key) /\ slots' = slots + 1 /\ UNCHANGED mutex
       \/ /\ key \in DOMAIN entries \cap Serialized
          /\ mutex' = u /\ Goto(u, "serial_slot") /\ UNCHANGED <<entries, slots>>
       \/ /\ key \notin DOMAIN entries
          /\ entries' = [k \in DOMAIN entries \cup {key} |->
                IF k = key THEN NewEntry(IF key \in Serialized THEN u ELSE None)
                ELSE entries[k]]
          /\ Hold(u, 1) /\ UNCHANGED <<mutex, slots>>
    /\ UNCHANGED lost

\* The serialization lock is free: the reference is taken and the mutex given back.
Serialize(u) ==
    LET key == user[u].key IN
    /\ user[u].pc \in {"serial", "serial_slot"}
    /\ entries[key].guard = None
    /\ entries' = [entries EXCEPT ![key].guard = u, ![key].references = @ + 1,
                                  ![key].idle = FALSE]
    /\ Hold(u, entries[key].generation)
    /\ slots' = IF user[u].pc = "serial_slot" THEN slots + 1 ELSE slots
    /\ mutex' = None
    /\ UNCHANGED lost

\* The future of a call is dropped at one of its awaits.
Cancel(u) ==
    /\ user[u].pc \in {"lookup", "slot", "insert", "serial", "serial_slot", "visit"}
    /\ user' = [user EXCEPT ![u] = Away]
    /\ mutex' = IF mutex = u THEN None ELSE mutex
    /\ slots' = IF user[u].pc \in {"insert", "serial_slot"} THEN slots + 1 ELSE slots
    /\ UNCHANGED <<entries, lost>>

-----------------------------------------------------------------------------
(* release                                                                 *)

\* A dropped guard frees its lock, if the entry is still there to be used.
WithoutGuard(u) ==
    LET key == user[u].key IN
    IF key \in DOMAIN entries /\ entries[key].guard = u
    THEN [entries EXCEPT ![key].guard = None] ELSE entries

\* Mutant: the serialization guard lives until the reference is given back.
DropGuardLate(u) ==
    /\ user[u].pc = "held" /\ MayCall(u)
    /\ Goto(u, "releasing")
    /\ UNCHANGED <<entries, mutex, slots, lost>>

\* release drops the serialization guard before it waits for the mutex.
DropGuard(u) ==
    /\ user[u].pc = "held" /\ MayCall(u)
    /\ entries' = WithoutGuard(u)
    /\ Goto(u, "releasing")
    /\ UNCHANGED <<mutex, slots, lost>>

Release(u) ==
    LET key == user[u].key IN
    /\ user[u].pc = "releasing" /\ MutexFree
    /\ entries' = IF key \notin DOMAIN entries \/ entries[key].references = 0
                  THEN entries
                  ELSE [entries EXCEPT ![key].references = @ - 1,
                                       ![key].idle = entries[key].references = 1]
    /\ user' = [user EXCEPT ![u] = Away]
    /\ UNCHANGED <<mutex, slots, lost>>

\* The permit is dropped without `release', or the future of `release' while it
\* waits for the mutex: the guard is freed and the reference is not.
Lose(u) ==
    LET key == user[u].key IN
    /\ user[u].pc \in {"held", "releasing"} /\ MayCall(u) /\ lost[key] < MaxLost
    /\ entries' = WithoutGuard(u)
    /\ lost' = [lost EXCEPT ![key] = @ + 1]
    /\ user' = [user EXCEPT ![u] = Away]
    /\ UNCHANGED <<mutex, slots>>

-----------------------------------------------------------------------------
(* reap_idle, record_crash, process_count                                  *)

\* Mutant: an entry that was idle once is reaped although it is in use again.
ReapStale ==
    \E expired \in SUBSET DOMAIN entries :
        /\ entries' = [k \in DOMAIN entries \ expired |-> entries[k]]
        /\ slots' = slots + Cardinality(expired)

Idle == {k \in DOMAIN entries : entries[k].references = 0 /\ entries[k].idle}

ReapIdle ==
    \E expired \in SUBSET Idle :
        /\ entries' = [k \in DOMAIN entries \ expired |-> entries[k]]
        /\ slots' = slots + Cardinality(expired)

RecordCrash(key) ==
    /\ key \in DOMAIN entries /\ entries[key].budget > 0
    /\ entries' = [entries EXCEPT ![key].budget = @ - 1, ![key].generation = @ + 1]
    /\ UNCHANGED slots

\* One of the three is called, by a task that may hold permits.
Ask(u) ==
    /\ user[u].pc = "away" /\ MayCall(u)
    /\ Goto(u, "visit")
    /\ UNCHANGED <<entries, mutex, slots, lost>>

\* It has the mutex.  A count changes nothing, nor does a crash of a process that is
\* not there or has no restart left.
Visit(u) ==
    /\ user[u].pc = "visit" /\ MutexFree
    /\ \/ ReapIdle
       \/ \E key \in Keys : RecordCrash(key)
       \/ UNCHANGED <<entries, slots>>
    /\ user' = [user EXCEPT ![u] = Away]
    /\ UNCHANGED <<mutex, lost>>

-----------------------------------------------------------------------------
Init ==
    /\ entries = [k \in {} |-> None]
    /\ mutex = None
    /\ slots = MaxProcesses
    /\ user = [u \in Users |-> Away]
    /\ lost = [key \in Keys |-> 0]

\* What a user does once it has called the pool.
Proceed(u) ==
    \/ AcquireExisting(u) \/ TakeSlot(u) \/ SlotTimeout(u) \/ Insert(u) \/ Serialize(u)
    \/ Visit(u)

Return(u) == DropGuard(u) \/ Release(u)

Next ==
    \E u \in Users :
        \/ Proceed(u) \/ Return(u) \/ Cancel(u) \/ Lose(u) \/ Ask(u)
        \/ \E key \in Keys : Acquire(u, key)

Spec == Init /\ [][Next]_vars

\* A task that holds a process and is in no call gives it back sooner or later;
\* tokio's mutex and semaphore serve their waiters in order, so none is passed over
\* forever.  Nothing is assumed of a task that waits for the pool itself.
Fairness ==
    \A u \in Users : SF_vars(Proceed(u)) /\ WF_vars(DropGuard(u)) /\ SF_vars(Release(u))

LiveSpec == Spec /\ Fairness

-----------------------------------------------------------------------------
Places == {"away", "lookup", "slot", "insert", "serial", "serial_slot", "held", "releasing",
           "visit"}

UsersOf(key, places) == {u \in Users : user[u].key = key /\ user[u].pc \in places}

\* The reference count of a process is the number of permits handed out for it:
\* none is reaped under a user.  A permit that was dropped without `release' counts
\* for ever, so its process is never reaped.
ReferencesExact ==
    \A key \in Keys :
        Cardinality(UsersOf(key, {"held", "releasing"})) + lost[key]
            = IF key \in DOMAIN entries THEN entries[key].references ELSE 0

\* A serialized process is used by one caller at a time, also after its entry was
\* reaped and made anew with a lock of its own.
SerializedExclusive ==
    \A key \in Serialized : Cardinality(UsersOf(key, {"held"})) <= 1

\* Every process has one slot, and no timeout, race or cancellation loses one.
SlotsConserved ==
    slots + Cardinality(DOMAIN entries)
          + Cardinality({u \in Users : user[u].pc \in {"insert", "serial_slot"}})
        = MaxProcesses

\* Both hold together: no order of timeouts, reaping, crashes, races and cancelled
\* releases loses a reference or a slot.
UsesAccounted == ReferencesExact /\ SlotsConserved

\* The task that holds the lock which `acquire' awaits has called the pool too, and
\* waits for the mutex which that `acquire' keeps: neither call can end.
Stuck ==
    \E w, v \in Users :
        /\ mutex = w /\ entries[user[w].key].guard = v
        /\ \E c \in Users : TaskOf[c] = TaskOf[v] /\ InCall(c) /\ user[c].pc # "slot"

\* Every call returns, although acquire waits for one key's lock while it blocks the
\* whole pool - unless the holder of that very lock calls the pool before it gives
\* its process back.  That is the only way: no order of releases, drops, timeouts,
\* reaping and races blocks the pool.
CallsReturn == \A u \in Users : InCall(u) ~> ~InCall(u) \/ Stuck

\* Every call returns.  Not kept, and checked by no run: see Stuck.
AlwaysReturns == \A u \in Users : InCall(u) ~> ~InCall(u)
=============================================================================
