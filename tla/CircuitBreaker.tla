--------------------------- MODULE CircuitBreaker ----------------------------
(***************************************************************************)
(* The circuit breaker of the core (runtime.rs): opens after a run of      *)
(* failures, lets calls probe the other side again after open_interval,    *)
(* and closes after a number of successes.  Outcomes of calls that began   *)
(* in an earlier state may arrive in any state.                            *)
(*                                                                         *)
(* Clocks are kept as ages: `age' is now_ms - opened_at_ms up to           *)
(* open_interval, beyond which `state' does not tell it apart.  The caller *)
(* passes the present time of a clock that does not go back.  A failure    *)
(* count stops at open_threshold, which u16 saturation cannot reach first. *)
(***************************************************************************)
EXTENDS Integers

CONSTANTS
    OpenThreshold,      \* open_threshold
    RecoveryThreshold,  \* recovery_threshold
    OpenInterval,       \* open_interval in clock ticks
    None

BreakerThresholds ==     \* asserted by `new'
    /\ {OpenThreshold, RecoveryThreshold, OpenInterval} \subseteq Nat
    /\ OpenThreshold > RecoveryThreshold /\ RecoveryThreshold > 0
    /\ None \notin Nat

VARIABLES
    state,      \* "closed", "open" or "half_open"
    failures,
    successes,
    age,        \* time since opened_at_ms, None if it is
    tripped,    \* history: time since the breaker became open
    failed,     \* history: failures since the last success
    succeeded   \* history: successes since the last failure and since half-open began

vars == <<state, failures, successes, age, tripped, failed, succeeded>>

Upto(n, bound) == IF n > bound THEN bound ELSE n

Init ==
    /\ state = "closed"
    /\ failures = 0 /\ successes = 0
    /\ age = None
    /\ tripped = 0 /\ failed = 0 /\ succeeded = 0

Elapsed == age # None /\ age >= OpenInterval

\* state(now_ms): every caller of it moves an open breaker on.
State ==
    /\ state = "open" /\ Elapsed
    /\ state' = "half_open"
    /\ successes' = 0
    /\ succeeded' = 0
    /\ UNCHANGED <<failures, age, tripped, failed>>

\* Mutant: the successes of a probe outlive a failure.
RecordFailureKeepsSuccesses ==
    /\ failures' = Upto(failures + 1, OpenThreshold)
    /\ failed' = Upto(failed + 1, OpenThreshold)
    /\ succeeded' = 0
    /\ IF failures' >= OpenThreshold
       THEN state' = "open" /\ age' = 0 /\ tripped' = (IF state = "open" THEN tripped ELSE 0)
       ELSE UNCHANGED <<state, age, tripped>>
    /\ UNCHANGED successes

RecordFailure ==
    /\ failures' = Upto(failures + 1, OpenThreshold)
    /\ successes' = 0
    /\ failed' = Upto(failed + 1, OpenThreshold)
    /\ succeeded' = 0
    /\ IF failures' >= OpenThreshold
       THEN state' = "open" /\ age' = 0 /\ tripped' = (IF state = "open" THEN tripped ELSE 0)
       ELSE UNCHANGED <<state, age, tripped>>

\* Mutant: a probe that succeeds is not counted.
RecordSuccessUncounted ==
    /\ failures' = 0
    /\ failed' = 0
    /\ succeeded' = Upto(succeeded + 1, RecoveryThreshold)
    /\ UNCHANGED <<successes, state, age, tripped>>

RecordSuccess ==
    /\ failures' = 0
    /\ failed' = 0
    /\ succeeded' = Upto(succeeded + 1, RecoveryThreshold)
    /\ IF state = "half_open"
       THEN /\ successes' = successes + 1
            /\ IF successes' >= RecoveryThreshold
               THEN state' = "closed" /\ age' = None
               ELSE UNCHANGED <<state, age>>
       ELSE UNCHANGED <<successes, state, age>>
    /\ UNCHANGED tripped

\* external: the caller's clock.
Tick ==
    /\ age' = IF age = None THEN None ELSE Upto(age + 1, OpenInterval)
    /\ tripped' = Upto(tripped + 1, OpenInterval)
    /\ UNCHANGED <<state, failures, successes, failed, succeeded>>

Next == State \/ RecordFailure \/ RecordSuccess \/ Tick

Spec == Init /\ [][Next]_vars

\* Time passes, callers ask for the state, and calls that are let through report.
Fairness == WF_vars(Tick) /\ WF_vars(State) /\ WF_vars(RecordSuccess)

LiveSpec == Spec /\ Fairness

-----------------------------------------------------------------------------
\* Hysteresis.  The breaker opens only on open_threshold failures with no success
\* among them, in whatever states they were recorded; it is probed only after it was
\* open for open_interval, and never closes without a probe; it closes only on
\* recovery_threshold successes with no failure among them, all of this probe.
Hysteresis ==
    [][/\ state # "open" /\ state' = "open" => failed' = OpenThreshold
       /\ state = "open" /\ state' # "open" =>
             state' = "half_open" /\ tripped = OpenInterval
       /\ state # "closed" /\ state' = "closed" => succeeded' = RecoveryThreshold]_vars

\* Once failures stop for good the breaker closes and stays closed.
Recovers == <>[][~RecordFailure]_vars => <>[](state = "closed")
=============================================================================
