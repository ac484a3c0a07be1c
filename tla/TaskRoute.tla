------------------------------ MODULE TaskRoute ------------------------------
(***************************************************************************)
(* The durable task-route record of gaugemesh-core (task.rs): its phases,  *)
(* the updates a caller may ask for, and the checked transition that turns *)
(* one record into the next.  Everything here is a pure operator; the      *)
(* stores and the task proxy are built from them.                          *)
(*                                                                         *)
(* Data abstraction.  request_digest is the SHA-256 of submission_binding  *)
(* and is compared only for equality, so a record carries the binding      *)
(* itself (field `binding') and equal digests are equal bindings.  ttl_ms  *)
(* is expires - created.  schema_version, capability, capability_source    *)
(* and integrity_digest say nothing the properties tell apart and are left *)
(* out.  So is updated_at_unix_ms: every caller passes                     *)
(* transition_time(record) = max(now, updated_at), so the check that it    *)
(* never decreases always passes, whatever the clock does.                 *)
(***************************************************************************)
EXTENDS Integers

CONSTANTS
    None,               \* an absent Option value
    MaxSqliteInteger    \* MAX_SQLITE_INTEGER, the largest storable integer

ASSUME IntegerBound == MaxSqliteInteger \in Nat

TaskRoutePhase ==
    { "prepared", "dispatching", "routed", "terminal",
      "reconciliation_required", "cancel_requested" }

CanTransition(from, to) ==
    \/ /\ from = "prepared"
       /\ to \in {"dispatching", "terminal", "reconciliation_required",
                  "cancel_requested"}
    \/ /\ from = "dispatching"
       /\ to \in {"routed", "terminal", "reconciliation_required",
                  "cancel_requested"}
    \/ /\ from = "routed"
       /\ to \in {"terminal", "reconciliation_required", "cancel_requested"}
    \/ /\ from = "reconciliation_required"
       /\ to \in {"routed", "terminal", "cancel_requested"}
    \/ /\ from = "cancel_requested"
       /\ to \in {"cancel_requested", "terminal"}

-----------------------------------------------------------------------------
(* Updates: what a caller of compare_and_set_task_route asks for.          *)

Update(phase, upstream, owner, cached) ==
    [phase |-> phase, upstream |-> upstream, owner |-> owner, cached |-> cached]

Dispatching(owner)      == Update("dispatching", None, owner, None)
Routed(upstream)        == Update("routed", upstream, None, None)
Terminal(cached)        == Update("terminal", None, None, cached)
ReconciliationRequired  == Update("reconciliation_required", None, None, None)
CancelRequested         == Update("cancel_requested", None, None, None)
CancelRequestedWithUpstream(upstream) ==
    Update("cancel_requested", upstream, None, None)

-----------------------------------------------------------------------------
(* A freshly prepared record.                                              *)

Prepare(id, caller, key, binding, session, created, ttl) ==
    [id |-> id, caller |-> caller, key |-> key, binding |-> binding,
     session |-> session, upstream |-> None, owner |-> None,
     phase |-> "prepared", created |-> created,
     expires |-> created + ttl, version |-> 0, cached |-> None]

\* validate_shape: every record that is stored, read or produced satisfies it.
ValidShape(r) ==
    /\ r.expires > r.created
    /\ r.expires <= MaxSqliteInteger
    /\ r.version <= MaxSqliteInteger
    /\ r.phase \in {"prepared", "dispatching"} => r.upstream = None
    /\ r.phase = "routed" => r.upstream # None
    /\ (r.phase = "dispatching") <=> (r.owner # None)
    /\ (r.phase = "terminal") <=> (r.cached # None)

\* verify_prepared_for_begin
PreparedForBegin(r) ==
    /\ ValidShape(r)
    /\ r.phase = "prepared"
    /\ r.version = 0
    /\ r.upstream = None
    /\ r.cached = None

\* Mutant: the update's upstream ID replaces the stored one, absent or not.
SuccessorForgetsUpstream(r, u) ==
    [r EXCEPT !.upstream = u.upstream, !.owner = u.owner, !.phase = u.phase,
              !.version = r.version + 1, !.cached = u.cached]

\* The record that `transition' builds, before its checks.
Successor(r, u) ==
    [r EXCEPT !.upstream = IF r.upstream # None THEN r.upstream ELSE u.upstream,
              !.owner    = u.owner,
              !.phase    = u.phase,
              !.version  = r.version + 1,
              !.cached   = u.cached]

\* transition succeeds exactly when all of its checks do.
TransitionAllowed(r, u) ==
    /\ CanTransition(r.phase, u.phase)
    /\ (r.upstream = None /\ u.upstream # None)
          => u.phase \in {"routed", "cancel_requested"}
    /\ (r.upstream # None /\ u.upstream # None) => u.upstream = r.upstream
    /\ r.version + 1 <= MaxSqliteInteger
    /\ ValidShape(Successor(r, u))

IsExpired(r, now) == now >= r.expires
=============================================================================
