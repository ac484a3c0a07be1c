------------------------------ MODULE TaskProxy ------------------------------
(***************************************************************************)
(* The durable task proxy (task_proxy.rs) over the task-route table:       *)
(* concurrent request handlers that submit, recover, poll and cancel tasks *)
(* on behalf of callers, on one or more gateway instances that share the   *)
(* table, with an upstream that may lose a request or a response, answer   *)
(* wrongly or late, and with reconnects, router reopens and process        *)
(* restarts at any point.                                                  *)
(*                                                                         *)
(* A handler step is one store operation, one upstream message or one      *)
(* await; between two steps any other handler may run.  A handler's local  *)
(* copy of a record (h[p].rec) and of the clock (h[p].seen) grow stale.    *)
(* A failed compare-and-set followed by its reload is one step: the reload *)
(* sees what a later compare-and-set would have failed against.            *)
(*                                                                         *)
(* The clock is a wall clock that never steps back (the code reads         *)
(* SystemTime and does not defend against a regression).                   *)
(***************************************************************************)
EXTENDS TaskRouteStore, Sequences

CONSTANTS
    Instances,        \* TaskProxy processes that share the SQLite database
    Handlers,         \* request handler slots
    InstanceOf,       \* the instance that runs a handler
    Submissions,      \* the TaskSubmission documents callers send
    Snapshots,        \* source snapshot digests
    MaxCasAttempts,   \* MAX_ROUTE_CAS_ATTEMPTS
    PurgeLimit,       \* the 128 of submit_mode's opportunistic purge
    \* bounds of the model
    MaxTime,          \* the clock stops here
    MaxSessions,      \* reconnects per instance
    MaxEpochs,        \* reopens and restarts per instance
    MaxRoutes         \* public IDs minted

\* A TaskSubmission: its caller, idempotency key, absolute execution deadline,
\* runtime bound and retention, and the rest of the document as a payload.
Documents ==
    [caller : Callers, key : Keys, deadline : Nat, runtime : Nat,
     retention : Nat, payload : Nat]

\* TaskSubmission::parse refuses a submission that breaks one of these; the
\* checks that involve the clock are ValidAt.
ASSUME SubmissionLimits ==
    /\ Submissions \subseteq Documents
    /\ \A s \in Submissions : 0 < s.runtime /\ s.runtime <= s.retention

ASSUME ProxyConstants ==
    /\ InstanceOf \in [Handlers -> Instances]
    /\ {MaxCasAttempts, PurgeLimit, MaxTime, MaxSessions, MaxEpochs, MaxRoutes}
          \subseteq Nat
    /\ PurgeLimit <= MaxPurgeRecords
    /\ MaxTime <= MaxSqliteInteger
    /\ Bindings = Submissions \X Snapshots
    /\ Instances \X (0 .. MaxSessions) \subseteq Sessions
    /\ Instances \X (0 .. MaxEpochs) \subseteq Owners
    /\ 1 .. MaxRoutes \subseteq PublicIds
    /\ UpstreamIds = Nat
    /\ Verdicts = {"not_dispatched", "rejected", "completed", "failed", "cancelled"}

VARIABLES
    now,        \* wall clock
    minted,     \* public IDs issued so far are 1 .. minted
    epoch,      \* epoch[i]: which TaskProxy instance_id instance i has
    session,    \* session[i]: which upstream connection instance i has
    snapshot,   \* snapshot[i]: the source snapshot instance i discovered
    h,          \* h[p]: local state of handler p
    execs       \* every execution request sent upstream, in sending order

proxyVars == <<now, minted, epoch, session, snapshot, h, execs>>
vars == <<routes, now, minted, epoch, session, snapshot, h, execs>>

-----------------------------------------------------------------------------
(* Derived values.                                                         *)

InstanceId(i) == <<i, epoch[i]>>
SessionId(i)  == <<i, session[i]>>
Host(p)       == InstanceOf[p]

Submission(r) == r.binding[1]
Binding(p)    == <<h[p].sub, snapshot[Host(p)]>>

\* execution_cutoff
ExecutionCutoff(r) ==
    LET deadline == Submission(r).deadline
        runtime  == r.created + Submission(r).runtime
    IN  IF deadline <= runtime THEN deadline ELSE runtime

\* The clock checks of TaskSubmission::parse.
ValidAt(s, t) == t < s.deadline /\ s.deadline <= t + s.retention

\* source_binding_is_current.  The snapshot and the configuration of a source
\* change only with the process, hence with the session.
BindingCurrent(p, r) ==
    /\ r.session = SessionId(Host(p))
    /\ r.binding[2] = snapshot[Host(p)]

TerminalStatus == {"completed", "failed", "cancelled"}

Idle == [pc |-> "idle", op |-> None, sub |-> None, seen |-> 0, rec |-> None,
         tries |-> 0, uid |-> None, note |-> None]

Become(p, local) == h' = [h EXCEPT ![p] = local]
Goto(p, place)   == Become(p, [h[p] EXCEPT !.pc = place])
Return(p)        == Become(p, Idle)

\* At `place' with a copy of the record, the other locals forgotten.
At(p, place, r)  == [Idle EXCEPT !.pc = place, !.op = h[p].op, !.rec = r]
\* The same at the head of a compare-and-set loop, with all attempts left.
Loop(p, place, r) == [At(p, place, r) EXCEPT !.tries = MaxCasAttempts]

StoreUnchanged == UNCHANGED routes
HostsUnchanged == UNCHANGED <<now, minted, epoch, session, snapshot>>

-----------------------------------------------------------------------------
(* submit and recover_submission                                           *)

\* submit_mode reads the clock, purges at most PurgeLimit expired routes and
\* takes the read-only recovery path for a recovery or a past deadline.
SubmitMode(p, sub, recovery_only) ==
    /\ h[p].pc = "idle"
    /\ PurgeExpired(now, PurgeLimit)
    /\ LET local == [Idle EXCEPT !.op = "submit", !.sub = sub, !.seen = now]
       IN  Become(p,
             IF recovery_only \/ sub.deadline <= now
             THEN [local EXCEPT !.pc = "recover"]
             ELSE IF ValidAt(sub, now) THEN [local EXCEPT !.pc = "begin"]
             ELSE Idle)
    /\ HostsUnchanged /\ UNCHANGED execs

\* The recovery path: find the retained route, re-parse the submission as of its
\* creation and compare the binding.
Recover(p) ==
    /\ h[p].pc = "recover"
    /\ LET found == {id \in BoundTo(h[p].sub.caller, h[p].sub.key) :
                       /\ ~IsExpired(routes[id], h[p].seen)
                       /\ ValidAt(h[p].sub, routes[id].created)
                       /\ routes[id].binding = Binding(p)}
       IN  \/ found = {} /\ Return(p)
           \/ \E id \in found :
                LET r == routes[id] IN
                Become(p, IF r.phase = "terminal" THEN Idle
                          ELSE IF r.phase = "prepared" THEN At(p, "nondispatch", r)
                          ELSE IF r.phase = "dispatching" THEN Loop(p, "mark", r)
                          ELSE At(p, "recheck", r))
    /\ StoreUnchanged /\ HostsUnchanged /\ UNCHANGED execs

\* The await of source_binding_is_current on a retained acceptance.
Recheck(p) ==
    /\ h[p].pc = "recheck"
    /\ Become(p, IF BindingCurrent(p, h[p].rec) THEN Idle
                 ELSE Loop(p, "mark", h[p].rec))
    /\ StoreUnchanged /\ HostsUnchanged /\ UNCHANGED execs

\* The record prepared as of the clock read at the start of the request.
Candidate(p) ==
    Prepare(minted + 1, h[p].sub.caller, h[p].sub.key, Binding(p),
            SessionId(Host(p)), h[p].seen, h[p].sub.retention)

\* begin_or_existing on it.  Running out of the model's IDs (MaxRoutes) looks to
\* the handler like GM_TASK_ROUTE_CAPACITY.
Begin(p) ==
    /\ h[p].pc = "begin"
    /\ LET new == Candidate(p) IN
       IF BeginInserts(new) /\ minted < MaxRoutes
       THEN /\ BeginOrExisting(new)
            /\ minted' = minted + 1
            /\ Become(p, At(p, "claim", new))
       ELSE /\ UNCHANGED <<routes, minted>>
            /\ IF LiveBinding(new) = {} \/ BeginConflicts(new)
               THEN Return(p)
               ELSE \E id \in LiveBinding(new) :
                      Become(p, IF routes[id].phase = "terminal" THEN Idle
                                ELSE [At(p, "existing", routes[id])
                                        EXCEPT !.seen = h[p].seen])
    /\ UNCHANGED <<now, epoch, session, snapshot, execs>>

\* An existing, unfinished route: drift and a foreign or overdue dispatch are
\* ambiguous, a prepared route may still be claimed, anything else is returned.
Existing(p) ==
    /\ h[p].pc = "existing"
    /\ LET r == h[p].rec IN
       IF \/ ~BindingCurrent(p, r)
          \/ /\ r.phase = "dispatching"
             /\ r.owner # InstanceId(Host(p)) \/ h[p].seen >= ExecutionCutoff(r)
       THEN Become(p, Loop(p, "mark", r))
       ELSE Become(p, IF r.phase = "prepared" THEN At(p, "claim", r) ELSE Idle)
    /\ StoreUnchanged /\ HostsUnchanged /\ UNCHANGED execs

\* One compare-and-set on the handler's copy of the record.
Cas(p, u) == CompareAndSet(h[p].rec.caller, h[p].rec.id, h[p].rec.version, u)
CasOk(p, u) == CasSucceeds(h[p].rec.caller, h[p].rec.id, h[p].rec.version, u)
Stored(p) == GetTaskRoute(h[p].rec.caller, h[p].rec.id)
\* A stale version makes the caller reload; anything else that fails is an error.
CasStale(p) == Stored(p) # None /\ Stored(p).version # h[p].rec.version

ClaimDispatch(p) ==
    /\ h[p].pc = "claim"
    /\ LET u == Dispatching(InstanceId(Host(p))) IN
       /\ Cas(p, u)
       /\ IF CasOk(p, u)
          THEN Become(p, At(p, "cutoff", Successor(h[p].rec, u)))
          ELSE Return(p)
    /\ HostsUnchanged /\ UNCHANGED execs

\* Mutant: the claim is dispatched without looking at the clock again.
NoCutoffCheck(p) ==
    /\ h[p].pc = "cutoff"
    /\ Goto(p, "send")
    /\ StoreUnchanged /\ HostsUnchanged /\ UNCHANGED execs

\* remaining_ms against a fresh clock.
CheckCutoff(p) ==
    /\ h[p].pc = "cutoff"
    /\ Goto(p, IF now < ExecutionCutoff(h[p].rec) THEN "send" ELSE "nondispatch")
    /\ StoreUnchanged /\ HostsUnchanged /\ UNCHANGED execs

\* Mutant: the request goes out on whatever session the source has now.
DispatchUnfenced(p) ==
    /\ h[p].pc = "send"
    /\ \E status \in {"working", "lost"} :
          execs' = Append(execs,
            [route |-> h[p].rec.id, sub |-> Submission(h[p].rec),
             session |-> SessionId(Host(p)), owner |-> h[p].rec.owner,
             status |-> status, acked |-> FALSE, bound |-> FALSE,
             cancel |-> "none"])
    /\ Become(p, [h[p] EXCEPT !.pc = "await", !.uid = Len(execs) + 1])
    /\ StoreUnchanged /\ HostsUnchanged

\* call_tool_with_task_capability_for_session on the record's own session: the
\* request leaves the gateway and reaches the upstream or is lost on the way.
Dispatch(p) ==
    /\ h[p].pc = "send"
    /\ h[p].rec.session = SessionId(Host(p))
    /\ \E status \in {"working", "lost"} :
          execs' = Append(execs,
            [route |-> h[p].rec.id, sub |-> Submission(h[p].rec),
             session |-> h[p].rec.session, owner |-> h[p].rec.owner,
             status |-> status, acked |-> FALSE, bound |-> FALSE,
             cancel |-> "none"])
    /\ Become(p, [h[p] EXCEPT !.pc = "await", !.uid = Len(execs) + 1])
    /\ StoreUnchanged /\ HostsUnchanged

\* The session changed, or the timeout fired while waiting for the connection.
DispatchRefused(p) ==
    /\ h[p].pc = "send"
    /\ \/ h[p].rec.session # SessionId(Host(p))
       \/ now >= ExecutionCutoff(h[p].rec)
    /\ Become(p, Loop(p, "mark", h[p].rec))
    /\ StoreUnchanged /\ HostsUnchanged /\ UNCHANGED execs

\* cancel_upstream: 5 s for the peer, a session that is still the record's, the
\* locks of the source and the call itself.  It may end before the request has left,
\* and every caller ignores how it ended, or answers the same either way.
TryCancel(p, uid) ==
    \E cancel \in {"tried"} \cup
            (IF h[p].rec.session = SessionId(Host(p)) THEN {"sent"} ELSE {}) :
        execs' = [execs EXCEPT ![uid].cancel = IF @ = "sent" THEN "sent" ELSE cancel]

-----------------------------------------------------------------------------
(* The answer to a dispatch                                                *)

\* Timeout, transport error, input_required, an unexpected response, or a
\* completed result that does not echo the execution envelope.
ResponseAmbiguous(p) ==
    /\ h[p].pc = "await"
    /\ Become(p, Loop(p, "mark", h[p].rec))
    /\ StoreUnchanged /\ HostsUnchanged /\ UNCHANGED execs

Reached(p) == execs[h[p].uid].status # "lost"

\* A created task, its envelope echoed ("ack") or not ("nack").
ResponseTask(p) ==
    /\ h[p].pc = "await" /\ Reached(p)
    /\ execs' = [execs EXCEPT ![h[p].uid].acked = TRUE]
    /\ \E note \in {"ack", "nack"} :
          Become(p, [Loop(p, "bind", h[p].rec)
                       EXCEPT !.note = note, !.uid = h[p].uid])
    /\ StoreUnchanged /\ HostsUnchanged

\* A created task whose ID the route cannot store: cancelled (cancel_raw_upstream),
\* then ambiguous.
ResponseBadId(p) ==
    /\ h[p].pc = "await" /\ Reached(p)
    /\ TryCancel(p, h[p].uid)
    /\ Become(p, Loop(p, "mark", h[p].rec))
    /\ StoreUnchanged /\ HostsUnchanged

\* A complete result: cached, or rejected when late or oversized.
ResponseComplete(p) ==
    /\ h[p].pc = "await"
    /\ execs[h[p].uid].status \in {"working", "completed"}
    /\ execs' = [execs EXCEPT ![h[p].uid].status = "completed"]
    /\ \E verdict \in (IF now >= ExecutionCutoff(h[p].rec)
                       THEN {"rejected"} ELSE {"completed", "rejected"}) :
          Become(p, [Loop(p, "finish", h[p].rec) EXCEPT !.note = verdict])
    /\ StoreUnchanged /\ HostsUnchanged

-----------------------------------------------------------------------------
(* Compare-and-set loops.  Each makes at most MaxCasAttempts attempts, and *)
(* a success on the last attempt still ends in the loop's error.           *)

\* bind_upstream_task: what to write for the phase the handler last saw.
BindUpdate(p) ==
    IF h[p].rec.phase = "cancel_requested"
    THEN CancelRequestedWithUpstream(h[p].uid) ELSE Routed(h[p].uid)

Bindable(p) ==
    /\ h[p].rec.upstream = None
    /\ \/ h[p].rec.phase \in {"reconciliation_required", "cancel_requested"}
       \/ /\ h[p].rec.phase = "dispatching"
          /\ h[p].rec.owner = execs[h[p].uid].owner

\* The new upstream ID is bound; a route already cancelled, an unacknowledged
\* envelope or a passed cutoff asks for cancellation at once.
BindUpstreamTask(p) ==
    /\ h[p].pc = "bind"
    /\ h[p].tries > 0 /\ Bindable(p) /\ CasOk(p, BindUpdate(p))
    /\ Cas(p, BindUpdate(p))
    /\ execs' = [execs EXCEPT ![h[p].uid].bound = TRUE]
    /\ LET routed == Successor(h[p].rec, BindUpdate(p)) IN
       Become(p, IF \/ routed.phase = "cancel_requested"
                    \/ h[p].note = "nack"
                    \/ now >= ExecutionCutoff(routed)
                 THEN Loop(p, "intent", routed) ELSE Idle)
    /\ HostsUnchanged

\* Mutant: a stale bind is retried without reloading.
BindStaleSpins(p) ==
    /\ h[p].pc = "bind"
    /\ h[p].tries > 0 /\ Bindable(p) /\ CasStale(p)
    /\ UNCHANGED vars

BindStale(p) ==
    /\ h[p].pc = "bind"
    /\ h[p].tries > 0 /\ Bindable(p) /\ CasStale(p)
    /\ Become(p, [h[p] EXCEPT !.rec = Stored(p), !.tries = @ - 1])
    /\ StoreUnchanged /\ HostsUnchanged /\ UNCHANGED execs

\* Mutant: the error of the bind is returned at once.
BindFailsSilently(p) ==
    /\ h[p].pc = "bind"
    /\ \/ h[p].tries = 0
       \/ ~Bindable(p)
       \/ ~CasOk(p, BindUpdate(p)) /\ ~CasStale(p)
    /\ Return(p)
    /\ StoreUnchanged /\ HostsUnchanged /\ UNCHANGED execs

\* The route is settled, foreign, bound to another ID, gone, or too contended:
\* the upstream task just created must be cancelled without it.
BindFails(p) ==
    /\ h[p].pc = "bind"
    /\ \/ h[p].tries = 0
       \/ ~Bindable(p)
       \/ ~CasOk(p, BindUpdate(p)) /\ ~CasStale(p)
    /\ Become(p, [At(p, "orphan", h[p].rec) EXCEPT !.uid = h[p].uid])
    /\ StoreUnchanged /\ HostsUnchanged /\ UNCHANGED execs

\* Where a handler goes once its update is durable: only request_cancellation
\* still has something to do, if the route has an upstream task.
AfterUpdate(p, r) ==
    IF h[p].pc = "intent" /\ r.phase # "terminal" /\ r.upstream # None
    THEN At(p, "cancel", r) ELSE Idle

\* The common shape of finish_terminal, persist_cancellation_intent and
\* mark_reconciliation_required: write `u' unless the copy's phase is already in
\* `settled'.
UpdateLoop(p, place, u, settled) ==
    /\ h[p].pc = place
    /\ \/ /\ h[p].rec.phase \in settled
          /\ h[p].tries > 0
          /\ Become(p, AfterUpdate(p, h[p].rec))
          /\ StoreUnchanged
       \/ /\ h[p].rec.phase \notin settled
          /\ h[p].tries > 0 /\ CasOk(p, u)
          /\ Cas(p, u)
          /\ Become(p, IF h[p].tries > 1 THEN AfterUpdate(p, Successor(h[p].rec, u))
                       ELSE Idle)
       \/ /\ h[p].rec.phase \notin settled
          /\ h[p].tries > 0 /\ CasStale(p)
          /\ Become(p, [h[p] EXCEPT !.rec = Stored(p), !.tries = @ - 1])
          /\ StoreUnchanged
       \/ /\ \/ h[p].tries = 0
             \/ h[p].rec.phase \notin settled /\ ~CasOk(p, u) /\ ~CasStale(p)
          /\ Return(p)
          /\ StoreUnchanged
    /\ HostsUnchanged /\ UNCHANGED execs

MarkReconciliationRequired(p) ==
    UpdateLoop(p, "mark", ReconciliationRequired,
               {"reconciliation_required", "cancel_requested", "terminal"})

FinishTerminal(p) == UpdateLoop(p, "finish", Terminal(h[p].note), {"terminal"})

\* Mutant: a task with an upstream ID is cancelled there first.
CancelBeforeIntent(p) ==
    /\ h[p].pc = "intent"
    /\ Become(p, IF h[p].rec.upstream = None THEN Idle ELSE At(p, "cancel", h[p].rec))
    /\ StoreUnchanged /\ HostsUnchanged /\ UNCHANGED execs

\* request_cancellation: durable intent first, then the upstream request.
PersistCancellationIntent(p) ==
    UpdateLoop(p, "intent", CancelRequested, {"cancel_requested", "terminal"})

\* Mutant: the verdict is written at whatever version the route has now.
FinishNonDispatchRetried(p) ==
    /\ h[p].pc = "nondispatch"
    /\ IF Stored(p) = None THEN StoreUnchanged
       ELSE CompareAndSet(h[p].rec.caller, h[p].rec.id, Stored(p).version,
                          Terminal("not_dispatched"))
    /\ Return(p)
    /\ HostsUnchanged /\ UNCHANGED execs

\* finish_non_dispatch_once: one attempt, at the version that was observed.
FinishNonDispatchOnce(p) ==
    /\ h[p].pc = "nondispatch"
    /\ Cas(p, Terminal("not_dispatched"))
    /\ Return(p)
    /\ HostsUnchanged /\ UNCHANGED execs

-----------------------------------------------------------------------------
(* Cancellation messages, to the route's own task or to an orphan.         *)

\* After the durable intent, to the route's own upstream task.
CancelUpstream(p) ==
    /\ h[p].pc = "cancel"
    /\ TryCancel(p, h[p].rec.upstream)
    /\ Return(p)
    /\ StoreUnchanged /\ HostsUnchanged

\* To an upstream task that could not be bound.
CancelOrphan(p) ==
    /\ h[p].pc = "orphan"
    /\ TryCancel(p, h[p].uid)
    /\ Return(p)
    /\ StoreUnchanged /\ HostsUnchanged

-----------------------------------------------------------------------------
(* get_task and cancel_task                                                *)

\* A request first waits for the instance's lock of that (caller, ID).
RequestTask(p, op, caller, id) ==
    /\ h[p].pc = "idle"
    /\ Become(p, [Idle EXCEPT !.pc = "lock", !.op = op,
                              !.rec = [caller |-> caller, id |-> id]])
    /\ StoreUnchanged /\ HostsUnchanged /\ UNCHANGED execs

HoldsRouteLock(q, caller, id) ==
    /\ h[q].op \in {"get", "cancel"}
    /\ h[q].pc # "lock"
    /\ h[q].rec.caller = caller /\ h[q].rec.id = id

RouteLockFree(p) ==
    \A q \in Handlers \ {p} :
        Host(q) = Host(p) => ~HoldsRouteLock(q, h[p].rec.caller, h[p].rec.id)

\* Under the lock: read the route and the clock.  Unknown, foreign, expired and
\* terminal routes are answered at once.
ReadRoute(p) ==
    /\ h[p].pc = "lock"
    /\ RouteLockFree(p)
    /\ LET r == Stored(p) IN
       Become(p, IF r = None THEN Idle
                 ELSE IF IsExpired(r, now) \/ r.phase = "terminal" THEN Idle
                 ELSE IF h[p].op = "get"
                 THEN [At(p, "decide", r) EXCEPT !.seen = now]
                 ELSE Loop(p, "intent", r))
    /\ StoreUnchanged /\ HostsUnchanged /\ UNCHANGED execs

\* Mutant: an overdue or foreign dispatch is reported as working.
DecideTrusting(p) ==
    /\ h[p].pc = "decide"
    /\ LET r    == h[p].rec
           late == h[p].seen >= ExecutionCutoff(r)
       IN  Become(p,
             CASE r.upstream # None /\ ~BindingCurrent(p, r) -> Loop(p, "mark", r)
               [] r.upstream = None /\ r.phase = "prepared" /\ late ->
                    At(p, "nondispatch", r)
               [] r.upstream # None /\ r.phase = "cancel_requested" ->
                    At(p, "retry", r)
               [] r.upstream # None /\ r.phase # "cancel_requested" ->
                    IF late THEN Loop(p, "intent", r) ELSE At(p, "poll", r)
               [] OTHER -> Idle)
    /\ StoreUnchanged /\ HostsUnchanged /\ UNCHANGED execs

\* get_task's match on the phase it read, after awaiting the binding check.
Decide(p) ==
    /\ h[p].pc = "decide"
    /\ LET r    == h[p].rec
           late == h[p].seen >= ExecutionCutoff(r)
       IN  Become(p,
             CASE r.upstream # None /\ ~BindingCurrent(p, r) -> Loop(p, "mark", r)
               [] r.upstream = None /\ r.phase = "prepared" ->
                    IF late THEN At(p, "nondispatch", r) ELSE Idle
               [] r.upstream = None /\ r.phase = "dispatching" ->
                    IF late \/ r.owner # InstanceId(Host(p))
                    THEN Loop(p, "mark", r) ELSE Idle
               [] OTHER ->
                    IF r.upstream = None THEN Idle
                    ELSE IF r.phase = "cancel_requested" THEN At(p, "retry", r)
                    ELSE IF late THEN Loop(p, "intent", r)
                    ELSE At(p, "poll", r))
    /\ StoreUnchanged /\ HostsUnchanged /\ UNCHANGED execs

\* poll_upstream retries a durable cancellation before it polls.
RetryCancel(p) ==
    /\ h[p].pc = "retry"
    /\ TryCancel(p, h[p].rec.upstream)
    /\ Goto(p, "poll")
    /\ StoreUnchanged /\ HostsUnchanged

\* get_task_for_session answered, with the status of that moment, and echoed the
\* envelope of this route.
PollUpstream(p) ==
    /\ h[p].pc = "poll"
    /\ now < ExecutionCutoff(h[p].rec) \/ h[p].rec.phase = "cancel_requested"
    /\ h[p].rec.session = SessionId(Host(p))
    /\ Become(p, [At(p, "polled", h[p].rec)
                    EXCEPT !.note = execs[h[p].rec.upstream].status])
    /\ StoreUnchanged /\ HostsUnchanged /\ UNCHANGED execs

\* An error, a changed session or a response for something else: ambiguous.  No
\* time left, or a timeout: cancel.
PollFails(p) ==
    /\ h[p].pc = "poll"
    /\ \E place \in {"mark", "intent"} : Become(p, Loop(p, place, h[p].rec))
    /\ StoreUnchanged /\ HostsUnchanged /\ UNCHANGED execs

\* The answered poll against a fresh clock and the output limit.
Polled(p) ==
    /\ h[p].pc = "polled"
    /\ \E oversized \in BOOLEAN :
         LET done == h[p].note \in TerminalStatus
             late == now >= ExecutionCutoff(h[p].rec) /\ h[p].note # "cancelled"
             finish(v) == [Loop(p, "finish", h[p].rec) EXCEPT !.note = v]
         IN  Become(p,
               IF late \/ oversized
               THEN IF done THEN finish("rejected") ELSE Loop(p, "intent", h[p].rec)
               ELSE IF h[p].rec.phase = "reconciliation_required"
               THEN [At(p, "reroute", h[p].rec) EXCEPT !.note = h[p].note]
               ELSE IF done THEN finish(h[p].note) ELSE Idle)
    /\ StoreUnchanged /\ HostsUnchanged /\ UNCHANGED execs

\* A reconciled route is routed again (one update, reloaded when stale), and its
\* terminal answer recorded unless someone else finished it first.
Reroute(p) ==
    /\ h[p].pc = "reroute"
    /\ LET u == Routed(h[p].rec.upstream)
           active == IF CasOk(p, u) THEN Successor(h[p].rec, u) ELSE Stored(p)
       IN  /\ Cas(p, u)
           /\ IF \/ ~CasOk(p, u) /\ ~CasStale(p)
                 \/ h[p].note \notin TerminalStatus
              THEN Return(p)
              ELSE Become(p, IF active.phase = "terminal" THEN Idle
                             ELSE [Loop(p, "finish", active)
                                     EXCEPT !.note = h[p].note])
    /\ HostsUnchanged /\ UNCHANGED execs

-----------------------------------------------------------------------------
(* The environment.                                                        *)

Tick ==
    /\ now < MaxTime
    /\ now' = now + 1
    /\ UNCHANGED <<routes, minted, epoch, session, snapshot, h, execs>>

\* external: the upstream finishes an execution it received.
UpstreamSettles(uid) ==
    /\ execs[uid].status = "working"
    /\ \E status \in TerminalStatus :
          /\ status = "cancelled" => execs[uid].cancel = "sent"
          /\ execs' = [execs EXCEPT ![uid].status = status]
    /\ UNCHANGED <<routes, now, minted, epoch, session, snapshot, h>>

\* restart_after_failure replaced the connection; the snapshot is the same.
Reconnect(i) ==
    /\ session[i] < MaxSessions
    /\ session' = [session EXCEPT ![i] = @ + 1]
    /\ UNCHANGED <<routes, now, minted, epoch, snapshot, h, execs>>

HandlersLost(i) == h' = [p \in Handlers |-> IF Host(p) = i THEN Idle ELSE h[p]]

\* A new TaskProxy over the same table and the same live upstream connection.
RouterReopen(i) ==
    /\ epoch[i] < MaxEpochs
    /\ epoch' = [epoch EXCEPT ![i] = @ + 1]
    /\ HandlersLost(i)
    /\ UNCHANGED <<routes, now, minted, session, snapshot, execs>>

\* A process crash and restart: new instance, new connections, new discovery.
ProcessRestart(i) ==
    /\ epoch[i] < MaxEpochs /\ session[i] < MaxSessions
    /\ epoch' = [epoch EXCEPT ![i] = @ + 1]
    /\ session' = [session EXCEPT ![i] = @ + 1]
    /\ \E s \in Snapshots : snapshot' = [snapshot EXCEPT ![i] = s]
    /\ HandlersLost(i)
    /\ UNCHANGED <<routes, now, minted, execs>>

-----------------------------------------------------------------------------
Init ==
    /\ StoreInit
    /\ now = 0
    /\ minted = 0
    /\ epoch = [i \in Instances |-> 0]
    /\ session = [i \in Instances |-> 0]
    /\ snapshot \in [Instances -> Snapshots]
    /\ h = [p \in Handlers |-> Idle]
    /\ execs = << >>

\* What a handler does once its request has started.
HandlerStep(p) ==
    \/ Recover(p) \/ Recheck(p) \/ Begin(p) \/ Existing(p) \/ ClaimDispatch(p)
    \/ CheckCutoff(p) \/ Dispatch(p) \/ DispatchRefused(p)
    \/ ResponseAmbiguous(p) \/ ResponseTask(p) \/ ResponseBadId(p)
    \/ ResponseComplete(p)
    \/ BindUpstreamTask(p) \/ BindStale(p) \/ BindFails(p)
    \/ MarkReconciliationRequired(p) \/ FinishTerminal(p)
    \/ PersistCancellationIntent(p) \/ FinishNonDispatchOnce(p)
    \/ CancelUpstream(p) \/ CancelOrphan(p)
    \/ Decide(p) \/ RetryCancel(p) \/ PollUpstream(p) \/ PollFails(p)
    \/ Polled(p) \/ Reroute(p)

Request(p) ==
    \/ \E sub \in Submissions, recovery_only \in BOOLEAN :
          SubmitMode(p, sub, recovery_only)
    \/ \E op \in {"get", "cancel"}, caller \in Callers, id \in 1 .. minted :
          RequestTask(p, op, caller, id)

Environment ==
    \/ Tick
    \/ \E uid \in DOMAIN execs : UpstreamSettles(uid)
    \/ \E i \in Instances : Reconnect(i) \/ RouterReopen(i) \/ ProcessRestart(i)

Next ==
    \/ \E p \in Handlers : Request(p) \/ ReadRoute(p) \/ HandlerStep(p)
    \/ Environment

Spec == Init /\ [][Next]_vars

\* Every await of a handler ends: an upstream call by its timeout, the route lock
\* because tokio's Mutex queues its waiters in order and its holders return.
HandlersRun ==
    \A p \in Handlers : WF_vars(HandlerStep(p)) /\ SF_vars(ReadRoute(p))

\* The client of DURABLE_TASKS.md: it polls the task it was given again and again.
ClientPolls ==
    \A caller \in Callers, id \in 1 .. MaxRoutes :
        SF_vars(\E p \in Handlers :
                    id <= minted /\ RequestTask(p, "get", caller, id))

LiveSpec == Spec /\ HandlersRun /\ WF_vars(Tick) /\ ClientPolls

-----------------------------------------------------------------------------
(* Types.                                                                  *)

Places ==
    { "idle", "recover", "recheck", "begin", "existing", "claim", "cutoff",
      "send", "await", "bind", "orphan", "mark", "finish", "intent", "cancel",
      "nondispatch", "lock", "decide", "retry", "poll", "polled", "reroute" }

Statuses == {"lost", "working"} \cup TerminalStatus

Execution ==
    [route : PublicIds, sub : Submissions, session : Sessions, owner : Owners,
     status : Statuses,
     acked : BOOLEAN, bound : BOOLEAN, cancel : {"none", "tried", "sent"}]

\* Places at which a handler holds a copy of a record.
WithRecord ==
    Places \ {"idle", "recover", "begin", "lock"}

ProxyTypeOK ==
    /\ TypeOK
    /\ now \in Nat
    /\ minted \in 0 .. MaxRoutes
    /\ epoch \in [Instances -> 0 .. MaxEpochs]
    /\ session \in [Instances -> 0 .. MaxSessions]
    /\ snapshot \in [Instances -> Snapshots]
    /\ execs \in Seq(Execution)
    /\ \A p \in Handlers :
          /\ h[p].pc \in Places
          /\ h[p].tries \in 0 .. MaxCasAttempts
          /\ h[p].seen \in 0 .. now
          /\ h[p].pc \in WithRecord => h[p].rec \in Record
          /\ h[p].pc \in {"await", "bind", "orphan"} => h[p].uid \in DOMAIN execs

-----------------------------------------------------------------------------
(* Safety.                                                                 *)

\* One submission document leads to at most one execution request upstream,
\* over concurrent and repeated submissions, recoveries, expiry and purge of its
\* route, reconnects, restarts and instances that share the table: an ambiguous
\* dispatch is never submitted again.
AtMostOneDispatch ==
    \A u, v \in DOMAIN execs : execs[u].sub = execs[v].sub => u = v

SentFor(id) == {u \in DOMAIN execs : execs[u].route = id}

\* A cached verdict tells the truth about the upstream: "not_dispatched" only if
\* no request was or will be sent for the route, and an outcome only if an
\* execution of this very route ended that way.
VerdictHonest ==
    \A id \in DOMAIN routes :
        LET v == routes[id].cached IN
        /\ v = "not_dispatched" => SentFor(id) = {}
        /\ v = "rejected" => \E u \in SentFor(id) : execs[u].status \in TerminalStatus
        /\ v \in TerminalStatus => \E u \in SentFor(id) : execs[u].status = v

\* The upstream ID stored in a route was issued for that route's dispatch, on the
\* session the route is fenced to.
BindingFaithful ==
    \A id \in DOMAIN routes :
        routes[id].upstream # None =>
            /\ routes[id].upstream \in SentFor(id)
            /\ execs[routes[id].upstream].session = routes[id].session
            /\ execs[routes[id].upstream].bound

\* A cancel of a route's own upstream task is not even tried before the cancellation
\* intent is durable.
IntentBeforeCancel ==
    \A id \in DOMAIN routes :
        LET r == routes[id] IN
        (r.upstream # None /\ execs[r.upstream].cancel # "none")
            => r.phase \in {"cancel_requested", "terminal"}

\* A request is sent only for a route that was durably claimed: one cancelled or
\* set aside while still prepared is never dispatched afterwards.
DispatchNeedsClaim ==
    \A u \in DOMAIN execs :
        execs[u].route \in DOMAIN routes =>
            LET r == routes[execs[u].route] IN
            /\ r.phase # "prepared"
            /\ r.version = 1 => r.phase = "dispatching"

\* A task the upstream acknowledged is not forgotten: while the proxy that dispatched
\* it lives, it is bound to its route, a cancel of it was tried, or its handler is
\* still about to do one of the two - also when the route was cancelled, finished,
\* taken over or purged meanwhile, and over reconnects.
AcknowledgedTaskTracked ==
    \A u \in DOMAIN execs :
        execs[u].acked /\ execs[u].owner = InstanceId(execs[u].session[1])
        => \/ execs[u].bound
           \/ execs[u].cancel # "none"
           \/ \E p \in Handlers : h[p].pc \in {"bind", "orphan"} /\ h[p].uid = u

\* A task that no route holds is cancelled upstream while its session lasts.
\* Not kept, and checked by no run: the one cancel that is tried may run out of time
\* before it is sent, and nobody tries again.
OrphanCancelled ==
    \A u \in DOMAIN execs :
        LET i == execs[u].session[1] IN
        /\ execs[u].acked
        /\ execs[u].session = SessionId(i) /\ execs[u].owner = InstanceId(i)
        => \/ execs[u].bound
           \/ execs[u].cancel = "sent"
           \/ \E p \in Handlers : h[p].pc \in {"bind", "orphan"} /\ h[p].uid = u

-----------------------------------------------------------------------------
(* Action properties.                                                      *)

\* A route disappears only once its retention has really elapsed, although the
\* purge and the replacement of a key run on a clock read earlier.
RetentionHonoured ==
    [][\A id \in DOMAIN routes :
          id \notin DOMAIN routes' => routes[id].expires <= now]_vars

-----------------------------------------------------------------------------
(* Liveness.                                                               *)

\* Every request returns, under contention for the route lock and for the route's
\* version: no compare-and-set loop spins and no lock is held forever.
RequestReturns ==
    \A p \in Handlers : (h[p].pc # "idle") ~> (h[p].pc = "idle")

Unsettled(id) ==
    /\ id \in DOMAIN routes
    /\ routes[id].phase \in {"prepared", "dispatching", "routed"}

\* A polled route does not outlive its execution cutoff unsettled: it becomes
\* terminal, reconciliation_required or cancel_requested while still retained,
\* even if the dispatching handler was lost.  The version counter's end, where
\* the store refuses every transition, is the exception.
PolledRouteSettles ==
    \A id \in 1 .. MaxRoutes :
        Unsettled(id) ~> (~Unsettled(id) \/ routes[id].version = MaxSqliteInteger)
=============================================================================
