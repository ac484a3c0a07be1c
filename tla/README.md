# GaugeMesh in TLA+

GaugeMesh is a gateway for the Model Context Protocol written in Rust
(`src/crates/gaugemesh-core` and `src/crates/gaugemesh`).  A caller speaks MCP to
the gateway; the gateway plans and leases a route to a tool, calls an upstream
server, and can run the call as a *durable task*: a record in SQLite survives
restarts and an ambiguous dispatch is never repeated.  This directory holds the
TLA+ specification of the parts of the system where order, failure and
concurrency decide whether it is correct, the TLC instances that check it and
the TLAPS proofs about it.

Contents: [inventory](#inventory) · [modules](#modules-and-code) ·
[runs](#runs) · [disagreements](#known-disagreements) · [proofs](#proofs) ·
[abstractions](#abstractions) · [not modelled](#not-modelled) · [plan](#plan)

## Inventory

Paths are relative to `src/crates/`; `core` is `gaugemesh-core/src` and `gw` is
`gaugemesh/src`.

| Component | State | Operations | Modelled |
|---|---|---|---|
| Task-route record, `core/task.rs` | phase, upstream ID, owner, version, cached verdict of one durable task | `prepare`, `transition`, `validate_shape`, six update constructors | `TaskRoute` |
| Task-route table in SQLite, `core/storage.rs` | one row per public ID, a unique index on (caller, key) | `begin_or_existing`, `get_task_route`, `find_task_route`, `compare_and_set_task_route`, `purge_expired_task_routes` | `TaskRouteStore` |
| Task-route table in memory, `core/storage.rs` | map by ID, idempotency index, expiry index | the same trait | `MemoryTaskRoutes` |
| Durable task proxy, `gw/task_proxy.rs` | instance ID, lock per route, local copies of records | `submit`, `recover_submission`, `get_task`, `cancel_task` | `TaskProxy` |
| Durable runs, `core/run.rs`, `gw/runs.rs` | journalled run: steps, phases, stable keys, artifacts, version | submit, resume (recover, poll, verify, stop, dispatch), cancel, status | `Runs` |
| Upstream runtime, `gw/outbound.rs` | per source: connection, session ID, restart budget, locks, shutdown flag | select and send, restart after failure, shutdown; start-up discovery | `Upstream`, `Discovery`; the session fence also in `TaskProxy` |
| Federation, `core/federation.rs`, `capability.rs` | accepted snapshot per source, sealed cursors | merge, alias, accept a pin, page | `Discovery`, `Cursors` |
| Leases, `core/lease.rs`, tables in `core/storage.rs` | signed leases | issue, check at each use, release | `Leases` |
| Approvals, `gw/approval.rs` | prompts, the terminal, webhooks | handle an elicitation under four policies | `Approvals` |
| Authentication, `gw/auth.rs` | cache of the provider's signing keys | verify, refresh | `KeyCache` |
| Route planner, `core/route.rs` | none (pure) | decide, total, verify_integrity | `Routes`, `RouteDecisions` |
| Invariants, budgets and context, `core/invariant.rs`, `budget.rs`, `context.rs`, `translation.rs` | the context of a request | conserve, report_translation, debit | `Conservation` |
| Model broker, `gw/model.rs`, `core/model.rs` | none between requests | route under a budget, one tool round, complete | `ModelBroker` |
| Process pool, `core/process_pool.rs` | entries by key (references, generation, restart budget), serialization locks, slots | `acquire`, `release`, `reap_idle`, `record_crash`, `process_count` | `ProcessPool` |
| Admission, `gw/admission.rs` | tracked tenants with permits and a queue counter, the gateway's permits | `acquire` with eviction and timeout, the drop of a permit, `limit_requests` | `Admission` |
| Fair queue, `core/runtime.rs` | queues and deficits per tenant | `push`, `pop` | `FairQueue` |
| Circuit breaker, `core/runtime.rs` | state, failures, successes, opening time | `state`, `record_failure`, `record_success` | `CircuitBreaker` |
| Configuration file, `gw/main.rs`, `config.rs` | one file, edited by commands | init, add, remove, write_config | `Registry` (the commands that change the file) |
| MCP surface, `gw/mcp.rs` | none of its own | parses requests, calls the parts above | paging, multi-round tools, lease tools |
| Policy, causal graph, digests, verification, CLI output | none, or a value | evaluate, append, print | no |

### Interactions

`mcp.rs` receives a request and calls `TaskProxy` (a durable task), `runs.rs` (a
plan of several tasks, each submitted through `TaskProxy` under a stable key) or
`outbound.rs` (a direct call), after the checks of `admission.rs`, `auth.rs` and,
where a lease is named, of the lease table.  `TaskProxy` shares the
`TaskRouteStorage` trait object with every other proxy on the same database, and
calls `outbound.rs` for dispatch, poll and cancel.  `outbound.rs` owns the
connection of each source; a reconnect gives it a new *session*, and every call
of the task proxy names the session it believes in.  An upstream may put a question
of its own (an elicitation) through `outbound.rs` to `approval.rs` in the middle of a
call.  Nothing else is pushed from the upstream: a task's end is seen only when its
caller, or a run's next sweep, polls.

### What is hard, and what must hold

* **Task proxy.** Handlers interleave at every store call and every await, each
  with a copy of a record and of the clock that goes stale.  Requests and answers
  are lost; a timeout races a late answer; connections and processes are replaced
  at any point; several gateways share the table.  It must dispatch a submission
  at most once, tell the truth in every cached verdict, write a cancellation
  intent before it cancels, never forget a task the upstream acknowledged, keep a
  route for its whole retention, answer every request, and settle a polled route.
* **Task-route stores.** Clients pass creation times and purge times in any order.
  A caller's key must stay bound to one route, capacities must hold, a route's
  identity, upstream ID, terminal verdict and cancellation intent must survive any
  sequence of legal calls, and the two implementations must agree.
* **Runs.** A step is journalled before its task is submitted.  Sweeps of several
  processes, a cancel that takes no lock, crashes between any two writes, lost
  answers, altered artifacts and the deadline must not lead to a task nobody
  journalled, to more tasks than `max_concurrency`, to a row that cannot be read, or
  to a status that hides a task.
* **Upstream runtime.** Requests that fail together restart once; a restart is
  dropped half-way; `shutdown` comes in between.  A bound request must keep to its
  session, the budget must hold, no connection may be left without an owner, no
  request may hang.
* **Leases.** Between its issue and its use, the token, the tool, the process and the
  lease itself may all have changed.
* **Approvals.** A read of the terminal cannot be called off: the answer to one prompt
  must not be taken for another's.
* **Authentication.** Keys rotate while requests share a cache and wait for one
  another's fetch: a withdrawn key must lapse in time, a published one must work.
* **Cursors.** Listings and conversations live in the tokens only; over restarts and
  in the hands of any client they must not skip, repeat or mix.
* **Discovery.** Sources fail or differ half-way: what is served must be what was
  reviewed, and nothing of a source that was left out.
* **Configuration.** Commands edit one file without a lock.
* **Conservation.** Every hop is checked against the one before; the whole way must
  not gain a permission, a budget, or a delegation in a circle.
* **Route planner.** The planner and the verifier of its decisions are separate code
  that must agree on order, ties and reasons.
* **Model broker.** Hard limits are checked before routing; what is sent afterwards
  may have grown.
* **Process pool.** `acquire` waits for one key's lock under the lock of all keys,
  two callers may both make the process they found missing, and the reaper runs
  between references.  References, slots and exclusive use must stay exact when
  callers are cancelled, and no call may wait for ever.
* **Admission.** Idle tenants are evicted while requests look them up, wait, time out
  or run.  Limits must hold across evictions, and no permit may be lost.
* **Fair queue.** Costs, deficits and the order of visits must not let a tenant gain
  on another or starve, and a `pop` that returns nothing must not do so for ever.
* **Breaker.** Outcomes of old calls arrive in any state; it must open, be probed and
  close only on the evidence its thresholds ask for.

`PROJECT.json` lists every hazard at its line, with the properties that guard it
or the reason none does.

## Modules and code

    TaskRoute ───────► TaskRouteStore ───────► TaskProxy ──► MCTaskProxy
        │                    │   ▲                 │          (4 instances)
        │                    │   │                 └► TaskProxyProofs ──► TaskProxySafetyProofs
        │                    │   └─ implements ─┐
        │                                       │
        └──────────────► MemoryTaskRoutes ──────┘
                              ├► MCMemoryTaskRoutes
                              └► MemoryTaskRoutesProofs

    Runs ─────────► MCRuns              Runs ► RunsProofs
    Upstream ─────► MCUpstream
    ProcessPool ──► MCProcessPool       ProcessPool, MCUpstream ► OutboundProofs

    Admission, FairQueue, CircuitBreaker ───────────────────────► MCRuntime ► RuntimeProofs
    Leases, Approvals, KeyCache, Cursors, Registry, Discovery ──► MCAccess ► AccessProofs
    Routes ► RouteDecisions, ModelBroker; Conservation ─────────► MCPlanning ► PlanningProofs

**`TaskRoute`** is the record: `Prepare`, `Successor` and `TransitionAllowed` are
`prepare_with_id` and `transition`, `ValidShape` is `validate_shape`,
`CanTransition` the phase graph, and the six update operators the constructors of
`TaskRouteUpdate`.  Pure operators only.

**`TaskRouteStore`** is the trait as `SqliteStorage` implements it.  One variable,
`routes`, maps public IDs to records.  `BeginOrExisting`, `CompareAndSet` and
`PurgeExpired` are one IMMEDIATE transaction each, hence one step.  The operators
take the request's inputs as parameters, so the same definitions serve two
specifications: `StoreSpec`, an arbitrary client that passes any record, update,
version, clock and limit; and `TaskProxy`, which is one particular client.

**`MemoryTaskRoutes`** is `MemoryStorage`: the map and its two indexes, one step per
write guard.  Where the code trusts an index, so does the model: the idempotency
lookup never scans the map and the purge removes what `by_expiry` says without
looking at the record.  `Store` is `TaskRouteStore` with the map as the table.

**`TaskProxy`** is `task_proxy.rs`.  `h[p]` is the local state of a request handler:
`pc` names the await it is at, `rec` is its copy of the record, `seen` its copy of
the clock, `tries` the attempts left of a compare-and-set loop, `uid` the upstream
task it was just given, `note` an answer it carries.

| Places (`pc`) | Code |
|---|---|
| `recover`, `recheck` | the recovery path of `submit_mode` and `recover_submission`'s binding check |
| `begin`, `existing`, `claim` | `begin_or_existing`, the match on an existing route, `claim_and_dispatch` |
| `cutoff`, `send`, `await` | `dispatch_claimed`: the clock check, the call, its outcome |
| `bind`, `orphan` | `bind_upstream_task`, and the cancel of a task it could not bind |
| `mark`, `finish`, `intent` | `mark_reconciliation_required`, `finish_terminal`, `persist_cancellation_intent` |
| `nondispatch` | `finish_non_dispatch_once` |
| `lock`, `decide` | the route lock and the phase match of `get_task` and `cancel_task` |
| `retry`, `poll`, `polled`, `reroute` | `poll_upstream` |
| `cancel` | `cancel_upstream` after a durable intent |

`execs` is the upstream's side: every execution request that left a gateway, with
whether it arrived, how it ended, whether its acknowledgement came back, and
whether it was bound, and whether a cancel of it was tried and did leave: the five
seconds of `cancel_upstream` also cover the locks of the source (`outbound.rs:561`,
`:811`), and every caller ignores how it ended (`TryCancel`).  It is what the proxy's
promises are about and the proxy never reads it except through an answer.  The environment
ticks the clock, lets the upstream settle a task (external), reconnects a source,
reopens the router over a live connection and restarts a process.

**`Admission`** is `admission.rs`.  `tenants` is the map, whose values name the
`TenantAdmission` in `adm` (free permits, waiters, queue counter): two of them may
belong to one tenant after an eviction, which is what the properties are about.
`req[r].pc` is where a request is in `acquire` and after it; a step is one critical
section or one atomic operation.  `Find` is the whole critical section of the map,
eviction included.  `ReturnPermit` is tokio's semaphore (external): a permit that is
given back goes to the first waiter.

**`ProcessPool`** is `process_pool.rs`.  `mutex` names the caller that keeps the
entries mutex while it awaits a serialization lock, the one place where a critical
section is not one step.  A user is one acquire, its permit and their end; `TaskOf` says
which users are the same task, which awaits one call at a time but may hold several
permits and call again while it holds them.  `Ask` and `Visit` are the three calls that
only need the mutex: `reap_idle`, `record_crash` and `process_count`.
`Cancel` is the drop of a pending call, `Lose` the
drop of a permit, or of a pending `release`, that leaves its reference behind; `lost`
counts those.  The slot of a caller that found the entry made meanwhile goes back
with the mutex, where the code drops it just after.

**`FairQueue`** is `DeficitRoundRobin`.  The loop of `pop` is a closed form: the first
tenant that can pay is served, those before it have been visited and rotated.

**`CircuitBreaker`** is the breaker, with ages in place of clock readings.

The pool, the fair queue and the breaker are library code of the core; nothing in
`gw` calls them yet.  The models of the queue and the breaker allow any sequence of
calls, and that of the pool any calls of tasks that await them one at a time.

**`Runs`** is one durable run.  `run` is its row; `drv[d]` is a sweep (`resume`) of one
process, with its copy of the row and the step its loop is at; a step of a sweep is
what happens between two awaits or transactions.  `Save` is the fenced write of
`StateStorage`: it fails when the version moved, and the sweep ends.  `task[s]` is the
task that `TaskProxy` keeps under the step's stable key: at most one, as
`AtMostOneDispatch` says, which may be in doubt (`lost`).

| Sweep (`pc`) | Code of `runs.rs` |
|---|---|
| `deadline`, `reverify` | the deadline check; artifacts of verified steps read again |
| `recover`, `submit`, `identify` | steps found in `submitting`; the call of the proxy; what its answer says of the task |
| `poll`, `cancel`, `get`, `got` | a poll of each active step, its cancellation, the answer observed and verified |
| `stop`, `dispatch` | a stopped or blocked run skips the rest; ready steps are journalled and submitted |

**`Upstream`** is one source of `outbound.rs`.  `req[c]` is a caller's request from
`select_peer` to the restart it may cause, with its pending future dropped at any await
(`Drop`); `restartLock` and `requestLock` are the two tokio mutexes; `Connect`,
`Verify` and `CloseOld` are the awaits of `restart_after_failure`.  A session ID is
drawn when a connection is installed, so the number of the connection stands for it.
`TaskProxy`'s `Reconnect` is what its handlers see of this module.

**`Discovery`** is the start-up: sources in order, listings page by page with their
limits, pins, and the merge under aliases.  A resource template whose expression the
gateway cannot expand (`Unsupported`, `simple_template_variables`) is left out with a
warning, although the digest that is pinned covers it: a reviewed source may be served
with less than its manifest, and `ServedAsReviewed` says by how much.

**`Cursors`** are the sealed tokens of paging and of the multi-round tools; a client
presents any token ever issued with any request, and the process restarts with another
key.

**`Leases`** is issue, use (`ReadLease`, then `Decide`: two steps, since the read is
awaited) and release, with tokens, tools and the clock moving in between; `Alter`
changes a stored row, as a disk might.  **`Approvals`** has `readers`, the reads of stdin that
outlive their prompt, and `lines`, what was typed when no read waited and stays in the
terminal for the next prompt.  **`KeyCache`** follows a bearer token through the cache, the
refresh mutex and one forced fetch.  **`Registry`** has one process per command:
read, compare, rename.

**`Conservation`** takes a context over any number of hops, each accepted by
`Conserves`, and debits.  **`Routes`** are the operators of the planner,
**`RouteDecisions`** the life of a decision that leaves the gateway, is edited and
sealed anew, and is validated.  **`ModelBroker`** extends `Routes`: a completion
request from its headers to the provider.

**`MCRuntime`**, **`MCAccess`** and **`MCPlanning`** each explore several small parts
in one run.  The parts share no variable: `part` says whose behaviour it is, and the
others rest in one of their initial states.  What is checked of a part is checked of all
its behaviours; the invariants of the others are evaluated where they rest, and
their temporal properties hold there because fairness is only asked of the part that
moves.

## Runs

| Run | Instance | Shows |
|---|---|---|
| `memory` | any client; 2 callers of 1 active route each, 2 keys, 3 IDs, 2 rows, times 0..2 | the indexes follow the map; `RefinesStore`: the in-memory store implements the SQLite table |
| `proxy_one` | one gateway, 2 handlers, 1 submission that ends and expires at time 1, clock 0..1, 1 reconnect, 1 reopen or restart, 2 routes | honest verdicts, faithful bindings, intent before cancel, no forgotten task, full retention |
| `proxy_two` | two gateways sharing the table, each with snapshot s1 or s2, 1 submission whose cutoff precedes its deadline, clock 0..2 | one dispatch across gateways |
| `proxy_keys` | one gateway, two documents of one caller under one key, clock 0..1 | the second document takes the key over once the first has expired, with handlers of the first still running |
| `proxy_live` | one gateway, 2 handlers, 1 submission, 1 reopen, 1 route | every request returns; a polled route settles |
| `runs` | 2 steps in any graph, 1 active at most; two processes, or one with a deadline and an artifact that is altered | nothing unjournalled is submitted, tasks in flight are bounded, the row always loads, the status accounts for every task |
| `runs_ready` | the same | **violated**: a run reported ready has something to dispatch |
| `upstream` | 2 callers with a request each, 1 restart, serialized or not | bound requests keep to their session, the restart budget holds, every request and shutdown end |
| `pool` | 3 uses by 2 tasks, a serialized and a shared key, 2 slots, 1 lost permit per key | every slot and reference is accounted for, exclusive use is exclusive, calls return unless a holder calls the pool while its lock is awaited |
| `runtime` | admission: 4 requests, 3 tenants of which 2 are tracked, 1 permit and 1 queue place each, 2 of the gateway; queue: 3 tenants of which 2 fit, 2 items each, costs to 3; breaker: opens after 5, closes after 3, 4 ticks between | limits hold across evictions, refusals are justified; costs served differ by at most `2 * MaxCost - 1`, everyone is served; the breaker opens, is probed and closes on evidence, and recovers |
| `access` | leases: 2 callers, 1 tool with 2 schemas and 2 effects; approvals: 3 requests of 1 connection, 1 line left in the terminal; keys: 2 keys, 2 requests, 1 rotation; cursors: 2 federations, pages of 1, 2 process starts; configuration: 2 processes, 3 commands; discovery: 2 sources, 2 listings, 2 names, 1 template that cannot be expanded, 2 pages | the property of each part, named in `MCAccess` |
| `planning` | conservation: 3 principals, delegations of 2 links, 2 budgets; planner: 2 candidates, 1 metric and the loss, edits of every field; broker: 2 providers, budgets with one part short at a time | nothing is gained on the way and delegation stays a chain; planner and verifier agree; a request reaches the best provider it can afford |

**Bounds.**  `MaxSqliteInteger` is the largest storable integer and bounds the
version counter and expiry times; small, it makes the end of the counter
reachable.  In the proxy runs two handlers are enough for every
race in the hazard list (each is between two parties: two claims, a dispatch and a
cancel, a purge and a late bind); two attempts per compare-and-set loop give a
first try, a reload and exhaustion; the clock reaches the deadline and the expiry
of the first route, after which every comparison the code makes stays as it is; one
reconnect and one restart put a session change or a lost handler between any two
steps, and a second route shows what happens after the first was purged.
`proxy_keys` lets a version grow to 3, which is enough for a route to be claimed,
bound and then cancelled, finished or set aside.  `MaxRoutes` running out looks to a
handler like the capacity error.  `AtMostOneDispatch` and `RetentionHonoured` are as
strong as they look only because the first route can be purged and replaced within
those bounds.

In `runs` two steps give both graphs, dependent and independent; with one place for an
active task the second ready step has to wait.  A row needs fewer than
20 versions to reach any of its shapes, so 40 leaves a run the room to go
wherever it can (the code's limit is 512 transitions, `docs/durable-runs.md:63`; at
the limit every save fails).  Two processes race over every save, and a third adds
no shape: a save succeeds on the version it read or not at all.  The deadline and the altered
artifact come with one process, since neither depends on who sweeps.  In `upstream`
one restart leaves the first and the last of a budget to compare, and two callers
fail together, one of them holding the lock.

In `runtime` a third tenant forces evictions, and with one permit and one queue place
three requests of a tenant hold, wait and are refused while a fourth looks up another.
In `memory` two keys let a caller meet its own limit while the table has room, and two
rows meet the table's while the callers have.
In `pool` three users give a holder, one that waits under the mutex and one that
waits for the mutex; two of them are one task, which may hold a permit and call again.
`MaxLost` bounds the lost permits of a key, in the guard of `Lose`.  The bound in `Fair`
is met by some behaviour: with `2 * MaxCost - 2` TLC finds a counterexample.  The
histories of `FairQueue` and `CircuitBreaker` stop counting where the properties look no
further.

In `access` three elicitations give a prompt that timed out, one that is shown and one
that waits for the lock; one line left in the terminal is enough to answer the wrong
prompt and, as each prompt then takes the line before its own, every prompt after it;
a clock of one lifetime reaches the expiry of a lease; a
key's cache lifetime of 2 and a fetch of 1 fit into four ticks, with the rotation
anywhere; two process starts are one restart; three commands on two processes give
an edit that lands in the middle of another.  In `planning` two hops of two links are
what it takes to return to somebody; the limits of the planner's values are small
so that one more than each limit is there to be refused.

**Deadlock.**  `memory` turns deadlock checking off: there every
client call that would change nothing is a stutter, and the model's integers do run
out.  So do `access` and `planning`, whose parts end (a start-up, an edit, a request
that was answered), and `upstream`, which may have been shut down.  All other runs check
it.

**Symmetry** is used where no property is temporal (`access` has one, an action property, in which
callers do not occur): over callers and keys in `memory`,
over handlers and snapshots (they are never ordered or chosen) in the proxy, over
processes in `runs`, over principals in `planning`, over callers of leases in
`access`.  In `proxy_two` a handler and its gateway are one model value, so a
permutation moves both.

**Fairness** (`LiveSpec`).  `HandlersRun`: a handler's step is weakly fair, because
every await of a handler is a store call, an upstream call under a timeout, or the
route lock; and the lock is strongly fair because tokio's Mutex queues its waiters
in order.  The clock advances to its bound.  `ClientPolls` is an assumption on the
client, the one `docs/guides/DURABLE_TASKS.md` asks of it: it keeps polling the
task it was given.  A poll is a request that needs a free handler slot, which the
other clients may keep busy, hence strong fairness.  Nothing is assumed of the
upstream (it may never settle a task), of new submissions, of reconnects or of
restarts.  `PolledRouteSettles` excepts a route whose version counter has reached
its end, where the store refuses every transition; the code's counter has 2^63
values.

The pool's `LiveSpec`: a task that holds a permit and waits for nothing starts to give it
back (an assumption on callers), and tokio's mutex and semaphore serve their waiters in
order, which makes the steps behind them strongly fair.  A task that is in a call drops
no permit (`MayCall`), so nothing is assumed of one that waits for the pool itself: that
is the deadlock `Stuck` names, and `CallsReturn` says that there is no other.  Nothing
makes a task come, cancel or crash, and no reaper is assumed: a caller that finds no slot
is freed by `startup_timeout`.

The source's (`Upstream`): whatever is sent, connected, discovered or closed is under a
timeout, so the step after it is weakly fair, and the steps behind a mutex are strongly
fair for the same reason as above; no connection is assumed to work.  In `runtime` the
fairness of the queue and of the breaker is asked while the behaviour is theirs: the
consumer keeps calling `pop`; time passes, somebody asks for the breaker's state, and
calls that are let through report.

Each property has a mutant in `PROJECT.json`: an operator that changes the code's
behaviour the way a plausible bug would (a dropped clock check, a claim resolved by
reload, a task that could not be bound not cancelled, an off-by-one at a capacity), which breaks the
property under the same configuration.  The mutants stand before the definitions
they stand for and are used by nothing.

## Known disagreements

`runs_ready` shows one in a run.  The others are stated as formulas next to the code
they are about, marked "Not kept", and explained here; the properties that are
checked say what does hold.

* **A ready run with nothing to do** (`ReadyHasWork`, `runs.rs:1058`).  A step whose
  outcome is unknown blocks a run, and the sweep skips its pending successors.  When
  a later poll verifies the step after all, no step is active, none blocks, and not
  all are verified: the status is `ready`, and stays so, with nothing to dispatch.
  `docs/durable-runs.md:21` says that resume will dispatch ready steps;
  `examples/public_tasks/run_consumer.py:63` and
  `examples/concrete_review/review.py:136` poll while they see it.
* **A connection after shutdown** (`ShutdownCloses`, `outbound.rs:572`).
  `restart_after_failure` reads `shutting_down` once, before it waits for the restart
  lock.  One that is past the check when shutdown runs takes the lock after it, connects
  and installs a service that nobody will close.  `README.md:280` of the repository
  says shutdown closes every connection.
* **A task that nobody cancels** (`OrphanCancelled`, `task_proxy.rs:828`).  A task that
  the upstream created and its route could not take is cancelled once, and how that ended
  is ignored (`task_proxy.rs:366`, `:377`, `:381`).  The five seconds of the call also
  cover the wait for the source's restart lock (`outbound.rs:561`) and, on a serialized
  source, for its request lock (`:811`), so the request may never leave, and the task
  runs on with no route.  `AcknowledgedTaskTracked` says that a cancel is always tried.
* **A pool that blocks itself** (`AlwaysReturns`, `process_pool.rs:180`).  `acquire` waits
  for a serialized process under the mutex of all entries (`:136`, `:180`).  If the task
  that holds the process calls `record_crash` (`:230`), `process_count`, `reap_idle`,
  `acquire`, or `release` of another permit meanwhile, each waits for the other for ever.
  `CallsReturn` says that this is the only way in which a call does not return.
* **The answer to another prompt** (`AnsweredAtPrompt`, `approval.rs:69`).  Nothing
  discards what is left in the terminal before a prompt.  A second line typed at a prompt, or
  one typed after it timed out and its read has had its line, is read by the next
  prompt, which may accept it.  `AcceptedAsAnswered` says that an acceptance is of the line
  typed at its own prompt as long as no line is typed before any prompt and no second one
  at any.
* **An answer that is swallowed** (`AnswerHeard`, `approval.rs:76`).  A read of stdin
  cannot be called off.  The one started for a prompt that timed out takes the
  operator's next line, which answers the next prompt, and drops it.  With two
  connections, whose `cli_lock`s are separate (`outbound.rs:460`), two prompts are on
  the screen and the reads are served in the order they were started, so an answer can
  go to the other prompt; `AcceptedAsAnswered` is checked with one connection.
* **An edit that is lost** (`NoEditLost`, `main.rs:887`).  `write_config` compares the
  file with what it read and then renames (`main.rs:908`).  Another command's rename
  may fall in between.  `EditsKept` says that this is the only way to lose one.
* **More tokens than were checked** (`SentWithinBudget`, `model.rs:657`).  Context and
  cost are checked on the request as it came (`model.rs:565`); the result of a tool is
  appended to the messages afterwards and sent unchecked, where
  `docs/architecture/MODEL_BROKER.md:41` and `:43` have the checks before dispatch.

Smaller observations, from reading only: expired leases stay in their table (nothing purges them);
a wall clock that steps back revives one.  The core's cost estimate saturates
(`core/model.rs:96`), and `total_tokens` is an unchecked sum (`model.rs:830`).
`retry_limit` is parsed (`model.rs:776`) and not used.

## Proofs

Checked by TLAPS for every value of the constants.  Some of the invariants proved
(`TypeOK`, `StoredBound`, `ActiveBound`, `ProxyTypeOK`, `DispatchNeedsClaim`) are no
longer checked by a run: the theorem says more.

`TaskProxyProofs`, about `StoreSpec` (the table under an arbitrary client), from
`IntegerBound`, `StoreBounds` and `NoneIsNoValue`:

* `TypeCorrect`: `[]TypeOK`.  `PreparedIsRecord` and `UpdateType` bound what a
  client can pass; `SuccessorType` says a permitted transition of a good record is a
  good record; `BeginEffect`, `CasEffect` and `PurgeEffect` say what each operation
  does to the table, once, and every later proof uses only them.
* `KeysBoundOnce`: `[]KeyBoundOnce`, inductive with `TypeOK`.  The argument is that
  `LiveBinding` and `ExpiredBinding` split `BoundTo` at the same instant, so a
  candidate with no live binding meets no row of its key once the expired are gone.
* `StoredBounded` and `ActiveBounded`: `[]StoredBound`, `[]ActiveBound`.
  `ActiveBound` counts overlapping retention intervals at every instant `t`, while
  an insertion counts the rows not yet expired at *its* creation time, which need
  not be later than any other creation time.  The strengthening is `CapacityInv`,
  which states both bounds with finiteness of the table; the step is that the
  intervals that contain `t` after an insertion are the new one and rows that were
  counted as active at the insertion (their expiry exceeds `t`, which is no
  earlier than the candidate's creation), so they number at most the limit.
* `HistoryKept`: `RouteHistory`, from `CasIsRouteStep` and `StepEffect`.

`MemoryTaskRoutesProofs`, about `MemoryTaskRoutes!Spec`, with `OrderedIds` (the order of
public IDs, which breaks ties in the expiry index) and `CapacityBounds`:

* `TypeCorrect`, and `IndexesKept`: `[]IndexesAgree`, the inductive invariant that
  makes an index lookup as good as a scan.
* `ImplementsStore`: `RefinesStore`, with `by_id` for the table.  `ScopeIsBinding` says
  that the idempotency index finds the rows which a scan for the key would.  That the first
  `limit` pairs of `by_expiry` are an `OldestExpired` set of the table (`PurgeIsRemoval`) is
  a fact about ranks (`FrontIsOldest`): a pair is taken if fewer than `limit` are ahead of
  it, all that are ahead of the last one taken are taken too, and so are those ahead of the
  first one left.

`TaskProxyProofs` again, about `TaskProxy!Spec`, with `SubmissionLimits` and
`ProxyConstants` as well.  Of the latter, that `PurgeLimit` is at most
`MaxPurgeRecords` holds in the code (128 and 10,000), and that `MaxTime` is at most
`MaxSqliteInteger` says that the clock, in milliseconds, fits a column of the table.

* `ProxyTypeCorrect`: `[]ProxyTypeOK`.  The inductive invariant `ProxyInv` adds what
  each place says of a handler's locals (`LocalOK`) and that every upstream ID held
  by a handler or a row was issued (`Known`, `RoutesKnown`).  There is one lemma per
  action, and each shows `HandlerMoves`: the table takes a step of its own, the
  executions only grow or are updated, and the handler's new locals are in order.
  `LocalMove`, `UpdateMove` and `ExecMove` are the three shapes such a step has.
* `ProxyImplementsStore`: `Spec => StoreSpec`.  Every step of a handler is a step of
  `StoreNext` or leaves the table alone; in particular the record a submission
  inserts is one that an arbitrary client may prepare (`CandidatePrepared`).
* `ProxyKeysBoundOnce` and `ProxyHistoryKept` follow: what was proved of the table
  for an arbitrary client holds of this one.

`TaskProxySafetyProofs`, from the same assumptions:

* `DispatchedOnce`: `[]AtMostOneDispatch`.  Two requests for one document would need
  two claims.  Two claims of one route exclude each other (`ClaimsExclude`): a claim
  succeeds only on a prepared route, and a route that was claimed, while it is
  stored, has left "prepared" (`Started`).  Two claims of two routes of the document
  carry the same key, so by `KeyBoundOnce` not both routes are stored; a route that
  was claimed is stored until the document's deadline (`Kept`), because it expires no
  earlier than that deadline (`Filed`, from the clock checks of
  `TaskSubmission::parse`) and only expired routes are removed; so one of the two
  claims reaches the clock check after the deadline and is not sent (`OneRoute`,
  `CheckCutoffKeeps`).  Most actions are `Quiet`: they neither choose, claim nor
  send, and one lemma deals with all of them.
* `DispatchClaimed`: `[]DispatchNeedsClaim`, from `Started`.
* `RetentionKept`: `RetentionHonoured`, from `RoutesAge`, which every step satisfies.

* `OutcomeInvariance`: `[]FullInv`, which joins all that was proved so far to
  `OutcomeInv`.  What a record says of the upstream is about an execution, and a
  handler that has lost the race may hold a copy, an answer and a task ID all older
  than the row.  `OutcomeInv` says what each of them still means.  `HandlersSound`:
  a copy has the identity of its row, names no task but one created for that row on
  the session it is fenced to, and a finished answer in a handler's hands is what the
  execution has become or will stay.  `RowsSound`: the same of the rows, that a
  cancelled task's row has a durable intent, and that a row which says "not
  dispatched" is `Silent`: nothing was sent for it and no handler that could still
  send for it holds its claim.  `HeldOnce`: a task that is bound to nothing yet is in one handler's hands.
  `ExecsPast`: an execution's session and owner are past or present, so that a
  restart never brings one back to life.  The step has one lemma per action, on top
  of what the action may do to the routes, the executions and the claims.
* `VerdictsHonest`, `BindingsFaithful`, `IntentsFirst`, `TasksTracked`: the properties
  of the run `proxy_one`, each from `FullInv`.

`OutboundProofs`, about `ProcessPool`, for any number of users, keys and slots:

* `PoolInvariance`: `[]PoolInv`.  `UsesAccounted` counts: an entry has as many
  references as users that hold it or wait for it, and a slot is with an entry or
  free.  To count them, only finitely many users are ever on their way (`Busy`); and
  to keep the count when an entry is reaped and made anew, a user waits for a lock
  only while it keeps the mutex of all keys, and a serialized use holds the lock of
  the entry that is there now (`Guarded`).
* `UsesCounted` and `SerializedOnce`: the properties of the run `pool`.

The same module, about one source of `Upstream`, from `UpstreamBounds`, for any number of
callers and any budget (`MCUpstream` takes the source as an instance, so that the two
specifications can stand in one module):

* `SourceInvariance`: `[]SourceInv`.  A request chooses its connection before it sends,
  and a restart replaces it in between.  The connection in use was reviewed
  (`PeerReviewed`), and so was every connection ever chosen, which no later step makes
  foreign (`ChosenReviewed`); one holder of `restart_lock` alone has a connection that
  is not installed (`LockHeld`), so the attempts charged bound the generations and the
  connections (`Charged`), and whatever is open is in use or in the holder's hands
  (`Owned`).
* `SentAsBound` and `BudgetKept`: the invariants of the run `upstream`.

`AccessProofs` extends `MCAccess`, where the six parts stand side by side; there is an
inductive invariant for each, from the constants' assumptions of its module:

* `AuthorityKept`: `[]WithinAuthority`.  The invariant `LeaseInv` adds to the types
  that an intact row is the lease as it was issued (`StoreGenuine`), and that what a
  call has read is a lease that was issued, with the moment it was read before any
  release was acknowledged to the caller (`CallsGenuine`).  Tokens, tools and the clock
  move freely between the read and the decision; the step is that `Decide` looks again
  at all but the row.
* `AnswersKept`: `[]AcceptedAsAnswered` for any number of requests, lines and connections,
  of which at most one uses the terminal (`OneTerminal`; with two it does not hold, as said
  under [disagreements](#known-disagreements)).  The one whose prompt waits holds that
  connection's lock and the screen (`WaitsInTurn`).  As long as no line was typed unasked,
  there are as many reads under way as prompts without an answer (`ReadsWait`), so every
  line finds a read and none is left; the read it finds is the one of the prompt on the
  screen or of a prompt that is over.
* `RotationAdmits`: `[]PublishedAdmitted`, and `WithdrawnKeysDie`: `KeysTimely`.  `KeyInv`
  dates everything: when a key was last published (`LeftTimely`), what an answer on its
  way says of that moment (`Timely`), and so how long the cache may keep a key
  (`CacheTimely`).  `Honest` says what a request that was refused has tried.
* `EditsSurvive`: `[]EditsKept`.  Up to its rename a command knows how its document came
  of the file it read (`Worked`), and unless another rename fell in between, the file is
  still that one (`Compared`).
* `ReviewedServed`: `[]ServedAsReviewed`.  After each source the federation holds
  aliases of kept sources only (`Owned`) and of a reviewed one just what can be served
  of its pin (`Reviewed`); `Started` says which sources that are.
* `TokensContinue`: `[]TokensKept`.  A token carries a position or a round; `Sealed` says
  that it was issued for the listing up to there, or for the rounds before it, and,
  under this process's key, for a conversation begun in this process.
  `CursorsConstants` says of the constants two things the code gives: labels of lists
  and of rounds differ, and what a catalogue shows of a kind is a sequence, which is true of
  every `SelectSeq` but unknown to the provers.  TLC evaluates it.
* `AccessKept`: `AccessSpec`, the exploration of all the parts, has all of these.  Every
  behaviour of `AccessSpec` is one of each part's own specification (`PartsRun`), in which
  the part moves or rests.

`PlanningProofs` extends `MCPlanning`.  About conservation, with no assumption on the
contexts but their type:

* `GainsNothing`: `[]NothingGained`, and `DelegationKept`: `[]Delegated`.  `conserve`
  compares a hop with the one before it; the theorems say that this composes over any
  number of hops.  `Reaches` is what a context may become; `ConservesReaches` shows
  that one accepted hop is such a step, `ReachesTransitive` that two of them are one,
  from lemmas about prefixes and about the links that a chain has gained
  (`PrefixAt`, `ChainedAt`).

About the planner, from `RouteBounds` and `RouteValues` (the types of candidates, weights and
edits):

* `PlannerAndVerifierAgree`: `[]PlanAndProofAgree`.  `DecideVerifies` takes the decision of
  any candidates that are not rejected through `verify_integrity`, check by check; the
  explanations come out by rising ids because `InOrder` enumerates a finite set of numbers
  upwards (`InOrderFacts`), and the scores the verifier ranks are those the planner
  ranked (`RankedByVerifier`).  `VerifiedSelectsBest` is the other direction, for any
  explanations whatever: rising ids make the selected candidate one, and no other is
  before it.  `EditsKeepDecisions` is all that is needed of an edit.
* The totals are sums that the library defines by recursion over subsets.  That such a
  function exists for every finite set, adds up as expected and is a natural number
  (`SumsExist`, `SumAdds`, `SumIsNatural`) is proved from the least set for which it fails
  (`LeastNatural`), in place of an induction.

About the broker, from `BrokerTerms` and `BrokerValues`, which says that the limit of the
planner's metrics (10,000) is at least 5:

* `BrokerRoutes`: `[]RoutedToBest`.  The broker's candidates are never rejected
  (`NotRejected`), their list names every provider once (`SetToSeqLists`), and the score
  of one is three times its price and five times its exposure (`BrokerScore`); so `decide` selects the least
  of `Offers` (`BrokerPlan`), and of two offers by the same name the cheaper is less
  (`BestOffer`).  That the checks of `enforce_budget` are the ones the request asks
  for is `PassesIsAffordable`.
* `PlanningKept`: `PlanningSpec`, the exploration of all three, has all these properties.

`RunsProofs`, from `RunBounds`, for every plan, any number of processes and tasks:

* `RunInvariant`: `[]RunInv`.  The four properties are not inductive: a sweep acts on a
  copy of the row that may be old, and on an answer it got an action ago.  `RunInv` says
  what makes that safe.  The row is good (`RowGood`): it loads, every step is honest about
  its task, and the steps submitting, routed and unknown are no more than
  `MaxConcurrency`.  A copy is the row or is older (`Behind`), because `Save` is fenced by
  the version, and a step that the copy says was sent is still so in the row; so a task
  that an old copy submits belongs to a step the row calls sent.  What a sweep knows at
  each place of its loops is `LocalOK`; an ended task stays ended, so a terminal answer
  stays true.  `GoKeeps`, `ReturnKeeps`, `SaveKeeps` and `OneStepFollows` are the moves that
  the actions are made of.
* `SubmitsWhatIsJournalled`, `BoundedInFlight`, `AlwaysLoads` and `HonestStatus`: the four
  properties of the run `runs`, each from `RunInv`.

`RuntimeProofs` extends `MCRuntime`.  About admission, from `AdmissionBounds`, for any
number of requests and tenants and any limits:

* `AdmissionInvariant`: `[]AdmissionInv`.  The eviction looks at an entry's references,
  counter and permits; what makes it safe is that a request in progress always holds the
  entry that the map has for its tenant (`Attached`), that no two tenants share one
  (`Separate`), and that the entry's numbers count exactly its requests (`Counted`,
  `Lined`): a running request keeps a permit out, so `Kept` spares its tenant
  (`KeptHeld`), and there is always an entry to spare for a newcomer
  (`SomeUnreferenced`).  A step moves one request within one entry (`WithinEntry`,
  `Shifts`, `Passes`), hands its permit to the first in line (`Swaps`, `HandsOver`), or
  rearranges the map (`Rearranged`).
* `NothingLost`, `LimitsKept` and `RefusalsJustified`: the properties of the run `runtime`
  about admission, each from `AdmissionInv`.

About the breaker, for any thresholds and interval (`BreakerThresholds`):

* `OpensAndCloses`: `Hysteresis`.  `BreakerInv` says that the counters are the histories:
  `failures` what failed since the last success, `successes`, in a probe, what
  succeeded in it; and that an open breaker's clock started no earlier than it opened.

About the fair queue, for any tenants, limits and costs (`FairQueueBounds`):

* `ServesFairly`: `[]Fair`.  Served cost alone says little after many rounds, for the
  history starts anew when the set of tenants changes, while the tenants keep deficits from
  before.  The invariant counts visits instead: what a tenant was served and what it
  saved, less the deficit `d` it held when the count began, is the same number `m` for
  the first `n` tenants in line and `m + 1` for those behind (`Rounds`).  A visit takes one
  tenant from the first kind to the second, at the back of the line; so whatever `pop`
  does keeps it (`RotationBalanced`), as does a `push` to a tenant that waits, and any change
  of the tenants starts a count of its own (`CountAnew`).  Deficits stay below `MaxCost`,
  because nobody saves for more than the first item, so two tenants that wait differ by
  at most `2 * MaxCost - 1` (`BalancedIsEven`).  `PassedOver` is for `Progresses`: one
  tenant was passed over by every empty `pop`, and its deficit counts them.
* `RuntimeKept`: `RuntimeSpec`, the exploration of all three, has all these properties.

**Model-checked only.**  The liveness properties `RequestReturns`, `PolledRouteSettles`,
`RequestsEnd`, `CallsReturn`, `Served` and `Recovers` are out of the prover's reach, as is
`ReadyHasWork`, which does not hold.

## Abstractions

* A request digest is compared only for equality, so a record carries the binding it
  is a digest of; two bindings are equal exactly when their digests are.
* `updated_at` is `max(now, updated_at)` at every caller, so its monotonicity check
  always passes; it is left out, as are the fields that no property tells apart
  (schema version, capability, integrity digest, payloads).
* A failed compare-and-set and the reload after it are one step: the reload reads
  what a later compare-and-set would have failed against.
* The wall clock never steps back.  The code reads `SystemTime` and has no defence
  against a regression, so it promises nothing to check there.
* A source's snapshot and configuration change only with the process.
* A submission is its caller, key, deadline, runtime bound, retention and a payload
  number; parsing is the conditions of `TaskSubmission::parse` on those.
* A process key is one that `ProcessKey::validate` accepts; an idle process may have
  reached its TTL or not.  The breaker's caller passes a clock that does not step back.
* Reading a row of another caller and reading no row are the same answer, as in the
  code.
* A run's envelope and diagnostics are wording; a save that changes nothing else is left
  out, since it only spends a version.
* A session is the number of its connection; a manifest digest is the set of
  capabilities it covers; a sealed token is what it decodes to, with the key that sealed
  it; a signature is the key it was made with.
* The fields of a context that must stay equal are one field, `bound`.
* Scores, metrics and prices are small numbers; their order and their limits are kept.

## Not modelled

* **Policy** (`core/policy.rs`, `gw/policy_gate.rs`): rules evaluated over one request, with
  no state and no order of steps.
* **Causal graph** (`core/causal.rs`): a container that no other code of the gateway uses.
* **Digests, parsing, verification, the CLI's output, the client of the registry,
  protocol versions**: conversions and comparisons of one value.
* **The rest of the MCP surface**: it parses requests, formats answers and calls the
  parts above.
* Of the modelled parts: retries inside the SQLite driver, disk corruption and the
  integrity check of a task route's row (a row read is a row written; of leases and
  artifacts alterations are modelled), export and verify of runs, the digest chain of their
  journal, HTTP framing of the model broker.

## Plan

1. **`TaskProxy`** on **`Upstream`**: that the reconnects of the first are steps of the second.
2. **`Runs`**: that a run ends if it is resumed again and again and its tasks answer, which needs
   fairness that the code leaves to the caller.
