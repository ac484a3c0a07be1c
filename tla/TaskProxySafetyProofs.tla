----------------------- MODULE TaskProxySafetyProofs ------------------------
(***************************************************************************)
(* Proofs about what the task proxy sends, what it records and what it     *)
(* tells the upstream, for every number of instances, handlers, routes and *)
(* restarts: it sends at most one execution request for one submission     *)
(* document, a cached verdict is honest, a bound upstream task is the      *)
(* route's own, a cancel follows its durable intent, and an acknowledged   *)
(* task is not forgotten.                                                  *)
(*                                                                         *)
(* Two requests for one document would need two claims.  Claims of one     *)
(* route exclude each other, since the claim leaves "prepared" and nothing *)
(* returns there.  Claims of two routes of the document carry one key, so  *)
(* one of the routes was removed before the other was filed; a route is    *)
(* removed only once it has expired, it expires no earlier than the        *)
(* document's deadline, and after the deadline the clock check between the *)
(* claim and the send lets nothing through.                                *)
(*                                                                         *)
(* The last four are about stored routes and executions; what makes them   *)
(* inductive is about the handlers' local copies.  A copy is the stored    *)
(* route or an earlier version of it (Copy), so an update that meets the   *)
(* version of the copy meets the copy itself; what was true of the route   *)
(* when it was copied and can never become false again - its upstream      *)
(* task, a cancellation intent, the end of an execution - is still true    *)
(* when the handler acts on it; and an execution that is not bound yet is  *)
(* in the hands of one handler only (HeldOnce).                            *)
(***************************************************************************)
EXTENDS TaskProxyProofs

\* Places between the choice of a route and the send.
Early == {"existing", "claim", "cutoff", "send"}

\* A handler that owns the claim of its route, and one that may send.
Claimed(p) == h[p].pc \in {"cutoff", "send"}
Cleared(p) == h[p].pc = "send"

\* What is true of a filed route from its insertion on, with m IDs minted.
Filed(r, m) ==
    /\ r.id \in 1 .. m
    /\ r.caller = Submission(r).caller
    /\ r.key = Submission(r).key
    /\ Submission(r).deadline <= r.expires
    /\ r.phase = "prepared" => r.version = 0

\* The following are about a table R, m minted IDs and a time t.  A route, while
\* it is stored, has been claimed:
Started(R, id) ==
    id \in DOMAIN R =>
        /\ R[id].phase # "prepared"
        /\ R[id].version >= 1
        /\ R[id].version = 1 => R[id].phase = "dispatching"

\* it is a route of submission s:
Serves(R, m, id, s) ==
    /\ id \in 1 .. m
    /\ id \in DOMAIN R => Submission(R[id]) = s

\* and it is stored at least until the deadline of s.
Kept(R, t, id, s) == id \in DOMAIN R \/ s.deadline <= t

RoutesFiled == \A id \in DOMAIN routes : Filed(routes[id], minted)

\* What holds of a handler with locals l.
Serving(l, R, m, t) ==
    /\ l.pc = "begin" => ValidAt(l.sub, l.seen)
    /\ l.pc \in Early => Serves(R, m, l.rec.id, Submission(l.rec))
    /\ l.pc \in {"cutoff", "send"} => /\ Started(R, l.rec.id)
                                      /\ Kept(R, t, l.rec.id, Submission(l.rec))

HandlersServe == \A p \in Handlers : Serving(h[p], routes, minted, now)

ExecsServe ==
    \A u \in DOMAIN execs :
        /\ Serves(routes, minted, execs[u].route, execs[u].sub)
        /\ Started(routes, execs[u].route)
        /\ Kept(routes, now, execs[u].route, execs[u].sub)

\* One claim per route.
ClaimsExclude ==
    /\ \A p, q \in Handlers :
          Claimed(p) /\ Claimed(q) /\ h[p].rec.id = h[q].rec.id => p = q
    /\ \A p \in Handlers, u \in DOMAIN execs : Claimed(p) => h[p].rec.id # execs[u].route
    /\ \A u, v \in DOMAIN execs : execs[u].route = execs[v].route => u = v

\* One request per document, sent or about to be.
SendsExclude ==
    /\ \A p, q \in Handlers :
          /\ Cleared(p) /\ Cleared(q)
          /\ Submission(h[p].rec) = Submission(h[q].rec)
          => p = q
    /\ \A p \in Handlers, u \in DOMAIN execs :
          Cleared(p) => Submission(h[p].rec) # execs[u].sub
    /\ AtMostOneDispatch

DispatchInv ==
    RoutesFiled /\ HandlersServe /\ ExecsServe /\ ClaimsExclude /\ SendsExclude

-----------------------------------------------------------------------------
(* How a step may change the table and the executions.                     *)

\* What becomes of a stored record.
Ages(r, s) ==
    \/ s = r
    \/ /\ s.version = r.version + 1
       /\ s.phase # "prepared"
       /\ s.id = r.id /\ s.caller = r.caller /\ s.key = r.key
       /\ s.binding = r.binding /\ s.expires = r.expires

\* No minted ID comes back, and a route that goes has expired.
RoutesAge ==
    \A id \in 1 .. minted :
        /\ id \in DOMAIN routes' => id \in DOMAIN routes /\ Ages(routes[id], routes'[id])
        /\ id \in DOMAIN routes /\ id \notin DOMAIN routes' => routes[id].expires <= now

ExecsAge ==
    /\ DOMAIN execs' = DOMAIN execs
    /\ \A u \in DOMAIN execs :
          execs'[u].route = execs[u].route /\ execs'[u].sub = execs[u].sub

LEMMA SubmissionType ==
    ASSUME NEW r \in Record
    PROVE  /\ Submission(r) \in Submissions
           /\ Submission(r).deadline \in Nat
           /\ r.expires \in Nat /\ r.version \in Nat
  <1>1. r.binding \in Submissions \X Snapshots /\ r.expires \in Nat /\ r.version \in Nat
    BY ProxyConstants DEF Record
  <1>2. Submission(r) \in Submissions
    BY <1>1 DEF Submission
  <1> QED
    BY <1>1, <1>2, SubmissionLimits DEF Documents

LEMMA StoredType ==
    ASSUME ProxyInv, NEW id \in DOMAIN routes
    PROVE  /\ routes[id] \in Record /\ routes[id].id = id
           /\ Submission(routes[id]).deadline \in Nat
           /\ routes[id].expires \in Nat /\ routes[id].version \in Nat
  BY SubmissionType DEF ProxyInv, TypeOK

\* What is known of a route survives a step that only ages the table.
LEMMA Carry ==
    ASSUME ProxyInv, RoutesFiled, RoutesAge,
           minted' \in Nat, minted <= minted', now' \in Nat, now <= now',
           NEW id, NEW s \in Submissions, Serves(routes, minted, id, s)
    PROVE  /\ Serves(routes', minted', id, s)
           /\ Started(routes, id) => Started(routes', id)
           /\ Kept(routes, now, id, s) => Kept(routes', now', id, s)
  <1>1. id \in 1 .. minted /\ minted \in Nat /\ now \in Nat /\ s.deadline \in Nat
    BY ProxyConstants, SubmissionLimits DEF Serves, ProxyInv, Documents
  <1>2. id \in 1 .. minted'
    BY <1>1
  <1>3. ASSUME id \in DOMAIN routes'
        PROVE  /\ id \in DOMAIN routes /\ Ages(routes[id], routes'[id])
               /\ Submission(routes'[id]) = s
    BY <1>1, <1>3 DEF RoutesAge, Ages, Serves, Submission
  <1>4. Started(routes, id) => Started(routes', id)
    <2> SUFFICES ASSUME Started(routes, id), id \in DOMAIN routes'
                 PROVE  /\ routes'[id].phase # "prepared"
                        /\ routes'[id].version >= 1
                        /\ routes'[id].version = 1 => routes'[id].phase = "dispatching"
      BY DEF Started
    <2>1. routes[id].version \in Nat
      BY <1>3, StoredType
    <2> QED
      BY <1>3, <2>1 DEF Started, Ages
  <1>5. ASSUME Kept(routes, now, id, s), id \notin DOMAIN routes'
        PROVE  s.deadline <= now'
    <2>1. CASE id \in DOMAIN routes
      <3>1. routes[id].expires <= now /\ Submission(routes[id]) = s
        BY <1>1, <1>5, <2>1 DEF RoutesAge, Serves
      <3>2. s.deadline <= routes[id].expires /\ routes[id].expires \in Nat
        BY <2>1, <3>1, StoredType DEF RoutesFiled, Filed
      <3> QED
        BY <1>1, <3>1, <3>2
    <2>2. CASE id \notin DOMAIN routes
      BY <1>1, <1>5, <2>2 DEF Kept
    <2> QED
      BY <2>1, <2>2
  <1> QED
    BY <1>2, <1>3, <1>4, <1>5 DEF Serves, Kept

\* A handler's copy of a record at an early place.
LEMMA EarlyRecord ==
    ASSUME ProxyInv, NEW p \in Handlers, h[p].pc \in Early
    PROVE  h[p].rec \in Record /\ Submission(h[p].rec) \in Submissions
  <1>1. h[p].rec \in Record
    BY Held, RecordPlaces DEF Early
  <1> QED
    BY <1>1, SubmissionType

LEMMA ServingCarries ==
    ASSUME ProxyInv, DispatchInv, RoutesAge,
           minted' \in Nat, minted <= minted', now' \in Nat, now <= now',
           NEW q \in Handlers
    PROVE  Serving(h[q], routes', minted', now')
  <1>1. Serving(h[q], routes, minted, now)
    BY DEF DispatchInv, HandlersServe
  <1>2. CASE h[q].pc \in Early
    <2>1. /\ Submission(h[q].rec) \in Submissions
          /\ Serves(routes, minted, h[q].rec.id, Submission(h[q].rec))
      BY <1>1, <1>2, EarlyRecord DEF Serving
    <2>2. /\ Serves(routes', minted', h[q].rec.id, Submission(h[q].rec))
          /\ Started(routes, h[q].rec.id) => Started(routes', h[q].rec.id)
          /\ Kept(routes, now, h[q].rec.id, Submission(h[q].rec)) =>
                Kept(routes', now', h[q].rec.id, Submission(h[q].rec))
      BY <2>1, Carry DEF DispatchInv
    <2> QED
      BY <1>1, <1>2, <2>2 DEF Serving, Early
  <1>3. CASE h[q].pc \notin Early
    BY <1>1, <1>3 DEF Serving, Early
  <1> QED
    BY <1>2, <1>3

LEMMA ExecCarries ==
    ASSUME ProxyInv, DispatchInv, RoutesAge,
           minted' \in Nat, minted <= minted', now' \in Nat, now <= now',
           NEW u \in DOMAIN execs
    PROVE  /\ Serves(routes', minted', execs[u].route, execs[u].sub)
           /\ Started(routes', execs[u].route)
           /\ Kept(routes', now', execs[u].route, execs[u].sub)
  <1>1. execs[u] \in Execution
    BY DEF ProxyInv
  <1>2. execs[u].sub \in Submissions
    BY <1>1 DEF Execution
  <1>3. /\ Serves(routes, minted, execs[u].route, execs[u].sub)
        /\ Started(routes, execs[u].route)
        /\ Kept(routes, now, execs[u].route, execs[u].sub)
    BY DEF DispatchInv, ExecsServe
  <1> QED
    BY <1>2, <1>3, Carry DEF DispatchInv

-----------------------------------------------------------------------------
(* A step in which no handler comes to own a claim.                        *)

\* A handler either does not move or reaches a place where it owns no claim.
NoNewClaim ==
    \A q \in Handlers :
        \/ h'[q] = h[q]
        \/ /\ h'[q].pc \notin {"cutoff", "send"}
           /\ Serving(h'[q], routes', minted', now')

LEMMA NoNewClaimKeeps ==
    ASSUME ProxyInv, DispatchInv, RoutesAge, RoutesFiled', ExecsAge, NoNewClaim,
           minted' \in Nat, minted <= minted', now' \in Nat, now <= now'
    PROVE  DispatchInv'
  <1>1. \A q \in Handlers : Serving(h'[q], routes', minted', now')
    BY ServingCarries DEF NoNewClaim
  <1>2. HandlersServe'
    BY <1>1 DEF HandlersServe, Serving, ValidAt, Submission
  <1>3. ExecsServe'
    BY ExecCarries DEF ExecsServe, ExecsAge
  <1>4. \A q \in Handlers : h'[q].pc \in {"cutoff", "send"} => h'[q] = h[q]
    BY DEF NoNewClaim
  <1>5. ClaimsExclude'
    BY <1>4 DEF DispatchInv, ClaimsExclude, Claimed, ExecsAge
  <1>6. SendsExclude'
    BY <1>4 DEF DispatchInv, SendsExclude, Cleared, ExecsAge, AtMostOneDispatch, Submission
  <1> QED
    BY <1>2, <1>3, <1>5, <1>6 DEF DispatchInv

-----------------------------------------------------------------------------
(* Steps of the table.                                                     *)

LEMMA RoutesRest ==
    ASSUME RoutesFiled, UNCHANGED <<routes, minted>>
    PROVE  RoutesAge /\ RoutesFiled'
  BY DEF RoutesAge, RoutesFiled, Filed, Submission, Ages

LEMMA RoutesUpdated ==
    ASSUME ProxyInv, RoutesFiled, NEW p \in Handlers, NEW u \in Updates, Cas(p, u),
           UNCHANGED minted
    PROVE  RoutesAge /\ RoutesFiled'
  <1> DEFINE id == h[p].rec.id
  <1>1. CASE ~CasOk(p, u)
    <2>1. UNCHANGED routes
      BY <1>1 DEF Cas, CasOk, CompareAndSet
    <2> QED
      BY <2>1, RoutesRest
  <1>2. CASE CasOk(p, u)
    <2>1. id \in DOMAIN routes /\ routes' = [routes EXCEPT ![id] = Successor(@, u)]
      BY <1>2 DEF Cas, CasOk, CompareAndSet, CasSucceeds
    <2>2. routes[id] \in Record /\ routes[id].version \in Nat
      BY <2>1, StoredType
    <2>3. u.phase # "prepared"
      BY DEF Updates, Dispatching, Routed, Terminal, ReconciliationRequired,
             CancelRequested, CancelRequestedWithUpstream, Update
    <2>4. /\ Ages(routes[id], Successor(routes[id], u))
          /\ Successor(routes[id], u).phase # "prepared"
      BY <2>2, <2>3 DEF Ages, Successor, Record
    <2>5. /\ DOMAIN routes' = DOMAIN routes
          /\ routes'[id] = Successor(routes[id], u)
          /\ \A other \in DOMAIN routes : other # id => routes'[other] = routes[other]
      BY <2>1
    <2>6. RoutesAge
      BY <2>4, <2>5 DEF RoutesAge, Ages
    <2>7. ASSUME NEW other \in DOMAIN routes' PROVE Filed(routes'[other], minted')
      <3>1. other \in DOMAIN routes /\ Filed(routes[other], minted)
        BY <2>5 DEF RoutesFiled
      <3>2. CASE other # id
        BY <2>5, <3>1, <3>2 DEF Filed, Submission
      <3>3. CASE other = id
        BY <2>4, <2>5, <3>1, <3>3, <2>2 DEF Filed, Submission, Ages
      <3> QED
        BY <3>2, <3>3
    <2> QED
      BY <2>6, <2>7 DEF RoutesFiled, Filed, Submission
  <1> QED
    BY <1>1, <1>2

LEMMA RoutesPurged ==
    ASSUME RoutesFiled, PurgeExpired(now, PurgeLimit), UNCHANGED minted
    PROVE  RoutesAge /\ RoutesFiled'
  <1>1. PICK S \in OldestExpired(now, PurgeLimit) : routes' = Removed(S)
    BY DEF PurgeExpired
  <1>2. \A id \in S : routes[id].expires <= now
    BY <1>1 DEF OldestExpired, ExpiredRows, IsExpired
  <1>3. /\ DOMAIN routes' = DOMAIN routes \ S
        /\ \A id \in DOMAIN routes' : routes'[id] = routes[id]
    BY <1>1 DEF Removed
  <1>4. RoutesAge
    BY <1>2, <1>3 DEF RoutesAge, Ages
  <1>5. RoutesFiled'
    BY <1>3 DEF RoutesFiled, Filed, Submission
  <1> QED
    BY <1>4, <1>5

-----------------------------------------------------------------------------
(* Steps that neither choose a route to dispatch nor claim or send.        *)

Quiet(p) ==
    /\ \E l : Become(p, l) /\ l.pc \notin Early \cup {"begin"}
    /\ UNCHANGED routes \/ \E u \in Updates : Cas(p, u)
    /\ ExecsAge
    /\ UNCHANGED <<now, minted>>

LEMMA QuietKeeps ==
    ASSUME ProxyInv, DispatchInv, NEW p \in Handlers, Quiet(p)
    PROVE  RoutesAge /\ DispatchInv'
  <1>1. PICK l : h' = [h EXCEPT ![p] = l] /\ l.pc \notin Early \cup {"begin"}
    BY DEF Quiet, Become
  <1>2. \A q \in Handlers : h'[q] = IF q = p THEN l ELSE h[q]
    BY <1>1 DEF ProxyInv
  <1>3. NoNewClaim
    BY <1>1, <1>2 DEF NoNewClaim, Serving, Early
  <1>4. /\ minted' \in Nat /\ minted <= minted' /\ now' \in Nat /\ now <= now'
    BY ProxyConstants DEF Quiet, ProxyInv
  <1>5. RoutesAge /\ RoutesFiled'
    BY RoutesRest, RoutesUpdated DEF Quiet, DispatchInv
  <1> QED
    BY <1>3, <1>4, <1>5, NoNewClaimKeeps DEF Quiet

\* Places of the locals a handler's step builds.
LEMMA BuiltPlaces ==
    /\ Idle.pc = "idle"
    /\ \A p, place, r, v :
          /\ At(p, place, r).pc = place
          /\ Loop(p, place, r).pc = place
          /\ [At(p, place, r) EXCEPT !.note = v].pc = place
          /\ [At(p, place, r) EXCEPT !.uid = v].pc = place
          /\ [At(p, place, r) EXCEPT !.seen = v].pc = place
          /\ [Loop(p, place, r) EXCEPT !.note = v].pc = place
    /\ \A p, place, r, v, w : [Loop(p, place, r) EXCEPT !.note = v, !.uid = w].pc = place
  BY DEF At, Loop, Idle

LEMMA ExecsRest ==
    ASSUME UNCHANGED execs
    PROVE  ExecsAge
  BY DEF ExecsAge

LEMMA ExecsUpdated ==
    ASSUME execs \in Seq(Execution), NEW n \in DOMAIN execs, NEW v,
           \/ execs' = [execs EXCEPT ![n].acked = v]
           \/ execs' = [execs EXCEPT ![n].cancel = v]
           \/ execs' = [execs EXCEPT ![n].bound = v]
           \/ execs' = [execs EXCEPT ![n].status = v]
    PROVE  ExecsAge
  <1>1. execs[n] \in Execution
    OBVIOUS
  <1>2. ASSUME NEW e, execs' = [execs EXCEPT ![n] = e],
               e.route = execs[n].route, e.sub = execs[n].sub
        PROVE  ExecsAge
    BY <1>2 DEF ExecsAge
  <1>3. ASSUME NEW e \in {[execs[n] EXCEPT !.acked = v], [execs[n] EXCEPT !.cancel = v],
                          [execs[n] EXCEPT !.bound = v], [execs[n] EXCEPT !.status = v]}
        PROVE  e.route = execs[n].route /\ e.sub = execs[n].sub
    BY <1>1, <1>3 DEF Execution
  <1> QED
    BY <1>2, <1>3

LEMMA LocalQuiet ==
    ASSUME NEW p \in Handlers, StoreUnchanged, HostsUnchanged, UNCHANGED execs,
           NEW l, Become(p, l), l.pc \notin Early \cup {"begin"}
    PROVE  Quiet(p)
  BY ExecsRest DEF Quiet, StoreUnchanged, HostsUnchanged

LEMMA LocalSteps ==
    ASSUME ProxyInv, NEW p \in Handlers,
           \/ Recover(p) \/ Recheck(p) \/ DispatchRefused(p) \/ ResponseAmbiguous(p)
           \/ BindFails(p) \/ ReadRoute(p) \/ PollUpstream(p) \/ PollFails(p)
    PROVE  Quiet(p)
  <1> DEFINE calm == {"idle", "nondispatch", "mark", "recheck", "orphan", "decide",
                      "intent", "polled"}
  <1>1. calm \cap (Early \cup {"begin"}) = {}
    BY DEF Early
  <1>2. StoreUnchanged /\ HostsUnchanged /\ UNCHANGED execs
    BY DEF Recover, Recheck, DispatchRefused, ResponseAmbiguous, BindFails, ReadRoute,
           PollUpstream, PollFails
  <1>3. \E l : Become(p, l) /\ l.pc \in calm
    <2>1. CASE Recover(p)
      <3>1. \/ Become(p, Idle)
            \/ \E r : \/ Become(p, Idle)
                      \/ Become(p, At(p, "nondispatch", r))
                      \/ Become(p, Loop(p, "mark", r))
                      \/ Become(p, At(p, "recheck", r))
        BY <2>1 DEF Recover, Return
      <3> QED
        BY <3>1, BuiltPlaces
    <2>2. CASE Recheck(p) \/ DispatchRefused(p) \/ ResponseAmbiguous(p)
      BY <2>2, BuiltPlaces DEF Recheck, DispatchRefused, ResponseAmbiguous
    <2>3. CASE BindFails(p)
      <3> DEFINE l == [At(p, "orphan", h[p].rec) EXCEPT !.uid = h[p].uid]
      <3>1. l.pc = "orphan" /\ Become(p, l)
        BY <2>3, BuiltPlaces DEF BindFails
      <3> HIDE DEF l
      <3> QED
        BY <3>1
    <2>4. CASE ReadRoute(p)
      <3> DEFINE l == [At(p, "decide", Stored(p)) EXCEPT !.seen = now]
      <3>1. \/ Become(p, Idle) \/ Become(p, Loop(p, "intent", Stored(p)))
            \/ Become(p, l)
        BY <2>4 DEF ReadRoute
      <3>2. l.pc = "decide"
        BY BuiltPlaces
      <3> HIDE DEF l
      <3> QED
        BY <3>1, <3>2, BuiltPlaces
    <2>5. CASE PollUpstream(p)
      <3> DEFINE l == [At(p, "polled", h[p].rec)
                         EXCEPT !.note = execs[h[p].rec.upstream].status]
      <3>1. l.pc = "polled" /\ Become(p, l)
        BY <2>5, BuiltPlaces DEF PollUpstream
      <3> HIDE DEF l
      <3> QED
        BY <3>1
    <2>6. CASE PollFails(p)
      BY <2>6, BuiltPlaces DEF PollFails
    <2> QED
      BY <2>1, <2>2, <2>3, <2>4, <2>5, <2>6
  <1> QED
    BY <1>1, <1>2, <1>3, LocalQuiet

LEMMA RequestTaskQuiet ==
    ASSUME NEW p \in Handlers, NEW op, NEW caller, NEW id, RequestTask(p, op, caller, id)
    PROVE  Quiet(p)
  <1> DEFINE l == [Idle EXCEPT !.pc = "lock", !.op = op,
                               !.rec = [caller |-> caller, id |-> id]]
  <1>1. l.pc = "lock"
    BY DEF Idle
  <1>2. Become(p, l) /\ StoreUnchanged /\ HostsUnchanged /\ UNCHANGED execs
    BY DEF RequestTask
  <1> HIDE DEF l
  <1> QED
    BY <1>1, <1>2, LocalQuiet DEF Early

LEMMA PolledQuiet ==
    ASSUME NEW p \in Handlers, Polled(p)
    PROVE  Quiet(p)
  <1> DEFINE r == h[p].rec
             finish(v) == [Loop(p, "finish", r) EXCEPT !.note = v]
             reroute == [At(p, "reroute", r) EXCEPT !.note = h[p].note]
  <1>1. \/ \E v : Become(p, finish(v))
        \/ Become(p, Loop(p, "intent", r)) \/ Become(p, reroute) \/ Become(p, Idle)
    BY DEF Polled
  <1>2. reroute.pc = "reroute" /\ \A v : finish(v).pc = "finish"
    BY BuiltPlaces
  <1> HIDE DEF finish, reroute
  <1>3. \E l : Become(p, l) /\ l.pc \in {"finish", "intent", "reroute", "idle"}
    BY <1>1, <1>2, BuiltPlaces
  <1> QED
    BY <1>3, LocalQuiet DEF Polled, Early

LEMMA DecideQuiet ==
    ASSUME NEW p \in Handlers, Decide(p)
    PROVE  Quiet(p)
  <1> DEFINE r == h[p].rec
  <1>1. \/ Become(p, Loop(p, "mark", r)) \/ Become(p, At(p, "nondispatch", r))
        \/ Become(p, At(p, "retry", r)) \/ Become(p, Loop(p, "intent", r))
        \/ Become(p, At(p, "poll", r)) \/ Become(p, Idle)
    BY DEF Decide
  <1>2. \E l : /\ Become(p, l)
               /\ l.pc \in {"mark", "nondispatch", "retry", "intent", "poll", "idle"}
    BY <1>1, BuiltPlaces
  <1> QED
    BY <1>2, LocalQuiet DEF Decide, Early

\* A reload keeps the handler in its loop.
LEMMA ReloadQuiet ==
    ASSUME ProxyInv, NEW p \in Handlers,
           h[p].pc \in {"mark", "finish", "intent", "bind"},
           Become(p, [h[p] EXCEPT !.rec = Stored(p), !.tries = @ - 1]),
           StoreUnchanged, HostsUnchanged, UNCHANGED execs
    PROVE  Quiet(p)
  <1> DEFINE l == [h[p] EXCEPT !.rec = Stored(p), !.tries = @ - 1]
  <1>1. l.pc = h[p].pc
    BY HandlerFacts DEF Locals
  <1>2. Become(p, l)
    OBVIOUS
  <1> HIDE DEF l
  <1> QED
    BY <1>1, <1>2, LocalQuiet DEF Early

LEMMA BindStaleQuiet ==
    ASSUME ProxyInv, NEW p \in Handlers, BindStale(p)
    PROVE  Quiet(p)
  BY ReloadQuiet DEF BindStale

\* The answers to a dispatch mark the execution they answer.
LEMMA ResponsesQuiet ==
    ASSUME ProxyInv, NEW p \in Handlers,
           ResponseTask(p) \/ ResponseBadId(p) \/ ResponseComplete(p)
    PROVE  Quiet(p)
  <1>1. h[p].pc = "await" /\ StoreUnchanged /\ HostsUnchanged
    BY DEF ResponseTask, ResponseBadId, ResponseComplete
  <1>2. execs \in Seq(Execution) /\ h[p].uid \in DOMAIN execs
    BY <1>1, HandlerFacts DEF ProxyInv, LocalOK
  <1>3. ExecsAge
    <2>1. CASE ResponseTask(p)
      BY <1>2, <2>1, ExecsUpdated DEF ResponseTask
    <2>2. CASE ResponseBadId(p)
      <3>1. PICK v : execs' = [execs EXCEPT ![h[p].uid].cancel = v]
        BY <2>2, TryCancelMarks DEF ResponseBadId
      <3> QED
        BY <1>2, <3>1, ExecsUpdated
    <2>3. CASE ResponseComplete(p)
      BY <1>2, <2>3, ExecsUpdated DEF ResponseComplete
    <2> QED
      BY <2>1, <2>2, <2>3
  <1> DEFINE r == h[p].rec
             bind(v) == [Loop(p, "bind", r) EXCEPT !.note = v, !.uid = h[p].uid]
             finish(v) == [Loop(p, "finish", r) EXCEPT !.note = v]
  <1>4. \/ \E v : Become(p, bind(v))
        \/ \E v : Become(p, finish(v))
        \/ Become(p, Loop(p, "mark", r))
    BY DEF ResponseTask, ResponseBadId, ResponseComplete
  <1>5. \A v : bind(v).pc = "bind" /\ finish(v).pc = "finish"
    BY BuiltPlaces
  <1> HIDE DEF bind, finish
  <1>6. \E l : Become(p, l) /\ l.pc \in {"bind", "finish", "mark"}
    BY <1>4, <1>5, BuiltPlaces
  <1> QED
    BY <1>1, <1>3, <1>6 DEF Quiet, Early, StoreUnchanged, HostsUnchanged

LEMMA CancelsQuiet ==
    ASSUME ProxyInv, NEW p \in Handlers,
           CancelUpstream(p) \/ CancelOrphan(p) \/ RetryCancel(p)
    PROVE  Quiet(p)
  <1>1. /\ h[p].pc \in {"cancel", "orphan", "retry"}
        /\ StoreUnchanged /\ HostsUnchanged
        /\ TryCancel(p, IF h[p].pc = "orphan" THEN h[p].uid ELSE h[p].rec.upstream)
    BY DEF CancelUpstream, CancelOrphan, RetryCancel
  <1> DEFINE n == IF h[p].pc = "orphan" THEN h[p].uid ELSE h[p].rec.upstream
  <1>2. execs \in Seq(Execution) /\ n \in DOMAIN execs
    <2>1. h[p].rec \in Record /\ Known(h[p].rec, DOMAIN execs)
      BY <1>1, Held, RecordPlaces
    <2> QED
      BY <1>1, <2>1, HandlerFacts DEF ProxyInv, LocalOK, Known
  <1>3. ExecsAge
    <2> HIDE DEF n
    <2>1. PICK v : execs' = [execs EXCEPT ![n].cancel = v]
      BY <1>1, TryCancelMarks DEF n
    <2> QED
      BY <1>2, <2>1, ExecsUpdated
  <1>4. \E l : Become(p, l) /\ l.pc \in {"idle", "poll"}
    <2> DEFINE l == [h[p] EXCEPT !.pc = "poll"]
    <2>1. Become(p, Idle) \/ Become(p, l)
      BY DEF CancelUpstream, CancelOrphan, RetryCancel, Return, Goto
    <2>2. l.pc = "poll"
      BY HandlerFacts DEF Locals
    <2> HIDE DEF l
    <2> QED
      BY <2>1, <2>2, BuiltPlaces
  <1> QED
    BY <1>1, <1>3, <1>4 DEF Quiet, Early, StoreUnchanged, HostsUnchanged

LEMMA UpdateQuiet ==
    ASSUME NEW p \in Handlers, HostsUnchanged, UNCHANGED execs,
           NEW u \in Updates, Cas(p, u),
           NEW l, Become(p, l), l.pc \notin Early \cup {"begin"}
    PROVE  Quiet(p)
  BY ExecsRest DEF Quiet, HostsUnchanged

LEMMA UpdateLoopQuiet ==
    ASSUME ProxyInv, NEW p \in Handlers, NEW place \in {"mark", "finish", "intent"},
           NEW u \in Updates, NEW settled, UpdateLoop(p, place, u, settled)
    PROVE  Quiet(p)
  <1>1. h[p].pc = place /\ HostsUnchanged /\ UNCHANGED execs
    BY DEF UpdateLoop
  <1>2. \A r : AfterUpdate(p, r).pc \in {"idle", "cancel"}
    BY BuiltPlaces DEF AfterUpdate
  <1>3. Idle.pc = "idle" /\ {"idle", "cancel"} \cap (Early \cup {"begin"}) = {}
    BY BuiltPlaces DEF Early
  <1>4. CASE Become(p, AfterUpdate(p, h[p].rec)) /\ StoreUnchanged
    BY <1>1, <1>2, <1>3, <1>4, LocalQuiet
  <1>5. CASE /\ Cas(p, u)
             /\ Become(p, IF h[p].tries > 1 THEN AfterUpdate(p, Successor(h[p].rec, u))
                          ELSE Idle)
    BY <1>1, <1>2, <1>3, <1>5, UpdateQuiet
  <1>6. CASE /\ Become(p, [h[p] EXCEPT !.rec = Stored(p), !.tries = @ - 1])
             /\ StoreUnchanged
    BY <1>1, <1>6, ReloadQuiet
  <1>7. CASE Return(p) /\ StoreUnchanged
    BY <1>1, <1>3, <1>7, LocalQuiet DEF Return
  <1> QED
    BY <1>4, <1>5, <1>6, <1>7 DEF UpdateLoop

LEMMA UpdatesQuiet ==
    ASSUME ProxyInv, NEW p \in Handlers,
           \/ MarkReconciliationRequired(p) \/ FinishTerminal(p)
           \/ PersistCancellationIntent(p) \/ FinishNonDispatchOnce(p)
    PROVE  Quiet(p)
  <1>1. CASE MarkReconciliationRequired(p)
    BY <1>1, UpdateLoopQuiet, ProxyUpdates DEF MarkReconciliationRequired
  <1>2. CASE FinishTerminal(p)
    <2>1. h[p].note \in Verdicts
      BY <1>2, HandlerFacts DEF FinishTerminal, UpdateLoop, LocalOK
    <2>2. Terminal(h[p].note) \in Updates
      BY <2>1, ProxyUpdates
    <2> QED
      BY <1>2, <2>2, UpdateLoopQuiet DEF FinishTerminal
  <1>3. CASE PersistCancellationIntent(p)
    BY <1>3, UpdateLoopQuiet, ProxyUpdates DEF PersistCancellationIntent
  <1>4. CASE FinishNonDispatchOnce(p)
    <2>1. Terminal("not_dispatched") \in Updates
      BY ProxyUpdates, ProxyConstants
    <2>2. Idle.pc \notin Early \cup {"begin"}
      BY BuiltPlaces DEF Early
    <2> QED
      BY <1>4, <2>1, <2>2, UpdateQuiet DEF FinishNonDispatchOnce, Return
  <1> QED
    BY <1>1, <1>2, <1>3, <1>4

LEMMA BindQuiet ==
    ASSUME ProxyInv, NEW p \in Handlers, BindUpstreamTask(p)
    PROVE  Quiet(p)
  <1>1. /\ h[p].pc = "bind" /\ HostsUnchanged /\ Cas(p, BindUpdate(p))
        /\ execs' = [execs EXCEPT ![h[p].uid].bound = TRUE]
    BY DEF BindUpstreamTask
  <1>2. execs \in Seq(Execution) /\ h[p].uid \in DOMAIN execs
    BY <1>1, HandlerFacts DEF ProxyInv, LocalOK
  <1>3. BindUpdate(p) \in Updates
    BY <1>2, ProxyUpdates DEF BindUpdate
  <1>4. ExecsAge
    BY <1>1, <1>2, ExecsUpdated
  <1>5. \E l : Become(p, l) /\ l.pc \in {"intent", "idle"}
    BY BuiltPlaces DEF BindUpstreamTask
  <1> QED
    BY <1>1, <1>3, <1>4, <1>5 DEF Quiet, Early, HostsUnchanged

LEMMA RerouteQuiet ==
    ASSUME ProxyInv, NEW p \in Handlers, Reroute(p)
    PROVE  Quiet(p)
  <1> DEFINE u == Routed(h[p].rec.upstream)
             finish(r) == [Loop(p, "finish", r) EXCEPT !.note = h[p].note]
  <1>1. u \in Updates
    <2>1. h[p].pc = "reroute" /\ execs \in Seq(Execution)
      BY DEF Reroute, ProxyInv
    <2>2. h[p].rec \in Record /\ Known(h[p].rec, DOMAIN execs) /\ h[p].rec.upstream # None
      BY <2>1, Held, HandlerFacts, RecordPlaces DEF LocalOK
    <2>3. h[p].rec.upstream \in Nat
      BY <2>1, <2>2 DEF Known
    <2> QED
      BY <2>3, ProxyUpdates
  <1>2. \/ Become(p, Idle)
        \/ \E r : Become(p, finish(r))
    BY DEF Reroute, Return
  <1>3. Cas(p, u) /\ HostsUnchanged /\ UNCHANGED execs
    BY DEF Reroute
  <1>4. \A r : finish(r).pc = "finish"
    BY BuiltPlaces
  <1> HIDE DEF u, finish
  <1>5. \E l : Become(p, l) /\ l.pc \in {"idle", "finish"}
    BY <1>2, <1>4, BuiltPlaces
  <1> QED
    BY <1>1, <1>3, <1>5, UpdateQuiet DEF Early

-----------------------------------------------------------------------------
(* The steps towards a dispatch.                                           *)

LEMMA SubmitModeKeeps ==
    ASSUME ProxyInv, DispatchInv, NEW p \in Handlers, NEW sub \in Submissions,
           NEW recovery_only \in BOOLEAN, SubmitMode(p, sub, recovery_only)
    PROVE  RoutesAge /\ DispatchInv'
  <1> DEFINE local == [Idle EXCEPT !.op = "submit", !.sub = sub, !.seen = now]
             recover == [local EXCEPT !.pc = "recover"]
             begin == [local EXCEPT !.pc = "begin"]
  <1>1. /\ PurgeExpired(now, PurgeLimit)
        /\ HostsUnchanged /\ UNCHANGED execs
        /\ \/ Become(p, recover)
           \/ Become(p, begin) /\ ValidAt(sub, now)
           \/ Become(p, Idle)
    BY DEF SubmitMode
  <1>2. /\ recover.pc = "recover" /\ begin.pc = "begin" /\ begin.sub = sub
        /\ begin.seen = now /\ Idle.pc = "idle"
    BY DEF Idle
  <1> HIDE DEF recover, begin
  <1>3. PICK l : /\ h' = [h EXCEPT ![p] = l]
                 /\ l.pc \notin Early
                 /\ l.pc = "begin" => ValidAt(l.sub, l.seen)
    BY <1>1, <1>2 DEF Become, Early
  <1>4. \A q \in Handlers : h'[q] = IF q = p THEN l ELSE h[q]
    BY <1>3 DEF ProxyInv
  <1>5. NoNewClaim
    BY <1>3, <1>4 DEF NoNewClaim, Serving, Early
  <1>6. RoutesAge /\ RoutesFiled'
    BY <1>1, RoutesPurged DEF DispatchInv, HostsUnchanged
  <1>7. minted' \in Nat /\ minted <= minted' /\ now' \in Nat /\ now <= now'
    BY <1>1, ProxyConstants DEF HostsUnchanged, ProxyInv
  <1> QED
    BY <1>1, <1>5, <1>6, <1>7, ExecsRest, NoNewClaimKeeps

\* The record inserted for a submission.
LEMMA CandidateFields ==
    ASSUME NEW p \in Handlers
    PROVE  /\ Candidate(p).id = minted + 1
           /\ Candidate(p).caller = h[p].sub.caller /\ Candidate(p).key = h[p].sub.key
           /\ Submission(Candidate(p)) = h[p].sub
           /\ Candidate(p).created = h[p].seen
           /\ Candidate(p).expires = h[p].seen + h[p].sub.retention
           /\ Candidate(p).phase = "prepared" /\ Candidate(p).version = 0
  BY DEF Candidate, Prepare, Submission, Binding

LEMMA BeginKeeps ==
    ASSUME ProxyInv, DispatchInv, NEW p \in Handlers, Begin(p)
    PROVE  RoutesAge /\ DispatchInv'
  <1> DEFINE new == Candidate(p)
  <1>1. /\ h[p].pc = "begin" /\ UNCHANGED <<now, execs>>
        /\ now \in Nat /\ minted \in Nat /\ h[p].seen \in Nat /\ h[p].seen <= now
    BY HandlerFacts, ProxyConstants DEF Begin, ProxyInv, LocalOK, Locals
  <1>2. CASE BeginInserts(new) /\ minted < MaxRoutes
    <2>1. /\ routes' = Inserted(new) /\ minted' = minted + 1
          /\ Become(p, At(p, "claim", new))
      BY <1>2 DEF Begin, BeginOrExisting
    <2>2. /\ DOMAIN routes' = RemainingRows(new) \cup {minted + 1}
          /\ routes'[minted + 1] = new
          /\ \A id \in RemainingRows(new) : id # minted + 1 => routes'[id] = routes[id]
      BY <2>1, CandidateFields DEF Inserted
    <2>3. RoutesAge
      <3> SUFFICES ASSUME NEW id \in 1 .. minted
                   PROVE  /\ id \in DOMAIN routes' =>
                                id \in DOMAIN routes /\ Ages(routes[id], routes'[id])
                          /\ id \in DOMAIN routes /\ id \notin DOMAIN routes' =>
                                routes[id].expires <= now
        BY DEF RoutesAge
      <3>1. id # minted + 1
        BY <1>1
      <3>2. ASSUME id \in ExpiredBinding(new) PROVE routes[id].expires <= now
        <4>1. id \in DOMAIN routes /\ h[p].seen >= routes[id].expires
          BY <3>2, CandidateFields DEF ExpiredBinding, BoundTo, IsExpired
        <4>2. routes[id].expires \in Nat
          BY <4>1, StoredType
        <4> QED
          BY <1>1, <4>1, <4>2
      <3> QED
        BY <2>2, <3>1, <3>2 DEF RemainingRows, Ages
    <2>4. Filed(new, minted + 1)
      <3>1. ValidAt(h[p].sub, h[p].seen)
        BY <1>1 DEF DispatchInv, HandlersServe, Serving
      <3>2. minted + 1 \in 1 .. minted + 1
        BY <1>1
      <3> QED
        BY <3>1, <3>2, CandidateFields DEF Filed, ValidAt
    <2>5. RoutesFiled'
      <3> SUFFICES ASSUME NEW id \in DOMAIN routes' PROVE Filed(routes'[id], minted + 1)
        BY <2>1 DEF RoutesFiled, Filed, Submission
      <3>1. CASE id = minted + 1
        BY <2>2, <2>4, <3>1
      <3>2. CASE id # minted + 1
        <4>1. id \in DOMAIN routes /\ routes'[id] = routes[id] /\ Filed(routes[id], minted)
          BY <2>2, <3>2 DEF RemainingRows, DispatchInv, RoutesFiled
        <4> QED
          BY <1>1, <4>1 DEF Filed
      <3> QED
        BY <3>1, <3>2
    <2>6. NoNewClaim
      <3> DEFINE l == At(p, "claim", new)
      <3>1. l.pc = "claim" /\ l.rec = new
        BY DEF At, Idle
      <3>2. \A q \in Handlers : h'[q] = IF q = p THEN l ELSE h[q]
        BY <2>1 DEF Become, ProxyInv
      <3> HIDE DEF l
      <3>3. Serves(routes', minted', new.id, Submission(new))
        BY <1>1, <2>1, <2>2, CandidateFields DEF Serves
      <3> QED
        BY <3>1, <3>2, <3>3 DEF NoNewClaim, Serving
    <2> QED
      BY <1>1, <2>1, <2>3, <2>5, <2>6, ExecsRest, NoNewClaimKeeps
  <1>3. CASE ~(BeginInserts(new) /\ minted < MaxRoutes)
    <2>1. UNCHANGED <<routes, minted>>
      BY <1>3 DEF Begin
    <2>2. PICK l : /\ Become(p, l)
                   /\ \/ l.pc = "idle"
                      \/ /\ l.pc = "existing"
                         /\ \E id \in DOMAIN routes : l.rec = routes[id]
      <3> DEFINE next(id) == [At(p, "existing", routes[id]) EXCEPT !.seen = h[p].seen]
      <3>1. \A id : next(id).pc = "existing" /\ next(id).rec = routes[id]
        BY DEF At, Idle
      <3>2. Become(p, Idle) \/ \E id \in LiveBinding(new) : Become(p, next(id))
        BY <1>3 DEF Begin, Return
      <3> HIDE DEF next
      <3> QED
        BY <3>1, <3>2, BuiltPlaces DEF LiveBinding, BoundTo
    <2>3. \A q \in Handlers : h'[q] = IF q = p THEN l ELSE h[q]
      BY <2>2 DEF Become, ProxyInv
    <2>4. ASSUME NEW id \in DOMAIN routes, l.rec = routes[id]
          PROVE  Serves(routes', minted', l.rec.id, Submission(l.rec))
      <3>1. routes[id].id = id /\ id \in 1 .. minted
        BY StoredType DEF DispatchInv, RoutesFiled, Filed
      <3> QED
        BY <2>1, <2>4, <3>1 DEF Serves
    <2>5. NoNewClaim
      BY <2>2, <2>3, <2>4 DEF NoNewClaim, Serving, Early
    <2>6. RoutesAge /\ RoutesFiled'
      BY <2>1, RoutesRest DEF DispatchInv
    <2> QED
      BY <1>1, <2>1, <2>5, <2>6, ExecsRest, NoNewClaimKeeps
  <1> QED
    BY <1>2, <1>3

LEMMA ExistingKeeps ==
    ASSUME ProxyInv, DispatchInv, NEW p \in Handlers, Existing(p)
    PROVE  RoutesAge /\ DispatchInv'
  <1>1. /\ h[p].pc = "existing" /\ UNCHANGED <<routes, now, minted, execs>>
        /\ now \in Nat /\ minted \in Nat
    BY ProxyConstants DEF Existing, StoreUnchanged, HostsUnchanged, ProxyInv
  <1>2. RoutesAge /\ RoutesFiled'
    BY <1>1, RoutesRest DEF DispatchInv
  <1>3. PICK l : /\ Become(p, l)
                 /\ l.pc \in {"mark", "claim", "idle"}
                 /\ l.pc = "claim" => l.rec = h[p].rec
    <2>1. At(p, "claim", h[p].rec).rec = h[p].rec
      BY DEF At, Idle
    <2> QED
      BY <2>1, BuiltPlaces DEF Existing
  <1>4. \A q \in Handlers : h'[q] = IF q = p THEN l ELSE h[q]
    BY <1>3 DEF Become, ProxyInv
  <1>5. Serves(routes', minted', h[p].rec.id, Submission(h[p].rec))
    BY <1>1 DEF DispatchInv, HandlersServe, Serving, Early
  <1>6. NoNewClaim
    BY <1>3, <1>4, <1>5 DEF NoNewClaim, Serving, Early
  <1> QED
    BY <1>1, <1>2, <1>6, ExecsRest, NoNewClaimKeeps

\* The claim.  It succeeds only on a prepared route, which nobody has claimed.
LEMMA ClaimDispatchKeeps ==
    ASSUME ProxyInv, DispatchInv, NEW p \in Handlers, ClaimDispatch(p)
    PROVE  RoutesAge /\ DispatchInv'
  <1> DEFINE u == Dispatching(InstanceId(Host(p)))
             id == h[p].rec.id
             l == At(p, "cutoff", Successor(h[p].rec, u))
  <1>1. /\ h[p].pc = "claim" /\ Cas(p, u) /\ UNCHANGED <<now, minted, execs>>
        /\ now \in Nat /\ minted \in Nat
    BY ProxyConstants DEF ClaimDispatch, HostsUnchanged, ProxyInv
  <1>2. u \in Updates
    BY HandlerFacts, ProxyUpdates
  <1>3. CASE ~CasOk(p, u)
    <2>1. Become(p, Idle)
      BY <1>3 DEF ClaimDispatch, Return
    <2>2. Quiet(p)
      BY <1>1, <1>2, <2>1, BuiltPlaces, ExecsRest DEF Quiet, Early
    <2> QED
      BY <2>2, QuietKeeps
  <1>4. CASE CasOk(p, u)
    <2>1. Become(p, l)
      BY <1>4 DEF ClaimDispatch
    <2>2. /\ id \in DOMAIN routes
          /\ routes' = [routes EXCEPT ![id] = Successor(@, u)]
          /\ CanTransition(routes[id].phase, u.phase)
      BY <1>1, <1>4 DEF Cas, CasOk, CompareAndSet, CasSucceeds, TransitionAllowed
    <2>3. routes[id].phase = "prepared" /\ routes[id].version = 0
      <3>1. u.phase = "dispatching"
        BY DEF Dispatching, Update
      <3> QED
        BY <2>2, <3>1 DEF CanTransition, DispatchInv, RoutesFiled, Filed
    <2>4. routes[id] \in Record /\ h[p].rec \in Record
      BY <1>1, <2>2, StoredType, Held, RecordPlaces
    <2>5. RoutesAge /\ RoutesFiled'
      BY <1>1, <1>2, RoutesUpdated DEF DispatchInv
    <2>6. /\ id \in DOMAIN routes' /\ routes'[id].phase = "dispatching"
          /\ routes'[id].version = 1 /\ routes'[id].binding = routes[id].binding
      <3> DEFINE r == Successor(routes[id], u)
      <3>1. /\ r.phase = "dispatching" /\ r.version = 1
            /\ r.binding = routes[id].binding
        BY <2>3, <2>4 DEF Successor, Record, Dispatching, Update
      <3>2. id \in DOMAIN routes' /\ routes'[id] = r
        BY <2>2
      <3> HIDE DEF r
      <3> QED
        BY <3>1, <3>2
    <2>7. /\ l.pc = "cutoff" /\ l.rec.id = id /\ l.rec.binding = h[p].rec.binding
      BY <2>4 DEF At, Idle, Successor, Record
    <2> HIDE DEF l
    <2>8. \A q \in Handlers : h'[q] = IF q = p THEN l ELSE h[q]
      BY <2>1 DEF Become, ProxyInv
    <2>9. Serving(l, routes', minted', now')
      <3>1. Serves(routes, minted, id, Submission(h[p].rec))
        BY <1>1 DEF DispatchInv, HandlersServe, Serving, Early
      <3>2. /\ Submission(l.rec) = Submission(h[p].rec)
            /\ Submission(routes'[id]) = Submission(routes[id])
        BY <2>6, <2>7 DEF Submission
      <3>3. Serves(routes', minted', id, Submission(l.rec))
        BY <1>1, <2>2, <2>6, <3>1, <3>2 DEF Serves
      <3> QED
        BY <2>6, <2>7, <3>3 DEF Serving, Started, Kept
    <2>10. HandlersServe'
      <3>1. \A q \in Handlers : Serving(h'[q], routes', minted', now')
        BY <1>1, <2>5, <2>8, <2>9, ServingCarries
      <3> QED
        BY <3>1 DEF HandlersServe, Serving, ValidAt, Submission
    <2>11. ExecsServe'
      BY <1>1, <2>5, ExecCarries DEF ExecsServe
    <2>12. /\ \A q \in Handlers : Claimed(q) => h[q].rec.id # id
           /\ \A v \in DOMAIN execs : execs[v].route # id
      BY <2>2, <2>3 DEF DispatchInv, HandlersServe, ExecsServe, Serving, Claimed, Started
    <2>13. ClaimsExclude'
      BY <1>1, <2>7, <2>8, <2>12 DEF DispatchInv, ClaimsExclude, Claimed
    <2>14. SendsExclude'
      <3>1. \A q \in Handlers : h'[q].pc = "send" => h'[q] = h[q]
        BY <2>7, <2>8
      <3> QED
        BY <1>1, <3>1 DEF DispatchInv, SendsExclude, Cleared, AtMostOneDispatch, Submission
    <2> QED
      BY <2>5, <2>10, <2>11, <2>13, <2>14 DEF DispatchInv
  <1> QED
    BY <1>3, <1>4

\* Before its deadline a document has one route.
LEMMA OneRoute ==
    ASSUME ProxyInv, RoutesFiled, KeyBoundOnce, NEW s \in Submissions, now < s.deadline,
           NEW i, Serves(routes, minted, i, s), Kept(routes, now, i, s),
           NEW j, Serves(routes, minted, j, s), Kept(routes, now, j, s)
    PROVE  i = j
  <1>1. now \in Nat /\ s.deadline \in Nat /\ s.key # None
    BY ProxyConstants, SubmissionLimits, NoneIsNoValue DEF ProxyInv, Documents
  <1>2. i \in DOMAIN routes /\ j \in DOMAIN routes
    BY <1>1 DEF Kept
  <1>3. /\ routes[i].key = s.key /\ routes[i].caller = s.caller
        /\ routes[j].key = s.key /\ routes[j].caller = s.caller
    BY <1>2 DEF RoutesFiled, Filed, Serves
  <1> QED
    BY <1>1, <1>2, <1>3 DEF KeyBoundOnce

\* The clock check.  It lets a claim through only before the deadline.
LEMMA CheckCutoffKeeps ==
    ASSUME ProxyInv, KeyBoundOnce, DispatchInv, NEW p \in Handlers, CheckCutoff(p)
    PROVE  RoutesAge /\ DispatchInv'
  <1> DEFINE s == Submission(h[p].rec)
  <1>1. /\ h[p].pc = "cutoff" /\ UNCHANGED <<routes, now, minted, execs>>
        /\ now \in Nat /\ minted \in Nat
    BY ProxyConstants DEF CheckCutoff, StoreUnchanged, HostsUnchanged, ProxyInv
  <1>2. h[p].rec \in Record /\ s \in Submissions
    BY <1>1, EarlyRecord DEF Early
  <1>3. PICK place \in {"send", "nondispatch"} :
           Goto(p, place) /\ (place = "send" => now < ExecutionCutoff(h[p].rec))
    BY DEF CheckCutoff
  <1>4. PICK l : /\ h' = [h EXCEPT ![p] = l]
                 /\ l.pc = place /\ l.rec = h[p].rec
    <2> DEFINE m == [h[p] EXCEPT !.pc = place]
    <2>1. m.pc = place /\ m.rec = h[p].rec
      BY HandlerFacts DEF Locals
    <2>2. h' = [h EXCEPT ![p] = m]
      BY <1>3 DEF Goto, Become
    <2> HIDE DEF m
    <2> QED
      BY <2>1, <2>2
  <1>5. \A q \in Handlers : h'[q] = IF q = p THEN l ELSE h[q]
    BY <1>4 DEF ProxyInv
  <1>6. RoutesAge /\ RoutesFiled'
    BY <1>1, RoutesRest DEF DispatchInv
  <1>7. HandlersServe'
    <2>1. \A q \in Handlers : Serving(h[q], routes', minted', now')
      BY <1>1, <1>6, ServingCarries
    <2>2. Serving(l, routes', minted', now')
      BY <1>1, <1>4, <2>1 DEF Serving, Early
    <2>3. \A q \in Handlers : Serving(h'[q], routes', minted', now')
      BY <1>5, <2>1, <2>2
    <2> QED
      BY <2>3 DEF HandlersServe, Serving, ValidAt, Submission
  <1>8. ExecsServe'
    BY <1>1, <1>6, ExecCarries DEF ExecsServe
  <1>9. \A q \in Handlers : h'[q].pc \in {"cutoff", "send"} =>
           h[q].pc \in {"cutoff", "send"} /\ h'[q].rec = h[q].rec
    BY <1>1, <1>4, <1>5
  <1>10. ClaimsExclude'
    BY <1>1, <1>9 DEF DispatchInv, ClaimsExclude, Claimed
  <1>11. CASE place = "nondispatch"
    <2>1. \A q \in Handlers : h'[q].pc = "send" => h'[q] = h[q]
      BY <1>4, <1>5, <1>11
    <2>2. SendsExclude'
      BY <1>1, <2>1 DEF DispatchInv, SendsExclude, Cleared, AtMostOneDispatch, Submission
    <2> QED
      BY <1>6, <1>7, <1>8, <1>10, <2>2 DEF DispatchInv
  <1>12. CASE place = "send"
    <2>1. now < s.deadline
      <3>1. /\ s.deadline \in Nat /\ h[p].rec.created \in Nat /\ s.runtime \in Nat
        BY <1>2, SubmissionLimits DEF Record, Documents
      <3> QED
        BY <1>1, <1>3, <1>12, <3>1 DEF ExecutionCutoff
    <2>2. Serves(routes, minted, h[p].rec.id, s) /\ Kept(routes, now, h[p].rec.id, s)
      BY <1>1 DEF DispatchInv, HandlersServe, Serving, Early
    <2>3. ASSUME NEW q \in Handlers, Cleared(q), Submission(h[q].rec) = s PROVE q = p
      <3>1. Serves(routes, minted, h[q].rec.id, s) /\ Kept(routes, now, h[q].rec.id, s)
        BY <2>3 DEF DispatchInv, HandlersServe, Serving, Cleared, Early
      <3>2. h[q].rec.id = h[p].rec.id
        BY <1>2, <2>1, <2>2, <3>1, OneRoute DEF DispatchInv
      <3> QED
        BY <1>1, <2>3, <3>2 DEF DispatchInv, ClaimsExclude, Claimed, Cleared
    <2>4. ASSUME NEW v \in DOMAIN execs, execs[v].sub = s PROVE FALSE
      <3>1. Serves(routes, minted, execs[v].route, s) /\ Kept(routes, now, execs[v].route, s)
        BY <2>4 DEF DispatchInv, ExecsServe
      <3>2. execs[v].route = h[p].rec.id
        BY <1>2, <2>1, <2>2, <3>1, OneRoute DEF DispatchInv
      <3> QED
        BY <1>1, <3>2 DEF DispatchInv, ClaimsExclude, Claimed
    <2>5. \A q \in Handlers : h'[q].pc = "send" =>
             h'[q].rec = h[q].rec /\ (q = p \/ h[q].pc = "send")
      BY <1>4, <1>5
    <2>6. SendsExclude'
      BY <1>1, <2>3, <2>4, <2>5
      DEF DispatchInv, SendsExclude, Cleared, AtMostOneDispatch, Submission
    <2> QED
      BY <1>6, <1>7, <1>8, <1>10, <2>6 DEF DispatchInv
  <1> QED
    BY <1>11, <1>12

\* The send turns the handler's exclusive right into the execution's.
LEMMA DispatchKeeps ==
    ASSUME ProxyInv, DispatchInv, NEW p \in Handlers, Dispatch(p)
    PROVE  RoutesAge /\ DispatchInv'
  <1>1. /\ h[p].pc = "send" /\ UNCHANGED <<routes, now, minted>>
        /\ now \in Nat /\ minted \in Nat /\ execs \in Seq(Execution)
    BY ProxyConstants DEF Dispatch, StoreUnchanged, HostsUnchanged, ProxyInv
  <1>2. PICK e : /\ execs' = Append(execs, e)
                 /\ e.route = h[p].rec.id /\ e.sub = Submission(h[p].rec)
    <2> DEFINE d(status) ==
            [route |-> h[p].rec.id, sub |-> Submission(h[p].rec),
             session |-> h[p].rec.session, owner |-> h[p].rec.owner,
             status |-> status, acked |-> FALSE, bound |-> FALSE,
             cancel |-> "none"]
    <2>1. PICK status : execs' = Append(execs, d(status))
      BY DEF Dispatch
    <2>2. d(status).route = h[p].rec.id /\ d(status).sub = Submission(h[p].rec)
      OBVIOUS
    <2> HIDE DEF d
    <2> QED
      BY <2>1, <2>2
  <1> DEFINE n == Len(execs) + 1
  <1>3. /\ DOMAIN execs' = DOMAIN execs \cup {n} /\ n \notin DOMAIN execs
        /\ execs'[n] = e
        /\ \A v \in DOMAIN execs : execs'[v] = execs[v]
    <2>1. Len(execs) \in Nat /\ DOMAIN execs = 1 .. Len(execs)
      BY <1>1, LenProperties
    <2>2. execs \in Seq(Execution \cup {e})
      BY <1>1, <2>1
    <2>3. /\ execs' \in Seq(Execution \cup {e}) /\ Len(execs') = Len(execs) + 1
          /\ \A i \in 1 .. Len(execs) : execs'[i] = execs[i]
          /\ execs'[Len(execs) + 1] = e
      BY <1>2, <2>2, AppendProperties
    <2>4. DOMAIN execs' = 1 .. Len(execs')
      BY <2>3, LenProperties
    <2> QED
      BY <2>1, <2>3, <2>4
  <1> HIDE DEF n
  <1>4. PICK l : h' = [h EXCEPT ![p] = l] /\ l.pc = "await"
    <2> DEFINE m == [h[p] EXCEPT !.pc = "await", !.uid = Len(execs) + 1]
    <2>1. m.pc = "await"
      BY HandlerFacts DEF Locals
    <2>2. h' = [h EXCEPT ![p] = m]
      BY DEF Dispatch, Become
    <2> HIDE DEF m
    <2> QED
      BY <2>1, <2>2
  <1>5. \A q \in Handlers : h'[q] = IF q = p THEN l ELSE h[q]
    BY <1>4 DEF ProxyInv
  <1>6. RoutesAge /\ RoutesFiled'
    BY <1>1, RoutesRest DEF DispatchInv
  <1>7. \A q \in Handlers : Serving(h[q], routes', minted', now')
    BY <1>1, <1>6, ServingCarries
  <1>8. HandlersServe'
    <2>1. Serving(l, routes', minted', now')
      BY <1>4 DEF Serving, Early
    <2>2. \A q \in Handlers : Serving(h'[q], routes', minted', now')
      BY <1>5, <1>7, <2>1
    <2> QED
      BY <2>2 DEF HandlersServe, Serving, ValidAt, Submission
  <1>9. ExecsServe'
    <2>1. /\ Serves(routes', minted', e.route, e.sub) /\ Started(routes', e.route)
          /\ Kept(routes', now', e.route, e.sub)
      BY <1>1, <1>2, <1>7 DEF Serving, Early
    <2>2. \A v \in DOMAIN execs :
             /\ Serves(routes', minted', execs[v].route, execs[v].sub)
             /\ Started(routes', execs[v].route)
             /\ Kept(routes', now', execs[v].route, execs[v].sub)
      BY <1>1, <1>6, ExecCarries
    <2> QED
      BY <1>3, <2>1, <2>2 DEF ExecsServe
  <1>10. \A q \in Handlers : h'[q].pc \in {"cutoff", "send"} => h'[q] = h[q] /\ q # p
    BY <1>4, <1>5
  <1>11. ClaimsExclude'
    BY <1>1, <1>2, <1>3, <1>10 DEF DispatchInv, ClaimsExclude, Claimed
  <1>12. SendsExclude'
    BY <1>1, <1>2, <1>3, <1>10
    DEF DispatchInv, SendsExclude, Cleared, AtMostOneDispatch, Submission
  <1> QED
    BY <1>6, <1>8, <1>9, <1>11, <1>12 DEF DispatchInv

-----------------------------------------------------------------------------
(* Every step keeps the invariant, and removes only expired routes.        *)

LEMMA HandlerKeeps ==
    ASSUME ProxyInv, KeyBoundOnce, DispatchInv,
           NEW p \in Handlers, Request(p) \/ ReadRoute(p) \/ HandlerStep(p)
    PROVE  RoutesAge /\ DispatchInv'
  <1>1. CASE Quiet(p)
    BY <1>1, QuietKeeps
  <1>2. CASE Request(p)
    BY <1>1, <1>2, SubmitModeKeeps, RequestTaskQuiet DEF Request
  <1>3. CASE ReadRoute(p)
    BY <1>1, <1>3, LocalSteps
  <1>4. CASE Begin(p) \/ Existing(p) \/ ClaimDispatch(p) \/ CheckCutoff(p) \/ Dispatch(p)
    BY <1>4, BeginKeeps, ExistingKeeps, ClaimDispatchKeeps, CheckCutoffKeeps, DispatchKeeps
  <1>5. CASE HandlerStep(p)
    BY <1>1, <1>4, <1>5, LocalSteps, PolledQuiet, DecideQuiet, BindStaleQuiet,
       ResponsesQuiet, CancelsQuiet, UpdatesQuiet, BindQuiet, RerouteQuiet
    DEF HandlerStep
  <1> QED
    BY <1>2, <1>3, <1>5

LEMMA EnvironmentKeepsDispatch ==
    ASSUME ProxyInv, DispatchInv, Environment
    PROVE  RoutesAge /\ DispatchInv'
  <1>1. /\ UNCHANGED <<routes, minted>>
        /\ now' = now \/ now' = now + 1
        /\ now \in Nat /\ minted \in Nat
    BY ProxyConstants
    DEF Environment, Tick, UpstreamSettles, Reconnect, RouterReopen, ProcessRestart, ProxyInv
  <1>2. RoutesAge /\ RoutesFiled'
    BY <1>1, RoutesRest DEF DispatchInv
  <1>3. ExecsAge
    <2>1. UNCHANGED execs
          \/ \E uid \in DOMAIN execs : \E v : execs' = [execs EXCEPT ![uid].status = v]
      BY DEF Environment, Tick, UpstreamSettles, Reconnect, RouterReopen, ProcessRestart
    <2> QED
      BY <2>1, ExecsRest, ExecsUpdated DEF ProxyInv
  <1>4. ASSUME NEW q \in Handlers PROVE h'[q] = h[q] \/ h'[q] = Idle
    BY DEF Environment, Tick, UpstreamSettles, Reconnect, RouterReopen, ProcessRestart,
           HandlersLost
  <1>5. NoNewClaim
    BY <1>4, BuiltPlaces DEF NoNewClaim, Serving, Early
  <1> QED
    BY <1>1, <1>2, <1>3, <1>5, NoNewClaimKeeps

LEMMA StepKeepsDispatch ==
    ASSUME ProxyInv, KeyBoundOnce, DispatchInv, [Next]_vars
    PROVE  RoutesAge /\ DispatchInv'
  <1>1. CASE UNCHANGED vars
    <2>1. RoutesAge
      BY <1>1, RoutesRest DEF vars, DispatchInv
    <2>2. RoutesFiled' /\ HandlersServe' /\ ExecsServe'
      BY <1>1 DEF vars, DispatchInv, RoutesFiled, Filed, HandlersServe, Serving, ExecsServe,
                  Submission, ValidAt, Serves, Started, Kept
    <2>3. ClaimsExclude' /\ SendsExclude'
      BY <1>1 DEF vars, DispatchInv, ClaimsExclude, Claimed, SendsExclude, Cleared,
                  AtMostOneDispatch, Submission
    <2> QED
      BY <2>1, <2>2, <2>3 DEF DispatchInv
  <1>2. CASE Next
    BY <1>2, HandlerKeeps, EnvironmentKeepsDispatch DEF Next
  <1> QED
    BY <1>1, <1>2

LEMMA InitDispatch == Init => DispatchInv
  <1> SUFFICES ASSUME Init PROVE DispatchInv
    OBVIOUS
  <1>1. DOMAIN routes = {} /\ DOMAIN execs = {} /\ \A p \in Handlers : h[p].pc = "idle"
    BY BuiltPlaces DEF Init, StoreInit
  <1> QED
    BY <1>1 DEF DispatchInv, RoutesFiled, HandlersServe, Serving, Early, ExecsServe,
                ClaimsExclude, Claimed, SendsExclude, Cleared, AtMostOneDispatch

LEMMA DispatchInvariance == Spec => [](ProxyInv /\ KeyBoundOnce /\ DispatchInv)
  <1>1. ProxyInv /\ KeyBoundOnce /\ DispatchInv /\ [Next]_vars => DispatchInv'
    BY StepKeepsDispatch
  <1> QED
    BY <1>1, InitDispatch, Invariance, ProxyKeysBoundOnce, PTL DEF Spec

-----------------------------------------------------------------------------
(* The theorems.                                                           *)

\* submit sends at most one execution request for one submission document, in
\* any interleaving of submissions, recoveries, expiry, purge, reconnects,
\* reopens and restarts, on any number of instances that share the table.
THEOREM DispatchedOnce == Spec => []AtMostOneDispatch
  <1>1. DispatchInv => AtMostOneDispatch
    BY DEF DispatchInv, SendsExclude
  <1> QED
    BY <1>1, DispatchInvariance, PTL

\* A request is sent only after claim_dispatch made its claim durable, so a route
\* finished or set aside while prepared is never dispatched.
THEOREM DispatchClaimed == Spec => []DispatchNeedsClaim
  <1>1. DispatchInv => DispatchNeedsClaim
    BY DEF DispatchInv, ExecsServe, Started, DispatchNeedsClaim
  <1> QED
    BY <1>1, DispatchInvariance, PTL

\* Neither the purge of submit_mode nor the replacement of an expired key in
\* begin_or_existing removes a route before its retention has elapsed.
THEOREM RetentionKept == Spec => RetentionHonoured
  <1>1. ProxyInv /\ KeyBoundOnce /\ DispatchInv /\ [Next]_vars =>
           [\A id \in DOMAIN routes :
               id \notin DOMAIN routes' => routes[id].expires <= now]_vars
    <2> SUFFICES ASSUME ProxyInv, KeyBoundOnce, DispatchInv, [Next]_vars,
                        NEW id \in DOMAIN routes, id \notin DOMAIN routes'
                 PROVE  routes[id].expires <= now
      OBVIOUS
    <2>1. routes[id].id = id /\ Filed(routes[id], minted)
      BY StoredType DEF DispatchInv, RoutesFiled
    <2>2. id \in 1 .. minted
      BY <2>1 DEF Filed
    <2> QED
      BY <2>2, StepKeepsDispatch DEF RoutesAge
  <1> QED
    BY <1>1, DispatchInvariance, PTL DEF Spec, RetentionHonoured

-----------------------------------------------------------------------------
(* Outcomes: what a handler knows when it records one.                     *)

\* Places of the handler that dispatched an execution and still has to settle it.
Holding == {"await", "bind", "orphan"}

Intended == {"cancel_requested", "terminal"}

\* What becomes of a record by updates.
Follows(r, s) ==
    \/ s = r
    \/ /\ s.version > r.version
       /\ s.id = r.id /\ s.session = r.session
       /\ r.upstream # None => s.upstream = r.upstream
       /\ r.phase # "terminal"
       /\ r.phase = "cancel_requested" => s.phase \in Intended
       /\ s.phase # "prepared"

\* The following are about a table R, m minted IDs, executions E, the handlers'
\* locals H and the instances' epochs ep.  The record r is a copy of a route:
Copy(r, R, m) ==
    /\ r.id \in 1 .. m
    /\ r.id \in DOMAIN R => Follows(r, R[r.id])

\* its upstream ID was issued for its own dispatch:
Faithful(r, E) ==
    r.upstream # None =>
        /\ r.upstream \in DOMAIN E
        /\ E[r.upstream].route = r.id
        /\ E[r.upstream].session = r.session
        /\ E[r.upstream].bound

\* the outcome v of its execution is true:
Vouched(id, v, E) ==
    /\ v # "not_dispatched"
    /\ v = "rejected" =>
          \E u \in DOMAIN E : E[u].route = id /\ E[u].status \in TerminalStatus
    /\ v \in TerminalStatus => \E u \in DOMAIN E : E[u].route = id /\ E[u].status = v

\* or no request was or will be sent for it.
Silent(id, R, m, E, H) ==
    /\ id \in 1 .. m
    /\ id \in DOMAIN R => R[id].phase # "prepared"
    /\ \A u \in DOMAIN E : E[u].route # id
    /\ \A q \in Handlers : H[q].pc \in {"cutoff", "send"} => H[q].rec.id # id

\* What holds of handler p with locals l.
Sound(p, l, R, m, E, H, ep) ==
    /\ l.pc \in WithRecord => Copy(l.rec, R, m) /\ Faithful(l.rec, E)
    /\ l.pc \in Holding => /\ E[l.uid].route = l.rec.id
                           /\ E[l.uid].session = l.rec.session
                           /\ E[l.uid].session[1] = Host(p)
                           /\ ~E[l.uid].bound
    /\ l.pc \in {"await", "bind"} => E[l.uid].cancel = "none"
    /\ l.pc \in {"cancel", "retry"} => l.rec.phase = "cancel_requested"
    /\ l.pc \in {"cutoff", "send"} => l.rec.owner = <<Host(p), ep[Host(p)]>>
    /\ l.pc = "nondispatch" => l.rec.phase = "prepared" \/ Silent(l.rec.id, R, m, E, H)
    /\ l.pc = "finish" => Vouched(l.rec.id, l.note, E)
    /\ l.pc \in {"polled", "reroute"} /\ l.note \in TerminalStatus
          => Vouched(l.rec.id, l.note, E)

\* What holds of a stored route r.
RowSound(r, R, m, E, H) ==
    /\ Faithful(r, E)
    /\ r.upstream # None /\ E[r.upstream].cancel # "none" => r.phase \in Intended
    /\ r.cached = "not_dispatched" => Silent(r.id, R, m, E, H)
    /\ r.cached # None /\ r.cached # "not_dispatched" => Vouched(r.id, r.cached, E)

HeldOnce ==
    \A p, q \in Handlers :
        h[p].pc \in Holding /\ h[q].pc \in Holding /\ h[p].uid = h[q].uid => p = q

\* An execution was sent by an instance that existed, on a connection that did.
Past(e, ep, se) ==
    /\ \E i \in Instances : \E n \in 0 .. se[i] : e.session = <<i, n>>
    /\ \E i \in Instances : \E n \in 0 .. ep[i] : e.owner = <<i, n>>

HandlersSound == \A p \in Handlers : Sound(p, h[p], routes, minted, execs, h, epoch)
RowsSound == \A id \in DOMAIN routes : RowSound(routes[id], routes, minted, execs, h)
ExecsPast == \A u \in DOMAIN execs : Past(execs[u], epoch, session)

OutcomeInv ==
    HandlersSound /\ RowsSound /\ HeldOnce /\ ExecsPast /\ AcknowledgedTaskTracked

\* All that is known of a state.
FullInv == ProxyInv /\ KeyBoundOnce /\ DispatchInv /\ OutcomeInv

-----------------------------------------------------------------------------
(* What a step may do to the routes, the executions and the claims.        *)

RoutesFollow ==
    \A id \in 1 .. minted :
        id \in DOMAIN routes' => id \in DOMAIN routes /\ Follows(routes[id], routes'[id])

\* An execution's identity is fixed and its history only grows.
Continues(e, f) ==
    /\ f.route = e.route /\ f.session = e.session /\ f.owner = e.owner
    /\ e.bound => f.bound
    /\ e.cancel # "none" => f.cancel # "none"
    /\ e.status \in TerminalStatus => f.status = e.status

ExecsFollow ==
    /\ DOMAIN execs \subseteq DOMAIN execs'
    /\ \A u \in DOMAIN execs : Continues(execs[u], execs'[u])

\* A claim is made of a prepared route only, and a request sent from a claim.
ClaimsFollow ==
    /\ \A q \in Handlers : h'[q].pc \in {"cutoff", "send"} =>
          \/ Claimed(q) /\ h'[q].rec.id = h[q].rec.id
          \/ /\ h'[q].rec.id \in DOMAIN routes
             /\ routes[h'[q].rec.id].phase = "prepared"
    /\ \A u \in DOMAIN execs' \ DOMAIN execs :
          \E q \in Handlers : Claimed(q) /\ h[q].rec.id = execs'[u].route

Orderly ==
    /\ RoutesFollow /\ ExecsFollow /\ ClaimsFollow
    /\ minted \in Nat /\ minted' \in Nat /\ minted <= minted'

-----------------------------------------------------------------------------
(* Records, copies and outcomes survive such a step.                       *)

LEMMA FollowsTransitive ==
    ASSUME NEW r \in Record, NEW s \in Record, NEW t \in Record,
           Follows(r, s), Follows(s, t)
    PROVE  Follows(r, t)
  <1>1. r.version \in Nat /\ s.version \in Nat /\ t.version \in Nat
    BY DEF Record
  <1> QED
    BY <1>1 DEF Follows, Intended

LEMMA CopyCarries ==
    ASSUME ProxyInv, ProxyInv', RoutesFollow, minted \in Nat, minted' \in Nat,
           minted <= minted', NEW r \in Record, Copy(r, routes, minted)
    PROVE  Copy(r, routes', minted')
  <1>1. r.id \in 1 .. minted /\ r.id \in 1 .. minted'
    BY DEF Copy
  <1>2. ASSUME r.id \in DOMAIN routes' PROVE Follows(r, routes'[r.id])
    <2>1. /\ r.id \in DOMAIN routes /\ Follows(r, routes[r.id])
          /\ Follows(routes[r.id], routes'[r.id])
      BY <1>1, <1>2 DEF RoutesFollow, Copy
    <2>2. routes[r.id] \in Record /\ routes'[r.id] \in Record
      BY <1>2, <2>1 DEF ProxyInv, TypeOK
    <2> QED
      BY <2>1, <2>2, FollowsTransitive
  <1> QED
    BY <1>1, <1>2 DEF Copy

LEMMA FaithfulCarries ==
    ASSUME ExecsFollow, NEW r, Faithful(r, execs)
    PROVE  Faithful(r, execs')
  BY DEF ExecsFollow, Continues, Faithful

LEMMA VouchedCarries ==
    ASSUME ExecsFollow, NEW id, NEW v, Vouched(id, v, execs)
    PROVE  Vouched(id, v, execs')
  BY DEF ExecsFollow, Continues, Vouched

LEMMA SilentCarries ==
    ASSUME Orderly, NEW id, Silent(id, routes, minted, execs, h)
    PROVE  Silent(id, routes', minted', execs', h')
  <1>1. id \in 1 .. minted /\ id \in 1 .. minted'
    BY DEF Silent, Orderly
  <1>2. id \in DOMAIN routes' => routes'[id].phase # "prepared"
    BY <1>1 DEF Silent, Orderly, RoutesFollow, Follows
  <1>3. ASSUME NEW q \in Handlers, h'[q].pc \in {"cutoff", "send"}
        PROVE  h'[q].rec.id # id
    BY <1>3 DEF Silent, Orderly, ClaimsFollow, Claimed
  <1>4. ASSUME NEW u \in DOMAIN execs' PROVE execs'[u].route # id
    <2>1. CASE u \in DOMAIN execs
      BY <2>1 DEF Silent, Orderly, ExecsFollow, Continues
    <2>2. CASE u \notin DOMAIN execs
      BY <1>4, <2>2 DEF Silent, Orderly, ClaimsFollow, Claimed
    <2> QED
      BY <2>1, <2>2
  <1> QED
    BY <1>1, <1>2, <1>3, <1>4 DEF Silent

\* A handler that does not move stays sound, as long as its execution is left
\* alone and its instance stays.
LEMMA SoundCarries ==
    ASSUME ProxyInv, ProxyInv', Orderly, NEW q \in Handlers,
           Sound(q, h[q], routes, minted, execs, h, epoch),
           h[q].pc \in Holding =>
               /\ execs'[h[q].uid].bound = execs[h[q].uid].bound
               /\ execs'[h[q].uid].cancel = execs[h[q].uid].cancel,
           epoch'[Host(q)] = epoch[Host(q)]
    PROVE  Sound(q, h[q], routes', minted', execs', h', epoch')
  <1> DEFINE l == h[q]
  <1>1. l.pc \in WithRecord => Copy(l.rec, routes', minted') /\ Faithful(l.rec, execs')
    BY Held, CopyCarries, FaithfulCarries DEF Sound, Orderly
  <1>2. l.pc \in Holding => l.uid \in DOMAIN execs
    BY HandlerFacts DEF LocalOK, Holding
  <1>3. l.pc \in Holding => /\ execs'[l.uid].route = l.rec.id
                            /\ execs'[l.uid].session = l.rec.session
                            /\ execs'[l.uid].session[1] = Host(q)
                            /\ ~execs'[l.uid].bound
    BY <1>2 DEF Sound, Orderly, ExecsFollow, Continues
  <1>4. l.pc \in {"await", "bind"} => execs'[l.uid].cancel = "none"
    BY DEF Sound, Holding
  <1>5. l.pc = "nondispatch" =>
           l.rec.phase = "prepared" \/ Silent(l.rec.id, routes', minted', execs', h')
    BY SilentCarries DEF Sound
  <1>6. /\ l.pc = "finish" => Vouched(l.rec.id, l.note, execs')
        /\ l.pc \in {"polled", "reroute"} /\ l.note \in TerminalStatus
              => Vouched(l.rec.id, l.note, execs')
    BY VouchedCarries DEF Sound, Orderly
  <1>7. /\ l.pc \in {"cancel", "retry"} => l.rec.phase = "cancel_requested"
        /\ l.pc \in {"cutoff", "send"} => l.rec.owner = <<Host(q), epoch'[Host(q)]>>
    BY DEF Sound
  <1> HIDE DEF l
  <1>8. Sound(q, l, routes', minted', execs', h', epoch')
    BY <1>1, <1>3, <1>4, <1>5, <1>6, <1>7 DEF Sound
  <1> QED
    BY <1>8 DEF l

\* A route that is not updated stays sound, unless a cancel is sent for it.
LEMMA RowCarries ==
    ASSUME Orderly, NEW r, RowSound(r, routes, minted, execs, h),
           r.upstream # None /\ execs'[r.upstream].cancel # "none"
               => execs[r.upstream].cancel # "none" \/ r.phase \in Intended
    PROVE  RowSound(r, routes', minted', execs', h')
  BY FaithfulCarries, VouchedCarries, SilentCarries DEF RowSound, Orderly

-----------------------------------------------------------------------------
(* What a step of one handler does.                                        *)

\* It keeps its execution, takes a new one, or lets go of a settled one.
Hands(p, l) ==
    /\ l.pc \in Holding =>
          \/ h[p].pc \in Holding /\ l.uid = h[p].uid
          \/ l.uid \notin DOMAIN execs
    /\ h[p].pc \in {"bind", "orphan"} =>
          \/ l.pc \in {"bind", "orphan"} /\ l.uid = h[p].uid
          \/ execs'[h[p].uid].bound
          \/ execs'[h[p].uid].cancel # "none"

\* It marks only an execution it holds or one that is bound, and cancels a bound
\* one only with the intent in its copy.
Marks(p, l) ==
    /\ \A u \in DOMAIN execs :
          /\ \/ /\ execs'[u].bound = execs[u].bound
                /\ execs'[u].cancel = execs[u].cancel
             \/ h[p].pc \in Holding /\ u = h[p].uid
             \/ execs[u].bound
          /\ execs'[u].cancel # "none" =>
                \/ execs[u].cancel # "none" \/ ~execs[u].bound
                \/ h[p].pc \in {"cancel", "retry"} /\ u = h[p].rec.upstream
          /\ execs'[u].acked => execs[u].acked \/ (l.pc = "bind" /\ l.uid = u)
    /\ \A u \in DOMAIN execs' \ DOMAIN execs :
          Past(execs'[u], epoch, session) /\ ~execs'[u].acked

RowsUpdated ==
    \A id \in DOMAIN routes' :
        \/ id \in DOMAIN routes /\ routes'[id] = routes[id]
        \/ RowSound(routes'[id], routes', minted', execs', h')

HandlerActs(p) ==
    /\ Orderly /\ RowsUpdated /\ UNCHANGED <<epoch, session>>
    /\ \E l : /\ h' = [h EXCEPT ![p] = l]
              /\ Sound(p, l, routes', minted', execs', h', epoch')
              /\ Hands(p, l) /\ Marks(p, l)

\* What the invariant says of one handler and of one route.
LEMMA CopyHeld ==
    ASSUME FullInv, NEW p \in Handlers
    PROVE  /\ Sound(p, h[p], routes, minted, execs, h, epoch)
           /\ h[p].pc \in WithRecord =>
                 /\ h[p].rec \in Record
                 /\ Copy(h[p].rec, routes, minted) /\ Faithful(h[p].rec, execs)
           /\ h[p].pc \in Holding => h[p].pc \in WithRecord /\ h[p].uid \in DOMAIN execs
           /\ h[p].pc \in {"cutoff", "send"} => h[p].pc \in WithRecord
  <1>1. Sound(p, h[p], routes, minted, execs, h, epoch)
    BY DEF FullInv, OutcomeInv, HandlersSound
  <1>2. h[p].pc \in WithRecord => h[p].rec \in Record
    BY Held DEF FullInv
  <1>3. h[p].pc \in Holding => h[p].pc \in WithRecord /\ h[p].uid \in DOMAIN execs
    BY HandlerFacts, RecordPlaces DEF FullInv, Holding, LocalOK
  <1> QED
    BY <1>1, <1>2, <1>3, RecordPlaces DEF Sound

LEMMA CopyStored ==
    ASSUME FullInv, NEW id \in DOMAIN routes
    PROVE  /\ routes[id] \in Record /\ routes[id].id = id /\ id \in 1 .. minted
           /\ Copy(routes[id], routes, minted) /\ Faithful(routes[id], execs)
           /\ RowSound(routes[id], routes, minted, execs, h)
  <1>1. routes[id] \in Record /\ routes[id].id = id
    BY StoredType DEF FullInv
  <1>2. id \in 1 .. minted
    BY <1>1 DEF FullInv, DispatchInv, RoutesFiled, Filed
  <1>3. RowSound(routes[id], routes, minted, execs, h)
    BY DEF FullInv, OutcomeInv, RowsSound
  <1> QED
    BY <1>1, <1>2, <1>3 DEF Copy, Follows, RowSound

LEMMA ActsKeep ==
    ASSUME FullInv, ProxyInv', NEW p \in Handlers, HandlerActs(p)
    PROVE  OutcomeInv'
  <1>1. /\ Orderly /\ RowsUpdated /\ epoch' = epoch /\ session' = session
        /\ ExecsFollow
    BY DEF HandlerActs, Orderly
  <1>2. PICK l : /\ h' = [h EXCEPT ![p] = l]
                 /\ Sound(p, l, routes', minted', execs', h', epoch')
                 /\ Hands(p, l) /\ Marks(p, l)
    BY DEF HandlerActs
  <1>3. \A q \in Handlers : h'[q] = IF q = p THEN l ELSE h[q]
    BY <1>2 DEF FullInv, ProxyInv
  <1>4. HandlersSound'
    <2>1. ASSUME NEW q \in Handlers, q # p
          PROVE  Sound(q, h[q], routes', minted', execs', h', epoch')
      <3>1. /\ Sound(q, h[q], routes, minted, execs, h, epoch)
            /\ h[q].pc \in Holding => h[q].uid \in DOMAIN execs /\ ~execs[h[q].uid].bound
        BY CopyHeld DEF Sound
      <3>2. h[q].pc \in Holding => ~(h[p].pc \in Holding /\ h[q].uid = h[p].uid)
        BY <2>1 DEF FullInv, OutcomeInv, HeldOnce
      <3>3. h[q].pc \in Holding =>
               /\ execs'[h[q].uid].bound = execs[h[q].uid].bound
               /\ execs'[h[q].uid].cancel = execs[h[q].uid].cancel
        BY <1>2, <3>1, <3>2 DEF Marks
      <3> QED
        BY <1>1, <3>1, <3>3, SoundCarries DEF FullInv
    <2>2. \A q \in Handlers : Sound(q, h'[q], routes', minted', execs', h', epoch')
      BY <1>2, <1>3, <2>1
    <2> QED
      BY <2>2 DEF HandlersSound, Sound, Copy, Faithful, Silent, Vouched, Host
  <1>5. RowsSound'
    <2>1. ASSUME NEW id \in DOMAIN routes'
          PROVE  RowSound(routes'[id], routes', minted', execs', h')
      <3> SUFFICES ASSUME id \in DOMAIN routes, routes'[id] = routes[id]
                   PROVE  RowSound(routes[id], routes', minted', execs', h')
        BY <1>1 DEF RowsUpdated
      <3> DEFINE r == routes[id]
                 u == r.upstream
      <3>1. /\ r.id = id /\ Faithful(r, execs) /\ RowSound(r, routes, minted, execs, h)
        BY CopyStored
      <3>2. ASSUME u # None, execs'[u].cancel # "none", execs[u].cancel = "none"
            PROVE  r.phase \in Intended
        <4>1. u \in DOMAIN execs /\ execs[u].route = id /\ execs[u].bound
          BY <3>1, <3>2 DEF Faithful
        <4>2. h[p].pc \in {"cancel", "retry"} /\ u = h[p].rec.upstream
          BY <1>2, <3>2, <4>1 DEF Marks
        <4>3. /\ h[p].pc \in WithRecord /\ h[p].rec.phase = "cancel_requested"
              /\ Copy(h[p].rec, routes, minted) /\ Faithful(h[p].rec, execs)
          BY <4>2, CopyHeld, RecordPlaces DEF Sound
        <4>4. h[p].rec.id = id
          BY <3>2, <4>1, <4>2, <4>3 DEF Faithful
        <4> QED
          BY <4>3, <4>4 DEF Copy, Follows, Intended
      <3> HIDE DEF r, u
      <3>3. RowSound(r, routes', minted', execs', h')
        BY <1>1, <3>1, <3>2, RowCarries DEF u
      <3> QED
        BY <3>3 DEF r
    <2> QED
      BY <2>1 DEF RowsSound, RowSound, Faithful, Silent, Vouched
  <1>6. HeldOnce'
    <2>1. ASSUME NEW q \in Handlers, q # p, h[q].pc \in Holding, l.pc \in Holding
          PROVE  h[q].uid # l.uid
      BY <1>2, <2>1, CopyHeld DEF Hands, FullInv, OutcomeInv, HeldOnce
    <2> QED
      BY <1>3, <2>1 DEF FullInv, OutcomeInv, HeldOnce
  <1>7. ExecsPast'
    <2>1. \A u \in DOMAIN execs' : Past(execs'[u], epoch, session)
      BY <1>1, <1>2 DEF FullInv, OutcomeInv, ExecsPast, Past, ExecsFollow, Continues, Marks
    <2> QED
      BY <1>1, <2>1 DEF ExecsPast, Past
  <1>8. AcknowledgedTaskTracked'
    <2> SUFFICES ASSUME NEW u \in DOMAIN execs', execs'[u].acked,
                        ~execs'[u].bound, execs'[u].cancel = "none",
                        execs'[u].owner = InstanceId(execs'[u].session[1])
                 PROVE  \E q \in Handlers : h'[q].pc \in {"bind", "orphan"} /\ h'[q].uid = u
      BY <1>1 DEF AcknowledgedTaskTracked, InstanceId
    <2>1. u \in DOMAIN execs
      BY <1>2 DEF Marks
    <2>2. /\ execs[u].session = execs'[u].session /\ execs[u].owner = execs'[u].owner
          /\ ~execs[u].bound /\ execs[u].cancel = "none"
      BY <1>1, <2>1 DEF ExecsFollow, Continues
    <2>3. CASE ~execs[u].acked
      BY <1>2, <1>3, <2>1, <2>3 DEF Marks
    <2>4. CASE execs[u].acked
      <3>1. PICK q \in Handlers : h[q].pc \in {"bind", "orphan"} /\ h[q].uid = u
        BY <2>1, <2>2, <2>4 DEF FullInv, OutcomeInv, AcknowledgedTaskTracked
      <3>2. execs[u].session[1] = Host(q)
        BY <3>1, CopyHeld DEF Sound, Holding
      <3> QED
        BY <1>2, <1>3, <2>2, <3>1, <3>2 DEF Hands
    <2> QED
      BY <2>3, <2>4
  <1> QED
    BY <1>4, <1>5, <1>6, <1>7, <1>8 DEF OutcomeInv

-----------------------------------------------------------------------------
(* Steps that change nothing but the handler's locals.                     *)

LEMMA StepFollows ==
    ASSUME ProxyInv, KeyBoundOnce, DispatchInv, [Next]_vars
    PROVE  RoutesFollow /\ ProxyInv'
  <1>1. ProxyInv' /\ [StoreNext]_routes /\ RoutesAge
    BY StepKeepsInv, StepKeepsDispatch
  <1>2. ASSUME NEW id \in 1 .. minted, id \in DOMAIN routes'
        PROVE  id \in DOMAIN routes /\ Follows(routes[id], routes'[id])
    <2>1. id \in DOMAIN routes /\ Ages(routes[id], routes'[id])
      BY <1>1, <1>2 DEF RoutesAge
    <2>2. RouteStep(routes[id], routes'[id])
      BY <1>1, <1>2, <2>1, StepIsRouteStep DEF ProxyInv
    <2>3. /\ routes'[id].expires > routes'[id].created
          /\ routes[id] \in Record /\ routes'[id] \in Record
      BY <1>1, <1>2, <2>1 DEF ProxyInv, TypeOK, ValidShape
    <2>4. routes'[id].expires = routes[id].expires /\ routes'[id].id = routes[id].id
      BY <2>1 DEF Ages
    <2>5. /\ routes[id].version \in Nat /\ routes'[id].created \in Nat
          /\ routes[id].expires \in Nat
      BY <2>3 DEF Record
    <2> QED
      BY <2>1, <2>2, <2>3, <2>4, <2>5 DEF RouteStep, Follows, Intended
  <1> QED
    BY <1>1, <1>2 DEF RoutesFollow

LEMMA RoutesStill ==
    ASSUME UNCHANGED <<routes, minted>>
    PROVE  RoutesFollow /\ RowsUpdated
  BY DEF RoutesFollow, RowsUpdated, Follows

LEMMA ExecsStill ==
    ASSUME UNCHANGED execs
    PROVE  ExecsFollow /\ \A p, l : Marks(p, l)
  BY DEF ExecsFollow, Continues, Marks

LEMMA NoNewSend ==
    ASSUME ProxyInv, NEW p \in Handlers, NEW l, h' = [h EXCEPT ![p] = l],
           DOMAIN execs' \subseteq DOMAIN execs,
           l.pc \in {"cutoff", "send"} =>
              \/ Claimed(p) /\ l.rec.id = h[p].rec.id
              \/ l.rec.id \in DOMAIN routes /\ routes[l.rec.id].phase = "prepared"
    PROVE  ClaimsFollow
  <1>1. \A q \in Handlers : h'[q] = IF q = p THEN l ELSE h[q]
    BY DEF ProxyInv
  <1> QED
    BY <1>1 DEF ClaimsFollow, Claimed

LEMMA LocalActs ==
    ASSUME FullInv, NEW p \in Handlers, NEW l, Become(p, l),
           StoreUnchanged, HostsUnchanged, UNCHANGED execs,
           Sound(p, l, routes, minted, execs, h', epoch),
           l.pc \in {"cutoff", "send"} => Claimed(p) /\ l.rec.id = h[p].rec.id,
           l.pc \in Holding => h[p].pc \in Holding /\ l.uid = h[p].uid,
           h[p].pc \in {"bind", "orphan"} =>
              l.pc \in {"bind", "orphan"} /\ l.uid = h[p].uid
    PROVE  HandlerActs(p)
  <1>1. /\ routes' = routes /\ minted' = minted /\ execs' = execs
        /\ epoch' = epoch /\ session' = session
        /\ h' = [h EXCEPT ![p] = l] /\ minted \in Nat
    BY ProxyConstants DEF StoreUnchanged, HostsUnchanged, Become, FullInv, ProxyInv
  <1>2. RoutesFollow /\ RowsUpdated
    BY <1>1, RoutesStill
  <1>3. ExecsFollow /\ Marks(p, l)
    BY <1>1, ExecsStill
  <1>4. ClaimsFollow
    BY <1>1, NoNewSend DEF FullInv
  <1>5. Orderly
    BY <1>1, <1>2, <1>3, <1>4 DEF Orderly
  <1>6. Hands(p, l)
    BY <1>1 DEF Hands
  <1>7. Sound(p, l, routes', minted', execs', h', epoch')
    BY <1>1
  <1> QED
    BY <1>1, <1>2, <1>3, <1>5, <1>6, <1>7 DEF HandlerActs

\* Places at which a copy of a record is all that matters.
Easy == {"idle", "recover", "begin", "lock", "recheck", "existing", "claim", "mark",
         "intent", "decide", "poll", "nondispatch"}

LEMMA EasySound ==
    ASSUME NEW p, NEW l, NEW R, NEW m, NEW E, NEW H, NEW ep, l.pc \in Easy,
           l.pc \in WithRecord => Copy(l.rec, R, m) /\ Faithful(l.rec, E),
           l.pc = "nondispatch" => l.rec.phase = "prepared"
    PROVE  /\ Sound(p, l, R, m, E, H, ep)
           /\ l.pc \notin Holding /\ l.pc \notin {"cutoff", "send"}
  BY DEF Sound, Easy, Holding

LEMMA EasyActs ==
    ASSUME FullInv, NEW p \in Handlers, NEW l, Become(p, l),
           StoreUnchanged, HostsUnchanged, UNCHANGED execs,
           h[p].pc \notin {"bind", "orphan"}, l.pc \in Easy,
           l.pc \in WithRecord => Copy(l.rec, routes, minted) /\ Faithful(l.rec, execs),
           l.pc = "nondispatch" => l.rec.phase = "prepared"
    PROVE  HandlerActs(p)
  <1>1. /\ Sound(p, l, routes, minted, execs, h', epoch)
        /\ l.pc \notin Holding /\ l.pc \notin {"cutoff", "send"}
    BY EasySound
  <1> QED
    BY <1>1, LocalActs

\* The places and records of the locals a step builds.
LEMMA Built ==
    /\ Idle.pc = "idle"
    /\ \A p, place, r, v :
          /\ At(p, place, r).pc = place /\ At(p, place, r).rec = r
          /\ Loop(p, place, r).pc = place /\ Loop(p, place, r).rec = r
          /\ [At(p, place, r) EXCEPT !.note = v].pc = place
          /\ [At(p, place, r) EXCEPT !.note = v].rec = r
          /\ [At(p, place, r) EXCEPT !.note = v].note = v
          /\ [At(p, place, r) EXCEPT !.uid = v].pc = place
          /\ [At(p, place, r) EXCEPT !.uid = v].rec = r
          /\ [At(p, place, r) EXCEPT !.uid = v].uid = v
          /\ [At(p, place, r) EXCEPT !.seen = v].pc = place
          /\ [At(p, place, r) EXCEPT !.seen = v].rec = r
          /\ [Loop(p, place, r) EXCEPT !.note = v].pc = place
          /\ [Loop(p, place, r) EXCEPT !.note = v].rec = r
          /\ [Loop(p, place, r) EXCEPT !.note = v].note = v
    /\ \A p, place, r, v, w :
          /\ [Loop(p, place, r) EXCEPT !.note = v, !.uid = w].pc = place
          /\ [Loop(p, place, r) EXCEPT !.note = v, !.uid = w].rec = r
          /\ [Loop(p, place, r) EXCEPT !.note = v, !.uid = w].uid = w
  BY DEF At, Loop, Idle

\* What a handler may keep a copy of: its copy, or a stored route.
Source(p, r) ==
    \/ h[p].pc \in WithRecord /\ r = h[p].rec
    \/ \E id \in DOMAIN routes : r = routes[id]

LEMMA SourceCopied ==
    ASSUME FullInv, NEW p \in Handlers, NEW r, Source(p, r)
    PROVE  Copy(r, routes, minted) /\ Faithful(r, execs) /\ r \in Record
  BY CopyHeld, CopyStored DEF Source

LEMMA EasySteps ==
    ASSUME FullInv, NEW p \in Handlers,
           \/ Recover(p) \/ Recheck(p) \/ Existing(p) \/ DispatchRefused(p)
           \/ ResponseAmbiguous(p) \/ ReadRoute(p) \/ PollFails(p)
    PROVE  HandlerActs(p)
  <1>1. /\ StoreUnchanged /\ HostsUnchanged /\ UNCHANGED execs
        /\ h[p].pc \notin {"bind", "orphan"}
    BY DEF Recover, Recheck, Existing, DispatchRefused, ResponseAmbiguous, ReadRoute, PollFails
  <1>2. PICK l : /\ Become(p, l) /\ l.pc \in Easy
                 /\ l.pc \in WithRecord => Source(p, l.rec)
                 /\ l.pc = "nondispatch" => l.rec.phase = "prepared"
    <2>1. CASE Recover(p)
      <3>1. \/ Become(p, Idle)
            \/ \E id \in DOMAIN routes :
                  \/ Become(p, Idle)
                  \/ /\ routes[id].phase = "prepared"
                     /\ Become(p, At(p, "nondispatch", routes[id]))
                  \/ Become(p, Loop(p, "mark", routes[id]))
                  \/ Become(p, At(p, "recheck", routes[id]))
        BY <2>1 DEF Recover, Return, BoundTo
      <3> QED
        BY <3>1, Built, RecordPlaces DEF Easy, Source
    <2>2. CASE Recheck(p) \/ Existing(p) \/ DispatchRefused(p) \/ ResponseAmbiguous(p)
               \/ PollFails(p)
      <3>1. h[p].pc \in WithRecord
        BY <2>2, RecordPlaces
        DEF Recheck, Existing, DispatchRefused, ResponseAmbiguous, PollFails
      <3>2. \/ Become(p, Idle)
            \/ Become(p, Loop(p, "mark", h[p].rec))
            \/ Become(p, Loop(p, "intent", h[p].rec))
            \/ Become(p, At(p, "claim", h[p].rec))
        BY <2>2 DEF Recheck, Existing, DispatchRefused, ResponseAmbiguous, PollFails
      <3> QED
        BY <3>1, <3>2, Built, RecordPlaces DEF Easy, Source
    <2>3. CASE ReadRoute(p)
      <3> DEFINE r == Stored(p)
                 l == [At(p, "decide", r) EXCEPT !.seen = now]
      <3>1. \/ Become(p, Idle)
            \/ r # None /\ (Become(p, l) \/ Become(p, Loop(p, "intent", r)))
        BY <2>3 DEF ReadRoute
      <3>2. l.pc = "decide" /\ l.rec = r
        BY Built
      <3>3. r # None => Source(p, r)
        BY DEF Stored, GetTaskRoute, Source
      <3> HIDE DEF l, r
      <3> QED
        BY <3>1, <3>2, <3>3, Built, RecordPlaces DEF Easy
    <2> QED
      BY <2>1, <2>2, <2>3
  <1> QED
    BY <1>1, <1>2, SourceCopied, EasyActs

LEMMA RequestTaskActs ==
    ASSUME FullInv, NEW p \in Handlers, NEW op, NEW caller, NEW id,
           RequestTask(p, op, caller, id)
    PROVE  HandlerActs(p)
  <1> DEFINE l == [Idle EXCEPT !.pc = "lock", !.op = op,
                               !.rec = [caller |-> caller, id |-> id]]
  <1>1. l.pc = "lock"
    BY DEF Idle
  <1>2. /\ Become(p, l) /\ StoreUnchanged /\ HostsUnchanged /\ UNCHANGED execs
        /\ h[p].pc = "idle"
    BY DEF RequestTask
  <1> HIDE DEF l
  <1> QED
    BY <1>1, <1>2, EasyActs, RecordPlaces DEF Easy, WithRecord

\* get_task's decision: a cancellation is retried only under its intent, and a
\* route is finished without a request only if it was still prepared.
LEMMA DecideActs ==
    ASSUME FullInv, NEW p \in Handlers, Decide(p)
    PROVE  HandlerActs(p)
  <1> DEFINE r == h[p].rec
  <1>1. /\ StoreUnchanged /\ HostsUnchanged /\ UNCHANGED execs /\ h[p].pc = "decide"
    BY DEF Decide
  <1>2. Copy(r, routes, minted) /\ Faithful(r, execs)
    BY <1>1, CopyHeld, RecordPlaces
  <1>3. \/ Become(p, Loop(p, "mark", r))
        \/ r.phase = "prepared" /\ Become(p, At(p, "nondispatch", r))
        \/ r.phase = "cancel_requested" /\ Become(p, At(p, "retry", r))
        \/ Become(p, Loop(p, "intent", r))
        \/ Become(p, At(p, "poll", r)) \/ Become(p, Idle)
    BY DEF Decide
  <1>4. CASE r.phase = "cancel_requested" /\ Become(p, At(p, "retry", r))
    <2> DEFINE l == At(p, "retry", r)
    <2>1. l.pc = "retry" /\ l.rec = r /\ Become(p, l)
      BY <1>4, Built
    <2> HIDE DEF l
    <2>2. Sound(p, l, routes, minted, execs, h', epoch)
      BY <1>2, <1>4, <2>1 DEF Sound, Holding
    <2> QED
      BY <1>1, <2>1, <2>2, LocalActs DEF Holding
  <1>5. CASE ~(r.phase = "cancel_requested" /\ Become(p, At(p, "retry", r)))
    <2>1. PICK l : /\ Become(p, l) /\ l.pc \in Easy
                   /\ l.pc \in WithRecord => l.rec = r
                   /\ l.pc = "nondispatch" => r.phase = "prepared"
      BY <1>3, <1>5, Built, RecordPlaces DEF Easy
    <2>2. l.pc = "nondispatch" => l.pc \in WithRecord
      BY RecordPlaces
    <2> QED
      BY <1>1, <1>2, <2>1, <2>2, EasyActs
  <1> QED
    BY <1>4, <1>5

\* The clock check after a claim: past the cutoff the claim is given up, and as
\* the route's one claim it was the only one that could still be sent.
LEMMA CheckCutoffActs ==
    ASSUME FullInv, NEW p \in Handlers, CheckCutoff(p)
    PROVE  HandlerActs(p)
  <1> DEFINE r == h[p].rec
  <1>1. /\ h[p].pc = "cutoff" /\ StoreUnchanged /\ HostsUnchanged /\ UNCHANGED execs
    BY DEF CheckCutoff
  <1>2. PICK l : /\ h' = [h EXCEPT ![p] = l] /\ l.rec = r
                 /\ l.pc \in {"send", "nondispatch"}
    <2> DEFINE m(place) == [h[p] EXCEPT !.pc = place]
    <2>1. \A place : m(place).pc = place /\ m(place).rec = r
      BY HandlerFacts DEF Locals, FullInv
    <2>2. \E place \in {"send", "nondispatch"} : h' = [h EXCEPT ![p] = m(place)]
      BY DEF CheckCutoff, Goto, Become
    <2> HIDE DEF m
    <2> QED
      BY <2>1, <2>2
  <1>3. /\ Copy(r, routes, minted) /\ Faithful(r, execs)
        /\ r.owner = <<Host(p), epoch[Host(p)]>>
    BY <1>1, CopyHeld, RecordPlaces DEF Sound
  <1>4. ASSUME l.pc = "nondispatch" PROVE Silent(r.id, routes, minted, execs, h')
    <2>1. \A q \in Handlers : h'[q] = IF q = p THEN l ELSE h[q]
      BY <1>2 DEF FullInv, ProxyInv
    <2>2. \A q \in Handlers : h'[q].pc \in {"cutoff", "send"} => h'[q].rec.id # r.id
      BY <1>1, <1>4, <2>1 DEF FullInv, DispatchInv, ClaimsExclude, Claimed
    <2>3. \A u \in DOMAIN execs : execs[u].route # r.id
      BY <1>1 DEF FullInv, DispatchInv, ClaimsExclude, Claimed
    <2>4. Started(routes, r.id)
      BY <1>1 DEF FullInv, DispatchInv, HandlersServe, Serving
    <2> QED
      BY <1>3, <2>2, <2>3, <2>4 DEF Silent, Copy, Started
  <1>5. Sound(p, l, routes, minted, execs, h', epoch)
    BY <1>2, <1>3, <1>4 DEF Sound, Holding
  <1> QED
    BY <1>1, <1>2, <1>5, LocalActs DEF Holding, Claimed, Become

\* A bind that met a newer version takes a new copy, one that cannot succeed goes
\* on to cancel its upstream task.
LEMMA BindRetryActs ==
    ASSUME FullInv, NEW p \in Handlers, BindStale(p) \/ BindFails(p)
    PROVE  HandlerActs(p)
  <1>1. /\ h[p].pc = "bind" /\ StoreUnchanged /\ HostsUnchanged /\ UNCHANGED execs
    BY DEF BindStale, BindFails
  <1>2. /\ h[p].rec \in Record /\ Copy(h[p].rec, routes, minted) /\ Faithful(h[p].rec, execs)
        /\ Sound(p, h[p], routes, minted, execs, h, epoch)
    BY <1>1, CopyHeld, RecordPlaces
  <1>3. PICK l : /\ Become(p, l) /\ l.uid = h[p].uid /\ l.pc \in {"bind", "orphan"}
                 /\ Copy(l.rec, routes, minted) /\ Faithful(l.rec, execs)
                 /\ l.rec.id = h[p].rec.id /\ l.rec.session = h[p].rec.session
    <2>1. CASE BindFails(p)
      <3> DEFINE l == [At(p, "orphan", h[p].rec) EXCEPT !.uid = h[p].uid]
      <3>1. Become(p, l) /\ l.pc = "orphan" /\ l.rec = h[p].rec /\ l.uid = h[p].uid
        BY <2>1, Built DEF BindFails
      <3> HIDE DEF l
      <3> QED
        BY <1>2, <3>1
    <2>2. CASE BindStale(p)
      <3> DEFINE l == [h[p] EXCEPT !.rec = Stored(p), !.tries = @ - 1]
      <3>1. Become(p, l) /\ Stored(p) # None
        BY <2>2 DEF BindStale, CasStale
      <3>2. l.pc = "bind" /\ l.rec = Stored(p) /\ l.uid = h[p].uid
        BY <1>1, HandlerFacts DEF Locals, FullInv
      <3> HIDE DEF l
      <3>3. h[p].rec.id \in DOMAIN routes /\ Stored(p) = routes[h[p].rec.id]
        BY <3>1 DEF Stored, GetTaskRoute
      <3>4. Stored(p).id = h[p].rec.id /\ Stored(p).session = h[p].rec.session
        BY <1>2, <3>3, CopyStored DEF Copy, Follows
      <3> QED
        BY <3>1, <3>2, <3>3, <3>4, CopyStored
    <2> QED
      BY <2>1, <2>2
  <1>4. Sound(p, l, routes, minted, execs, h', epoch)
    BY <1>1, <1>2, <1>3 DEF Sound, Holding
  <1> QED
    BY <1>1, <1>3, <1>4, LocalActs DEF Holding

\* A poll's answer is the status of the route's own execution, and an end stays.
LEMMA PollUpstreamActs ==
    ASSUME FullInv, NEW p \in Handlers, PollUpstream(p)
    PROVE  HandlerActs(p)
  <1> DEFINE r == h[p].rec
             l == [At(p, "polled", r) EXCEPT !.note = execs[r.upstream].status]
  <1>1. /\ h[p].pc = "poll" /\ StoreUnchanged /\ HostsUnchanged /\ UNCHANGED execs
        /\ Become(p, l)
    BY DEF PollUpstream
  <1>2. l.pc = "polled" /\ l.rec = r /\ l.note = execs[r.upstream].status
    BY Built
  <1> HIDE DEF l
  <1>3. Copy(r, routes, minted) /\ Faithful(r, execs) /\ r.upstream # None
    BY <1>1, CopyHeld, HandlerFacts, RecordPlaces DEF FullInv, LocalOK
  <1>4. l.note \in TerminalStatus => Vouched(r.id, l.note, execs)
    BY <1>2, <1>3 DEF Faithful, Vouched, TerminalStatus
  <1>5. Sound(p, l, routes, minted, execs, h', epoch)
    BY <1>2, <1>3, <1>4 DEF Sound, Holding
  <1> QED
    BY <1>1, <1>2, <1>5, LocalActs DEF Holding

LEMMA PolledActs ==
    ASSUME FullInv, NEW p \in Handlers, Polled(p)
    PROVE  HandlerActs(p)
  <1> DEFINE r == h[p].rec
             finish(v) == [Loop(p, "finish", r) EXCEPT !.note = v]
             reroute == [At(p, "reroute", r) EXCEPT !.note = h[p].note]
  <1>1. /\ h[p].pc = "polled" /\ StoreUnchanged /\ HostsUnchanged /\ UNCHANGED execs
    BY DEF Polled
  <1>2. /\ Copy(r, routes, minted) /\ Faithful(r, execs)
        /\ h[p].note \in TerminalStatus => Vouched(r.id, h[p].note, execs)
    BY <1>1, CopyHeld, RecordPlaces DEF Sound
  <1>3. \/ h[p].note \in TerminalStatus /\ Become(p, finish("rejected"))
        \/ h[p].note \in TerminalStatus /\ Become(p, finish(h[p].note))
        \/ Become(p, Loop(p, "intent", r)) \/ Become(p, reroute) \/ Become(p, Idle)
    BY DEF Polled
  <1>4. /\ reroute.pc = "reroute" /\ reroute.rec = r /\ reroute.note = h[p].note
        /\ \A v : finish(v).pc = "finish" /\ finish(v).rec = r /\ finish(v).note = v
    BY Built
  <1> HIDE DEF finish, reroute
  <1>5. CASE Become(p, Loop(p, "intent", r)) \/ Become(p, Idle)
    <2>1. PICK l : /\ Become(p, l) /\ l.pc \in Easy /\ l.pc # "nondispatch"
                   /\ l.pc \in WithRecord => l.rec = r
      BY <1>5, Built, RecordPlaces DEF Easy
    <2> QED
      BY <1>1, <1>2, <2>1, EasyActs
  <1>6. ASSUME NEW l, Become(p, l), l.rec = r,
               \/ l.pc = "reroute" /\ l.note = h[p].note
               \/ /\ l.pc = "finish" /\ h[p].note \in TerminalStatus
                  /\ l.note \in {"rejected", h[p].note}
        PROVE  HandlerActs(p)
    <2>1. h[p].note \in TerminalStatus => Vouched(r.id, "rejected", execs)
      BY <1>2 DEF Vouched, TerminalStatus
    <2>2. Sound(p, l, routes, minted, execs, h', epoch)
      BY <1>2, <1>6, <2>1 DEF Sound, Holding
    <2> QED
      BY <1>1, <1>6, <2>2, LocalActs DEF Holding
  <1> QED
    BY <1>3, <1>4, <1>5, <1>6

-----------------------------------------------------------------------------
(* Steps that update the handler's route.                                  *)

\* A compare-and-set that succeeds meets the very record the handler holds.
LEMMA CasMeets ==
    ASSUME FullInv, NEW p \in Handlers, h[p].pc \in WithRecord,
           NEW u \in Updates, Cas(p, u), CasOk(p, u)
    PROVE  /\ h[p].rec.id \in DOMAIN routes /\ routes[h[p].rec.id] = h[p].rec
           /\ TransitionAllowed(h[p].rec, u)
           /\ DOMAIN routes' = DOMAIN routes
           /\ routes'[h[p].rec.id] = Successor(h[p].rec, u)
           /\ \A id \in DOMAIN routes : id # h[p].rec.id => routes'[id] = routes[id]
  <1> DEFINE r == h[p].rec
  <1>1. /\ r.id \in DOMAIN routes /\ routes[r.id].version = r.version
        /\ TransitionAllowed(routes[r.id], u)
        /\ routes' = [routes EXCEPT ![r.id] = Successor(@, u)]
    BY DEF Cas, CasOk, CompareAndSet, CasSucceeds
  <1>2. Follows(r, routes[r.id]) /\ r \in Record
    BY <1>1, CopyHeld DEF Copy
  <1>3. routes[r.id] = r
    BY <1>1, <1>2 DEF Follows, Record
  <1> QED
    BY <1>1, <1>3

LEMMA SuccessorFields ==
    ASSUME NEW r \in Record, NEW u \in Updates
    PROVE  /\ Successor(r, u).id = r.id /\ Successor(r, u).session = r.session
           /\ Successor(r, u).phase = u.phase /\ Successor(r, u).cached = u.cached
           /\ Successor(r, u).owner = u.owner
           /\ Successor(r, u).upstream
                 = IF r.upstream # None THEN r.upstream ELSE u.upstream
  BY DEF Successor, Record

\* The new record is its own copy, and if the update names no other upstream task
\* its upstream task is the old one.
LEMMA SuccessorCopied ==
    ASSUME FullInv, NEW p \in Handlers, h[p].pc \in WithRecord,
           NEW u \in Updates, Cas(p, u), CasOk(p, u), minted' = minted
    PROVE  /\ Copy(Successor(h[p].rec, u), routes', minted')
           /\ u.upstream \in {None, h[p].rec.upstream} =>
                 /\ Successor(h[p].rec, u).upstream = h[p].rec.upstream
                 /\ Faithful(Successor(h[p].rec, u), execs)
  <1> DEFINE s == Successor(h[p].rec, u)
  <1>1. /\ h[p].rec \in Record /\ Copy(h[p].rec, routes, minted)
        /\ Faithful(h[p].rec, execs)
    BY CopyHeld
  <1>2. /\ s.id = h[p].rec.id /\ s.session = h[p].rec.session
        /\ s.upstream = IF h[p].rec.upstream # None THEN h[p].rec.upstream ELSE u.upstream
    BY <1>1, SuccessorFields
  <1>3. routes'[h[p].rec.id] = s
    BY CasMeets
  <1> HIDE DEF s
  <1>4. Copy(s, routes', minted')
    BY <1>1, <1>2, <1>3 DEF Copy, Follows
  <1>5. u.upstream \in {None, h[p].rec.upstream} =>
           s.upstream = h[p].rec.upstream /\ Faithful(s, execs)
    BY <1>1, <1>2 DEF Faithful
  <1> QED
    BY <1>4, <1>5 DEF s

\* The update may record a verdict if it is true.
Deserved(p, v) ==
    /\ v = "not_dispatched" =>
          \/ h[p].rec.phase = "prepared"
          \/ Silent(h[p].rec.id, routes, minted, execs, h)
    /\ v # None /\ v # "not_dispatched" => Vouched(h[p].rec.id, v, execs)

\* A prepared route has not been claimed, nor was a request sent for it.
LEMMA PreparedUnclaimed ==
    ASSUME FullInv, NEW id \in DOMAIN routes, routes[id].phase = "prepared"
    PROVE  /\ \A u \in DOMAIN execs : execs[u].route # id
           /\ \A q \in Handlers : Claimed(q) => h[q].rec.id # id
  BY DEF FullInv, DispatchInv, HandlersServe, ExecsServe, Serving, Claimed, Started

LEMMA CasActs ==
    ASSUME FullInv, RoutesFollow, NEW p \in Handlers, h[p].pc \in WithRecord,
           h[p].pc \notin {"bind", "orphan"},
           NEW u \in Updates, u.upstream \in {None, h[p].rec.upstream},
           Cas(p, u), HostsUnchanged, UNCHANGED execs,
           NEW l, Become(p, l), l.pc \notin Holding,
           CasOk(p, u) => Deserved(p, u.cached),
           l.pc \in {"cutoff", "send"} =>
              /\ u.cached = None /\ l.rec.id \in DOMAIN routes
              /\ routes[l.rec.id].phase = "prepared",
           Sound(p, l, routes', minted', execs', h', epoch')
    PROVE  HandlerActs(p)
  <1> DEFINE r == h[p].rec
             s == Successor(r, u)
  <1>1. /\ minted' = minted /\ execs' = execs /\ epoch' = epoch /\ session' = session
        /\ h' = [h EXCEPT ![p] = l] /\ minted \in Nat
    BY ProxyConstants DEF HostsUnchanged, Become, FullInv, ProxyInv
  <1>2. ExecsFollow /\ Marks(p, l)
    BY <1>1, ExecsStill
  <1>3. ClaimsFollow
    BY <1>1, NoNewSend DEF FullInv
  <1>4. Orderly
    BY <1>1, <1>2, <1>3 DEF Orderly
  <1>5. Hands(p, l)
    BY DEF Hands
  <1>6. CASE ~CasOk(p, u)
    <2>1. routes' = routes
      BY <1>6 DEF Cas, CasOk, CompareAndSet
    <2> QED
      BY <1>1, <1>2, <1>4, <1>5, <2>1 DEF HandlerActs, RowsUpdated
  <1>7. CASE CasOk(p, u)
    <2>1. /\ r.id \in DOMAIN routes /\ routes[r.id] = r /\ TransitionAllowed(r, u)
          /\ DOMAIN routes' = DOMAIN routes /\ routes'[r.id] = s
          /\ \A id \in DOMAIN routes : id # r.id => routes'[id] = routes[id]
      BY <1>7, CasMeets
    <2>2. /\ s.id = r.id /\ s.phase = u.phase /\ s.cached = u.cached
          /\ s.upstream = r.upstream /\ Faithful(s, execs)
      BY <1>1, <1>7, CopyHeld, SuccessorFields, SuccessorCopied
    <2>3. RowSound(r, routes, minted, execs, h) /\ r.id \in 1 .. minted
      BY <2>1, CopyStored
    <2>4. /\ u.phase # "prepared"
          /\ r.phase = "cancel_requested" => u.phase \in Intended
          /\ r.phase # "terminal"
      BY <2>1 DEF TransitionAllowed, CanTransition, Intended
    <2> HIDE DEF s
    <2>5. s.upstream # None /\ execs'[s.upstream].cancel # "none" => s.phase \in Intended
      BY <1>1, <2>2, <2>3, <2>4 DEF RowSound, Intended
    <2>6. ASSUME s.cached = "not_dispatched"
          PROVE  Silent(s.id, routes', minted', execs', h')
      <3>1. CASE Silent(r.id, routes, minted, execs, h)
        BY <1>4, <2>2, <3>1, SilentCarries
      <3>2. CASE r.phase = "prepared"
        <4>1. /\ \A v \in DOMAIN execs : execs[v].route # r.id
              /\ \A q \in Handlers : Claimed(q) => h[q].rec.id # r.id
          BY <2>1, <3>2, PreparedUnclaimed
        <4>2. l.pc \notin {"cutoff", "send"}
          BY <2>2, <2>6, NoneIsNoValue, ProxyConstants
        <4>3. \A q \in Handlers : h'[q] = IF q = p THEN l ELSE h[q]
          BY <1>1 DEF FullInv, ProxyInv
        <4>4. \A q \in Handlers : h'[q].pc \in {"cutoff", "send"} => h'[q].rec.id # r.id
          BY <4>1, <4>2, <4>3 DEF Claimed
        <4> QED
          BY <1>1, <2>1, <2>2, <2>3, <2>4, <4>1, <4>4 DEF Silent
      <3> QED
        BY <1>7, <2>2, <2>6, <3>1, <3>2 DEF Deserved
    <2>7. s.cached # None /\ s.cached # "not_dispatched" => Vouched(s.id, s.cached, execs')
      BY <1>1, <1>7, <2>2 DEF Deserved
    <2>8. RowSound(s, routes', minted', execs', h')
      BY <1>1, <2>2, <2>5, <2>6, <2>7 DEF RowSound
    <2>9. RowsUpdated
      BY <2>1, <2>8 DEF RowsUpdated
    <2> QED
      BY <1>1, <1>2, <1>4, <1>5, <2>9 DEF HandlerActs
  <1> QED
    BY <1>6, <1>7

\* The fields of the proxy's updates.
LEMMA UpdateFields ==
    /\ \A o : Dispatching(o).cached = None /\ Dispatching(o).owner = o
    /\ \A n : /\ Routed(n).cached = None /\ Routed(n).phase = "routed"
              /\ CancelRequestedWithUpstream(n).cached = None
              /\ CancelRequestedWithUpstream(n).phase = "cancel_requested"
    /\ \A v : Terminal(v).cached = v
    /\ ReconciliationRequired.cached = None
    /\ CancelRequested.cached = None /\ CancelRequested.phase = "cancel_requested"
  BY DEF Dispatching, Routed, CancelRequestedWithUpstream, Terminal,
         ReconciliationRequired, CancelRequested, Update

LEMMA IdleSound ==
    ASSUME NEW p, NEW R, NEW m, NEW E, NEW H, NEW ep
    PROVE  Sound(p, Idle, R, m, E, H, ep) /\ Idle.pc = "idle"
  BY Built DEF Sound, WithRecord, Holding

LEMMA IdleActs ==
    ASSUME FullInv, NEW p \in Handlers, Become(p, Idle),
           StoreUnchanged, HostsUnchanged, UNCHANGED execs,
           h[p].pc \notin {"bind", "orphan"}
    PROVE  HandlerActs(p)
  BY IdleSound, LocalActs DEF Holding

\* The claim: of the route as it was copied, hence still prepared, under the
\* instance's own name.
LEMMA ClaimDispatchActs ==
    ASSUME FullInv, RoutesFollow, NEW p \in Handlers, ClaimDispatch(p)
    PROVE  HandlerActs(p)
  <1> DEFINE u == Dispatching(InstanceId(Host(p)))
             r == h[p].rec
             s == Successor(r, u)
  <1>1. /\ h[p].pc = "claim" /\ Cas(p, u) /\ HostsUnchanged /\ UNCHANGED execs
        /\ h[p].pc \in WithRecord
    BY RecordPlaces DEF ClaimDispatch
  <1>2. /\ u \in Updates /\ u.upstream = None /\ u.owner = InstanceId(Host(p))
        /\ u.cached = None
    BY HandlerFacts, ProxyUpdates, UpdateFields DEF FullInv
  <1>3. Deserved(p, u.cached)
    BY <1>2, NoneIsNoValue, ProxyConstants DEF Deserved
  <1>4. CASE ~CasOk(p, u)
    <2>1. Become(p, Idle)
      BY <1>4 DEF ClaimDispatch, Return
    <2> QED
      BY <1>1, <1>2, <1>3, <2>1, IdleSound, CasActs DEF Holding
  <1>5. CASE CasOk(p, u)
    <2>1. PICK l : Become(p, l) /\ l.pc = "cutoff" /\ l.rec = s
      BY <1>5, Built DEF ClaimDispatch
    <2>2. /\ r.id \in DOMAIN routes /\ routes[r.id] = r /\ TransitionAllowed(r, u)
      BY <1>1, <1>2, <1>5, CasMeets
    <2>3. r.phase = "prepared"
      <3>1. u.phase = "dispatching"
        BY DEF Dispatching, Update
      <3> QED
        BY <2>2, <3>1 DEF TransitionAllowed, CanTransition
    <2>4. s.id = r.id /\ s.owner = InstanceId(Host(p))
      BY <1>1, <1>2, CopyHeld, SuccessorFields
    <2>5. Copy(s, routes', minted') /\ Faithful(s, execs)
      BY <1>1, <1>2, <1>5, SuccessorCopied DEF HostsUnchanged
    <2> HIDE DEF s
    <2>6. Sound(p, l, routes', minted', execs', h', epoch')
      BY <1>1, <2>1, <2>4, <2>5 DEF Sound, Holding, InstanceId, HostsUnchanged
    <2> HIDE DEF u
    <2> QED
      BY <1>1, <1>2, <1>3, <2>1, <2>2, <2>3, <2>4, <2>6, CasActs DEF Holding
  <1> QED
    BY <1>4, <1>5

\* A reload leaves the handler in its loop with a copy of its route.
LEMMA Reloaded ==
    ASSUME FullInv, NEW p \in Handlers, h[p].pc \in {"mark", "finish", "intent"},
           CasStale(p), Become(p, [h[p] EXCEPT !.rec = Stored(p), !.tries = @ - 1]),
           StoreUnchanged, HostsUnchanged, UNCHANGED execs
    PROVE  HandlerActs(p)
  <1> DEFINE l == [h[p] EXCEPT !.rec = Stored(p), !.tries = @ - 1]
  <1>1. l.pc = h[p].pc /\ l.rec = Stored(p) /\ l.note = h[p].note
    BY HandlerFacts DEF Locals, FullInv
  <1>2. Become(p, l)
    OBVIOUS
  <1> HIDE DEF l
  <1>3. h[p].rec.id \in DOMAIN routes /\ Stored(p) = routes[h[p].rec.id]
    BY DEF CasStale, Stored, GetTaskRoute
  <1>4. /\ Copy(l.rec, routes, minted) /\ Faithful(l.rec, execs)
        /\ l.rec.id = h[p].rec.id
    BY <1>1, <1>3, CopyStored
  <1>5. l.pc = "finish" => Vouched(l.rec.id, l.note, execs)
    BY <1>1, <1>4, CopyHeld DEF Sound
  <1>6. Sound(p, l, routes, minted, execs, h', epoch)
    BY <1>1, <1>4, <1>5 DEF Sound, Holding
  <1> QED
    BY <1>1, <1>2, <1>6, LocalActs DEF Holding

LEMMA UpdateLoopActs ==
    ASSUME FullInv, RoutesFollow, NEW p \in Handlers,
           NEW place \in {"mark", "finish", "intent"},
           NEW u \in Updates, u.upstream = None, NEW settled,
           place = "intent" => u.phase = "cancel_requested" /\ settled = Intended,
           h[p].pc = place => Deserved(p, u.cached),
           UpdateLoop(p, place, u, settled)
    PROVE  HandlerActs(p)
  <1> DEFINE r == h[p].rec
             s == Successor(r, u)
  <1>1. /\ h[p].pc = place /\ HostsUnchanged /\ UNCHANGED execs
        /\ h[p].pc \in WithRecord /\ r \in Record /\ h[p].pc \notin {"bind", "orphan"}
    BY CopyHeld, RecordPlaces DEF UpdateLoop
  <1>2. ASSUME NEW rec, NEW l, l = AfterUpdate(p, rec)
        PROVE  \/ l.pc = "idle"
               \/ /\ l.pc = "cancel" /\ l.rec = rec
                  /\ place = "intent" /\ rec.phase # "terminal"
    BY <1>1, <1>2, Built DEF AfterUpdate
  <1>3. CASE r.phase \in settled /\ Become(p, AfterUpdate(p, r)) /\ StoreUnchanged
    <2>1. PICK l : l = AfterUpdate(p, r)
      OBVIOUS
    <2>2. /\ l.pc \in {"idle", "cancel"}
          /\ l.pc = "cancel" => l.rec = r
          /\ l.pc = "cancel" => l.rec.phase = "cancel_requested"
      BY <1>2, <1>3, <2>1 DEF Intended
    <2>3. Sound(p, l, routes, minted, execs, h', epoch)
      BY <1>1, <2>2, CopyHeld DEF Sound, Holding, WithRecord
    <2> QED
      BY <1>1, <1>3, <2>1, <2>2, <2>3, LocalActs DEF Holding
  <1>4. CASE /\ CasOk(p, u) /\ Cas(p, u)
             /\ Become(p, IF h[p].tries > 1 THEN AfterUpdate(p, s) ELSE Idle)
    <2>1. PICK l : /\ l = IF h[p].tries > 1 THEN AfterUpdate(p, s) ELSE Idle
      OBVIOUS
    <2>2. /\ l.pc \in {"idle", "cancel"}
          /\ l.pc = "cancel" => l.rec = s
          /\ l.pc = "cancel" => place = "intent"
      BY <1>2, <2>1, Built
    <2>3. s.phase = u.phase
      BY <1>1, SuccessorFields
    <2>4. Copy(s, routes', minted') /\ Faithful(s, execs')
      BY <1>1, <1>4, SuccessorCopied DEF HostsUnchanged
    <2> HIDE DEF s
    <2>5. Sound(p, l, routes', minted', execs', h', epoch')
      BY <2>2, <2>3, <2>4 DEF Sound, Holding, WithRecord
    <2>6. Become(p, l)
      BY <1>4, <2>1
    <2> QED
      BY <1>1, <1>4, <2>2, <2>5, <2>6, CasActs DEF Holding
  <1>5. CASE /\ CasStale(p) /\ StoreUnchanged
             /\ Become(p, [h[p] EXCEPT !.rec = Stored(p), !.tries = @ - 1])
    BY <1>1, <1>5, Reloaded
  <1>6. CASE Return(p) /\ StoreUnchanged
    BY <1>1, <1>6, IdleActs DEF Return
  <1> QED
    BY <1>3, <1>4, <1>5, <1>6 DEF UpdateLoop

LEMMA UpdatesAct ==
    ASSUME FullInv, RoutesFollow, NEW p \in Handlers,
           \/ MarkReconciliationRequired(p) \/ FinishTerminal(p)
           \/ PersistCancellationIntent(p) \/ FinishNonDispatchOnce(p)
    PROVE  HandlerActs(p)
  <1>1. Deserved(p, None)
    BY NoneIsNoValue, ProxyConstants DEF Deserved
  <1>2. CASE MarkReconciliationRequired(p)
    BY <1>1, <1>2, UpdateLoopActs, ProxyUpdates, UpdateFields DEF MarkReconciliationRequired
  <1>3. CASE PersistCancellationIntent(p)
    BY <1>1, <1>3, UpdateLoopActs, ProxyUpdates, UpdateFields
    DEF PersistCancellationIntent, Intended
  <1>4. CASE FinishTerminal(p)
    <2>1. h[p].pc = "finish" /\ h[p].note \in Verdicts
      BY <1>4, HandlerFacts DEF FinishTerminal, UpdateLoop, LocalOK, FullInv
    <2>2. /\ Terminal(h[p].note) \in Updates /\ Terminal(h[p].note).upstream = None
          /\ Terminal(h[p].note).cached = h[p].note
      BY <2>1, ProxyUpdates, UpdateFields
    <2>3. Deserved(p, h[p].note)
      BY <2>1, CopyHeld DEF Sound, Deserved, Vouched
    <2> QED
      BY <1>4, <2>2, <2>3, UpdateLoopActs DEF FinishTerminal
  <1>5. CASE FinishNonDispatchOnce(p)
    <2> DEFINE u == Terminal("not_dispatched")
    <2>1. u \in Updates /\ u.upstream = None /\ u.cached = "not_dispatched"
      BY ProxyUpdates, ProxyConstants, UpdateFields
    <2>2. /\ h[p].pc = "nondispatch" /\ h[p].pc \in WithRecord /\ Become(p, Idle)
          /\ Cas(p, u) /\ HostsUnchanged /\ UNCHANGED execs
      BY <1>5, RecordPlaces DEF FinishNonDispatchOnce, Return
    <2>3. Deserved(p, "not_dispatched")
      BY <2>2, CopyHeld DEF Sound, Deserved
    <2> HIDE DEF u
    <2> QED
      BY <2>1, <2>2, <2>3, IdleSound, CasActs DEF Holding
  <1> QED
    BY <1>2, <1>3, <1>4, <1>5

\* A reconciled route is routed again to its own upstream task, and the answer that
\* was polled goes with it, whatever copy it goes on with.
LEMMA RerouteActs ==
    ASSUME FullInv, RoutesFollow, NEW p \in Handlers, Reroute(p)
    PROVE  HandlerActs(p)
  <1> DEFINE r == h[p].rec
             u == Routed(r.upstream)
             active == IF CasOk(p, u) THEN Successor(r, u) ELSE Stored(p)
             finish(rec) == [Loop(p, "finish", rec) EXCEPT !.note = h[p].note]
  <1>1. /\ h[p].pc = "reroute" /\ h[p].pc \in WithRecord
        /\ Cas(p, u) /\ HostsUnchanged /\ UNCHANGED execs
    BY RecordPlaces DEF Reroute
  <1>2. /\ r \in Record /\ r.upstream # None /\ r.upstream \in Nat
        /\ Copy(r, routes, minted) /\ Faithful(r, execs)
        /\ h[p].note \in TerminalStatus => Vouched(r.id, h[p].note, execs)
    <2>1. execs \in Seq(Execution) /\ r.upstream # None
      BY <1>1, HandlerFacts DEF FullInv, ProxyInv, LocalOK
    <2> QED
      BY <1>1, <2>1, CopyHeld DEF Sound, Faithful
  <1>3. u \in Updates /\ u.upstream = r.upstream /\ u.cached = None
    BY <1>2, ProxyUpdates, UpdateFields
  <1>4. Deserved(p, u.cached)
    BY <1>3, NoneIsNoValue, ProxyConstants DEF Deserved
  <1>5. CASE Become(p, Idle)
    BY <1>1, <1>3, <1>4, <1>5, IdleSound, CasActs DEF Holding
  <1>6. CASE /\ h[p].note \in TerminalStatus /\ (CasOk(p, u) \/ CasStale(p))
             /\ Become(p, finish(active))
    <2>1. PICK l : Become(p, l) /\ l.pc = "finish" /\ l.rec = active /\ l.note = h[p].note
      <3>1. \A rec : /\ finish(rec).pc = "finish" /\ finish(rec).rec = rec
                     /\ finish(rec).note = h[p].note
        BY Built
      <3> HIDE DEF finish, active
      <3> QED
        BY <1>6, <3>1
    <2>2. /\ active.id = r.id /\ Copy(active, routes', minted') /\ Faithful(active, execs)
      <3>1. CASE CasOk(p, u)
        <4>1. active = Successor(r, u)
          BY <3>1
        <4> QED
          BY <1>1, <1>2, <1>3, <3>1, <4>1, SuccessorFields, SuccessorCopied DEF HostsUnchanged
      <3>2. CASE ~CasOk(p, u)
        <4>1. r.id \in DOMAIN routes /\ active = routes[r.id] /\ routes' = routes
          BY <1>1, <1>6, <3>2
          DEF CasStale, Stored, GetTaskRoute, Cas, CasOk, CompareAndSet
        <4> QED
          BY <1>1, <4>1, CopyStored DEF HostsUnchanged
      <3> QED
        BY <3>1, <3>2
    <2> HIDE DEF active
    <2>3. Sound(p, l, routes', minted', execs', h', epoch')
      BY <1>1, <1>2, <1>6, <2>1, <2>2 DEF Sound, Holding
    <2> HIDE DEF u
    <2> QED
      BY <1>1, <1>3, <1>4, <2>1, <2>3, CasActs DEF Holding
  <1> QED
    BY <1>5, <1>6 DEF Reroute, Return

-----------------------------------------------------------------------------
(* The requests' first steps, and the dispatch.                            *)

LEMMA SubmitModeActs ==
    ASSUME FullInv, RoutesFollow, NEW p \in Handlers, NEW sub \in Submissions,
           NEW recovery_only \in BOOLEAN, SubmitMode(p, sub, recovery_only)
    PROVE  HandlerActs(p)
  <1> DEFINE local == [Idle EXCEPT !.op = "submit", !.sub = sub, !.seen = now]
             recover == [local EXCEPT !.pc = "recover"]
             begin == [local EXCEPT !.pc = "begin"]
  <1>1. /\ PurgeExpired(now, PurgeLimit) /\ HostsUnchanged /\ UNCHANGED execs
        /\ h[p].pc = "idle"
        /\ Become(p, recover) \/ Become(p, begin) \/ Become(p, Idle)
    BY DEF SubmitMode
  <1>2. recover.pc = "recover" /\ begin.pc = "begin" /\ Idle.pc = "idle"
    BY DEF Idle
  <1> HIDE DEF recover, begin
  <1>3. PICK l : h' = [h EXCEPT ![p] = l] /\ l.pc \in {"recover", "begin", "idle"}
    BY <1>1, <1>2 DEF Become
  <1>4. /\ minted' = minted /\ execs' = execs /\ epoch' = epoch /\ session' = session
        /\ minted \in Nat
    BY <1>1, ProxyConstants DEF HostsUnchanged, FullInv, ProxyInv
  <1>5. RowsUpdated
    BY <1>1 DEF PurgeExpired, Removed, RowsUpdated
  <1>6. ExecsFollow /\ Marks(p, l)
    BY <1>4, ExecsStill
  <1>7. ClaimsFollow
    BY <1>3, <1>4, NoNewSend DEF FullInv
  <1>8. Orderly
    BY <1>4, <1>6, <1>7 DEF Orderly
  <1>9. Hands(p, l)
    BY <1>1, <1>3 DEF Hands, Holding
  <1>10. Sound(p, l, routes', minted', execs', h', epoch')
    BY <1>3, EasySound DEF Easy, WithRecord
  <1> QED
    BY <1>3, <1>4, <1>5, <1>6, <1>8, <1>9, <1>10 DEF HandlerActs

LEMMA BeginActs ==
    ASSUME FullInv, RoutesFollow, NEW p \in Handlers, Begin(p)
    PROVE  HandlerActs(p)
  <1> DEFINE new == Candidate(p)
  <1>1. /\ h[p].pc = "begin" /\ execs' = execs /\ epoch' = epoch /\ session' = session
        /\ minted \in Nat /\ UNCHANGED <<now, snapshot>>
    BY ProxyConstants DEF Begin, FullInv, ProxyInv
  <1>2. CASE BeginInserts(new) /\ minted < MaxRoutes
    <2>1. routes' = Inserted(new) /\ minted' = minted + 1 /\ Become(p, At(p, "claim", new))
      BY <1>2 DEF Begin, BeginOrExisting
    <2>2. PICK l : h' = [h EXCEPT ![p] = l] /\ l.pc = "claim" /\ l.rec = new
      <3>1. PICK l : Become(p, l) /\ l.pc = "claim" /\ l.rec = new
        BY <2>1, Built
      <3> QED
        BY <3>1 DEF Become
    <2>3. /\ new.id = minted + 1 /\ new.upstream = None /\ new.cached = None
      BY DEF Candidate, Prepare
    <2> HIDE DEF new
    <2>4. /\ routes'[minted + 1] = new
          /\ \A id \in DOMAIN routes' : id # minted + 1 =>
                id \in DOMAIN routes /\ routes'[id] = routes[id]
      BY <2>1, <2>3 DEF Inserted, RemainingRows
    <2>5. RowSound(new, routes', minted', execs', h') /\ Faithful(new, execs')
      BY <2>3, NoneIsNoValue, ProxyConstants DEF RowSound, Faithful
    <2>6. RowsUpdated
      BY <2>4, <2>5 DEF RowsUpdated
    <2>7. ExecsFollow /\ Marks(p, l)
      BY <1>1, ExecsStill
    <2>8. ClaimsFollow
      BY <1>1, <2>2, NoNewSend DEF FullInv
    <2>9. Orderly
      BY <1>1, <2>1, <2>7, <2>8 DEF Orderly
    <2>10. Copy(new, routes', minted')
      <3>1. minted + 1 \in 1 .. minted + 1
        BY <1>1
      <3> QED
        BY <2>1, <2>3, <2>4, <3>1 DEF Copy, Follows
    <2>11. Sound(p, l, routes', minted', execs', h', epoch')
      BY <2>2, <2>5, <2>10, EasySound DEF Easy
    <2>12. Hands(p, l)
      BY <1>1, <2>2 DEF Hands, Holding
    <2> QED
      BY <1>1, <2>2, <2>6, <2>7, <2>9, <2>11, <2>12 DEF HandlerActs
  <1>3. CASE ~(BeginInserts(new) /\ minted < MaxRoutes)
    <2>1. /\ StoreUnchanged /\ HostsUnchanged /\ UNCHANGED execs
      BY <1>1, <1>3 DEF Begin, StoreUnchanged, HostsUnchanged
    <2>2. PICK l : /\ Become(p, l) /\ l.pc \in {"idle", "existing"}
                   /\ l.pc = "existing" => Source(p, l.rec)
      <3> DEFINE next(id) == [At(p, "existing", routes[id]) EXCEPT !.seen = h[p].seen]
      <3>1. \A id : next(id).pc = "existing" /\ next(id).rec = routes[id]
        BY Built
      <3>2. Become(p, Idle) \/ \E id \in DOMAIN routes : Become(p, next(id))
        BY <1>3 DEF Begin, Return, LiveBinding, BoundTo
      <3> HIDE DEF next
      <3> QED
        BY <3>1, <3>2, Built DEF Source
    <2>3. /\ l.pc \in Easy /\ l.pc # "nondispatch"
          /\ l.pc \in WithRecord => l.pc = "existing"
      BY <2>2 DEF Easy, WithRecord
    <2> QED
      BY <1>1, <2>1, <2>2, <2>3, SourceCopied, EasyActs
  <1> QED
    BY <1>2, <1>3

\* The dispatch: on the record's own session, in the instance's own name, and held
\* by this handler alone.
LEMMA DispatchActs ==
    ASSUME FullInv, NEW p \in Handlers, Dispatch(p)
    PROVE  HandlerActs(p)
  <1> DEFINE r == h[p].rec
             n == Len(execs) + 1
  <1>1. /\ h[p].pc = "send" /\ UNCHANGED <<routes, minted, epoch, session>>
        /\ minted \in Nat /\ execs \in Seq(Execution) /\ r.session = SessionId(Host(p))
    BY ProxyConstants DEF Dispatch, StoreUnchanged, HostsUnchanged, FullInv, ProxyInv
  <1>2. PICK e : /\ execs' = Append(execs, e)
                 /\ e.route = r.id /\ e.session = r.session /\ e.owner = r.owner
                 /\ ~e.acked /\ ~e.bound /\ e.cancel = "none"
    <2> DEFINE d(status) ==
            [route |-> r.id, sub |-> Submission(r), session |-> r.session,
             owner |-> r.owner, status |-> status, acked |-> FALSE, bound |-> FALSE,
             cancel |-> "none"]
    <2>1. PICK status : execs' = Append(execs, d(status))
      BY DEF Dispatch
    <2>2. /\ d(status).route = r.id /\ d(status).session = r.session
          /\ d(status).owner = r.owner /\ ~d(status).acked /\ ~d(status).bound
          /\ d(status).cancel = "none"
      OBVIOUS
    <2> HIDE DEF d
    <2> QED
      BY <2>1, <2>2
  <1>3. /\ DOMAIN execs' = DOMAIN execs \cup {n} /\ n \notin DOMAIN execs
        /\ execs'[n] = e
        /\ \A v \in DOMAIN execs : execs'[v] = execs[v]
    <2>1. Len(execs) \in Nat /\ DOMAIN execs = 1 .. Len(execs)
      BY <1>1, LenProperties
    <2>2. execs \in Seq(Execution \cup {e})
      BY <1>1, <2>1
    <2>3. /\ execs' \in Seq(Execution \cup {e}) /\ Len(execs') = Len(execs) + 1
          /\ \A i \in 1 .. Len(execs) : execs'[i] = execs[i]
          /\ execs'[Len(execs) + 1] = e
      BY <1>2, <2>2, AppendProperties
    <2>4. DOMAIN execs' = 1 .. Len(execs')
      BY <2>3, LenProperties
    <2> QED
      BY <2>1, <2>3, <2>4
  <1>4. PICK l : /\ h' = [h EXCEPT ![p] = l] /\ l.pc = "await" /\ l.uid = n /\ l.rec = r
    <2> DEFINE m == [h[p] EXCEPT !.pc = "await", !.uid = n]
    <2>1. m.pc = "await" /\ m.uid = n /\ m.rec = r
      BY HandlerFacts DEF Locals, FullInv
    <2>2. h' = [h EXCEPT ![p] = m]
      BY DEF Dispatch, Become
    <2> HIDE DEF m
    <2> QED
      BY <2>1, <2>2
  <1> HIDE DEF n
  <1>5. RoutesFollow /\ RowsUpdated
    BY <1>1, RoutesStill
  <1>6. /\ Copy(r, routes, minted) /\ Faithful(r, execs)
        /\ r.owner = <<Host(p), epoch[Host(p)]>>
    BY <1>1, CopyHeld DEF Sound
  <1>7. ExecsFollow
    BY <1>3 DEF ExecsFollow, Continues
  <1>8. ClaimsFollow
    <2>1. \A q \in Handlers : h'[q] = IF q = p THEN l ELSE h[q]
      BY <1>4 DEF FullInv, ProxyInv
    <2> QED
      BY <1>1, <1>2, <1>3, <1>4, <2>1 DEF ClaimsFollow, Claimed
  <1>9. Orderly
    BY <1>1, <1>5, <1>7, <1>8 DEF Orderly
  <1>10. Past(e, epoch, session)
    <2>1. Host(p) \in Instances
      BY ProxyConstants DEF Host
    <2>2. /\ epoch[Host(p)] \in 0 .. epoch[Host(p)]
          /\ session[Host(p)] \in 0 .. session[Host(p)]
      BY <2>1, ProxyConstants DEF FullInv, ProxyInv
    <2> QED
      BY <1>1, <1>2, <1>6, <2>1, <2>2 DEF Past, SessionId
  <1>11. Marks(p, l)
    BY <1>2, <1>3, <1>10 DEF Marks
  <1>12. Hands(p, l)
    BY <1>1, <1>3, <1>4 DEF Hands
  <1>13. Sound(p, l, routes', minted', execs', h', epoch')
    <2>1. e.session[1] = Host(p)
      BY <1>1, <1>2 DEF SessionId
    <2>2. Faithful(r, execs')
      BY <1>6, <1>7, FaithfulCarries
    <2> QED
      BY <1>1, <1>2, <1>3, <1>4, <1>6, <2>1, <2>2 DEF Sound, Holding
  <1> QED
    BY <1>1, <1>4, <1>5, <1>9, <1>11, <1>12, <1>13 DEF HandlerActs

-----------------------------------------------------------------------------
(* Answers, binds and cancels: steps that mark one execution.              *)

\* Execution n is marked, and nothing else of the executions changes.
Marked(n, e) ==
    /\ DOMAIN execs' = DOMAIN execs /\ execs'[n] = e
    /\ \A u \in DOMAIN execs : u # n => execs'[u] = execs[u]
    /\ e.route = execs[n].route /\ e.session = execs[n].session
    /\ e.owner = execs[n].owner

LEMMA MarkedAcked ==
    ASSUME execs \in Seq(Execution), NEW n \in DOMAIN execs, NEW v,
           execs' = [execs EXCEPT ![n].acked = v]
    PROVE  \E e : /\ Marked(n, e)
                  /\ e.status = execs[n].status /\ e.bound = execs[n].bound
                  /\ e.cancel = execs[n].cancel /\ e.acked = v
  <1>1. PICK e : e = [execs[n] EXCEPT !.acked = v]
    OBVIOUS
  <1>2. execs' = [execs EXCEPT ![n] = e]
    BY <1>1
  <1>3. /\ e.route = execs[n].route /\ e.session = execs[n].session
        /\ e.owner = execs[n].owner
        /\ e.status = execs[n].status /\ e.bound = execs[n].bound
        /\ e.cancel = execs[n].cancel /\ e.acked = v
    BY <1>1 DEF Execution
  <1>4. Marked(n, e)
    BY <1>2, <1>3 DEF Marked
  <1> QED
    BY <1>3, <1>4

CancelMark(n, v) == execs' = [execs EXCEPT ![n].cancel = v]

LEMMA MarkedCancel ==
    ASSUME execs \in Seq(Execution), NEW n \in DOMAIN execs, NEW v, CancelMark(n, v)
    PROVE  \E e : /\ Marked(n, e)
                  /\ e.status = execs[n].status /\ e.bound = execs[n].bound
                  /\ e.cancel = v /\ e.acked = execs[n].acked
  <1>1. PICK e : e = [execs[n] EXCEPT !.cancel = v]
    OBVIOUS
  <1>2. execs' = [execs EXCEPT ![n] = e]
    BY <1>1 DEF CancelMark
  <1>3. /\ e.route = execs[n].route /\ e.session = execs[n].session
        /\ e.owner = execs[n].owner
        /\ e.status = execs[n].status /\ e.bound = execs[n].bound
        /\ e.cancel = v /\ e.acked = execs[n].acked
    BY <1>1 DEF Execution
  <1>4. Marked(n, e)
    BY <1>2, <1>3 DEF Marked
  <1> QED
    BY <1>3, <1>4

LEMMA MarkedBound ==
    ASSUME execs \in Seq(Execution), NEW n \in DOMAIN execs, NEW v,
           execs' = [execs EXCEPT ![n].bound = v]
    PROVE  \E e : /\ Marked(n, e)
                  /\ e.status = execs[n].status /\ e.bound = v
                  /\ e.cancel = execs[n].cancel /\ e.acked = execs[n].acked
  <1>1. PICK e : e = [execs[n] EXCEPT !.bound = v]
    OBVIOUS
  <1>2. execs' = [execs EXCEPT ![n] = e]
    BY <1>1
  <1>3. /\ e.route = execs[n].route /\ e.session = execs[n].session
        /\ e.owner = execs[n].owner
        /\ e.status = execs[n].status /\ e.bound = v
        /\ e.cancel = execs[n].cancel /\ e.acked = execs[n].acked
    BY <1>1 DEF Execution
  <1>4. Marked(n, e)
    BY <1>2, <1>3 DEF Marked
  <1> QED
    BY <1>3, <1>4

\* A cancel is not taken back, and tried only of an execution that is bound to no
\* route, or of the route's own under its intent.
CancelsOwn(p, n, e) ==
    /\ execs[n].cancel # "none" => e.cancel # "none"
    /\ e.cancel # "none" =>
          \/ execs[n].cancel # "none" \/ ~execs[n].bound
          \/ h[p].pc \in {"cancel", "retry"} /\ n = h[p].rec.upstream

\* The handler may mark the execution it holds, one that is bound, or one that is
\* not its own but keeps its marks.
LEMMA MarkActs ==
    ASSUME FullInv, NEW p \in Handlers, StoreUnchanged, HostsUnchanged,
           NEW l, Become(p, l), NEW n \in DOMAIN execs, NEW e, Marked(n, e),
           execs[n].bound => e.bound, CancelsOwn(p, n, e),
           execs[n].status \in TerminalStatus => e.status = execs[n].status,
           \/ e.bound = execs[n].bound /\ e.cancel = execs[n].cancel
           \/ h[p].pc \in Holding /\ n = h[p].uid
           \/ execs[n].bound,
           e.acked => execs[n].acked \/ (l.pc = "bind" /\ l.uid = n),
           l.pc \notin {"cutoff", "send"}, Hands(p, l),
           Sound(p, l, routes, minted, execs', h', epoch)
    PROVE  HandlerActs(p)
  <1>1. /\ routes' = routes /\ minted' = minted /\ epoch' = epoch /\ session' = session
        /\ h' = [h EXCEPT ![p] = l] /\ minted \in Nat
    BY ProxyConstants DEF StoreUnchanged, HostsUnchanged, Become, FullInv, ProxyInv
  <1>2. RoutesFollow /\ RowsUpdated
    BY <1>1, RoutesStill
  <1>3. \A u \in DOMAIN execs : u = n \/ execs'[u] = execs[u]
    BY DEF Marked
  <1>4. ExecsFollow
    BY <1>3 DEF ExecsFollow, Continues, Marked, CancelsOwn
  <1>5. Marks(p, l)
    BY <1>3 DEF Marks, Marked, CancelsOwn
  <1>6. ClaimsFollow
    BY <1>1, NoNewSend DEF FullInv, Marked
  <1>7. Orderly
    BY <1>1, <1>2, <1>4, <1>6 DEF Orderly
  <1>8. Sound(p, l, routes', minted', execs', h', epoch')
    BY <1>1
  <1> QED
    BY <1>1, <1>2, <1>5, <1>7, <1>8 DEF HandlerActs

\* A copy is as faithful after a mark.
LEMMA MarkedFaithful ==
    ASSUME NEW n, NEW e, Marked(n, e), execs[n].bound => e.bound,
           NEW r, Faithful(r, execs)
    PROVE  Faithful(r, execs')
  BY DEF Marked, Faithful

\* What a handler that holds an execution knows of it.
LEMMA Holder ==
    ASSUME FullInv, NEW p \in Handlers, h[p].pc \in Holding
    PROVE  /\ h[p].uid \in DOMAIN execs /\ execs[h[p].uid] \in Execution
           /\ h[p].rec \in Record /\ execs \in Seq(Execution)
           /\ Copy(h[p].rec, routes, minted) /\ Faithful(h[p].rec, execs)
           /\ execs[h[p].uid].route = h[p].rec.id
           /\ execs[h[p].uid].session = h[p].rec.session
           /\ execs[h[p].uid].session[1] = Host(p)
           /\ ~execs[h[p].uid].bound
           /\ h[p].pc \in {"await", "bind"} => execs[h[p].uid].cancel = "none"
  <1>1. execs \in Seq(Execution)
    BY DEF FullInv, ProxyInv
  <1> QED
    BY <1>1, CopyHeld DEF Sound

\* A created task: acknowledged, and still held.
LEMMA ResponseTaskActs ==
    ASSUME FullInv, NEW p \in Handlers, ResponseTask(p)
    PROVE  HandlerActs(p)
  <1> DEFINE n == h[p].uid
             bind(v) == [Loop(p, "bind", h[p].rec) EXCEPT !.note = v, !.uid = n]
  <1>1. /\ h[p].pc = "await" /\ h[p].pc \in Holding
        /\ execs' = [execs EXCEPT ![n].acked = TRUE]
        /\ StoreUnchanged /\ HostsUnchanged
    BY DEF ResponseTask, Holding
  <1>2. \E v : Become(p, bind(v))
    BY DEF ResponseTask
  <1>3. \A v : bind(v).pc = "bind" /\ bind(v).rec = h[p].rec /\ bind(v).uid = n
    BY Built
  <1>4. /\ n \in DOMAIN execs /\ execs \in Seq(Execution)
        /\ Copy(h[p].rec, routes, minted) /\ Faithful(h[p].rec, execs)
        /\ execs[n].route = h[p].rec.id /\ execs[n].session = h[p].rec.session
        /\ execs[n].session[1] = Host(p) /\ ~execs[n].bound /\ execs[n].cancel = "none"
    BY <1>1, Holder
  <1>5. n = h[p].uid
    OBVIOUS
  <1> HIDE DEF bind, n
  <1>6. PICK l : Become(p, l) /\ l.pc = "bind" /\ l.rec = h[p].rec /\ l.uid = n
    BY <1>2, <1>3
  <1>7. PICK e : /\ Marked(n, e) /\ e.status = execs[n].status /\ e.bound = execs[n].bound
                 /\ e.cancel = execs[n].cancel /\ e.acked = TRUE
    BY <1>1, <1>4, MarkedAcked
  <1>8. Hands(p, l)
    BY <1>1, <1>5, <1>6 DEF Hands
  <1>9. Faithful(h[p].rec, execs')
    BY <1>4, <1>7, MarkedFaithful
  <1>10. Sound(p, l, routes, minted, execs', h', epoch)
    BY <1>4, <1>6, <1>7, <1>9 DEF Sound, Holding, Marked
  <1>11. CancelsOwn(p, n, e)
    BY <1>7 DEF CancelsOwn
  <1> QED
    BY <1>1, <1>4, <1>5, <1>6, <1>7, <1>8, <1>10, <1>11, MarkActs

\* A created task that cannot be stored: cancelled by the handler that held it.
LEMMA ResponseBadIdActs ==
    ASSUME FullInv, NEW p \in Handlers, ResponseBadId(p)
    PROVE  HandlerActs(p)
  <1> DEFINE n == h[p].uid
  <1>1. /\ h[p].pc = "await" /\ h[p].pc \in Holding /\ StoreUnchanged /\ HostsUnchanged
    BY DEF ResponseBadId, Holding
  <1>2. PICK w \in {"tried", "sent"} : CancelMark(n, w)
    BY TryCancelMarks DEF ResponseBadId, CancelMark
  <1>3. PICK l : Become(p, l) /\ l.pc = "mark" /\ l.rec = h[p].rec
    BY Built DEF ResponseBadId
  <1>4. /\ n \in DOMAIN execs /\ execs \in Seq(Execution) /\ ~execs[n].bound
        /\ Copy(h[p].rec, routes, minted) /\ Faithful(h[p].rec, execs)
    BY <1>1, Holder
  <1>0. n = h[p].uid
    OBVIOUS
  <1> HIDE DEF n
  <1>5. PICK e : /\ Marked(n, e) /\ e.status = execs[n].status /\ e.bound = execs[n].bound
                 /\ e.cancel = w /\ e.acked = execs[n].acked
    BY <1>2, <1>4, MarkedCancel
  <1>6. Hands(p, l)
    BY <1>1, <1>3 DEF Hands, Holding
  <1>7. Faithful(h[p].rec, execs')
    BY <1>4, <1>5, MarkedFaithful
  <1>8. Sound(p, l, routes, minted, execs', h', epoch) /\ l.pc \notin {"cutoff", "send"}
    BY <1>3, <1>4, <1>7, EasySound DEF Easy
  <1>9. /\ execs[n].bound => e.bound
        /\ CancelsOwn(p, n, e)
        /\ e.acked => execs[n].acked
    BY <1>2, <1>4, <1>5 DEF CancelsOwn
  <1> QED
    BY <1>0, <1>1, <1>3, <1>4, <1>5, <1>6, <1>8, <1>9, MarkActs

\* A complete result vouches for the verdict that is made of it.
LEMMA ResponseCompleteActs ==
    ASSUME FullInv, NEW p \in Handlers, ResponseComplete(p)
    PROVE  HandlerActs(p)
  <1> DEFINE n == h[p].uid
             finish(v) == [Loop(p, "finish", h[p].rec) EXCEPT !.note = v]
  <1>1. /\ h[p].pc = "await" /\ h[p].pc \in Holding
        /\ execs' = [execs EXCEPT ![n].status = "completed"]
        /\ execs[n].status \in {"working", "completed"}
        /\ StoreUnchanged /\ HostsUnchanged
    BY DEF ResponseComplete, Holding
  <1>2. \E v \in {"completed", "rejected"} : Become(p, finish(v))
    BY DEF ResponseComplete
  <1>3. \A v : finish(v).pc = "finish" /\ finish(v).rec = h[p].rec /\ finish(v).note = v
    BY Built
  <1>4. /\ n \in DOMAIN execs /\ execs \in Seq(Execution) /\ ~execs[n].bound
        /\ execs[n].route = h[p].rec.id
        /\ Copy(h[p].rec, routes, minted) /\ Faithful(h[p].rec, execs)
    BY <1>1, Holder
  <1>0. n = h[p].uid
    OBVIOUS
  <1> HIDE DEF finish, n
  <1>5. PICK l : /\ Become(p, l) /\ l.pc = "finish" /\ l.rec = h[p].rec
                 /\ l.note \in {"completed", "rejected"}
    BY <1>2, <1>3
  <1>6. PICK e : /\ Marked(n, e) /\ e.status = "completed" /\ e.bound = execs[n].bound
                 /\ e.cancel = execs[n].cancel /\ e.acked = execs[n].acked
    <2>1. PICK e : e = [execs[n] EXCEPT !.status = "completed"]
      OBVIOUS
    <2>2. execs' = [execs EXCEPT ![n] = e]
      BY <1>1, <2>1
    <2>3. /\ e.route = execs[n].route /\ e.session = execs[n].session
          /\ e.owner = execs[n].owner
          /\ e.status = "completed" /\ e.bound = execs[n].bound
          /\ e.cancel = execs[n].cancel /\ e.acked = execs[n].acked
      BY <1>4, <2>1 DEF Execution
    <2>4. Marked(n, e)
      BY <1>4, <2>2, <2>3 DEF Marked
    <2> QED
      BY <2>3, <2>4
  <1>7. Hands(p, l)
    BY <1>1, <1>5 DEF Hands, Holding
  <1>8. Vouched(l.rec.id, l.note, execs') /\ Faithful(h[p].rec, execs')
    BY <1>4, <1>5, <1>6, MarkedFaithful DEF Vouched, Marked, TerminalStatus
  <1>9. Sound(p, l, routes, minted, execs', h', epoch)
    BY <1>4, <1>5, <1>8 DEF Sound, Holding
  <1>10. execs[n].status \in TerminalStatus => e.status = execs[n].status
    BY <1>1, <1>6 DEF TerminalStatus
  <1>11. /\ execs[n].bound => e.bound
         /\ CancelsOwn(p, n, e)
         /\ e.acked => execs[n].acked
         /\ l.pc \notin {"cutoff", "send"}
    BY <1>5, <1>6 DEF CancelsOwn
  <1> QED
    BY <1>0, <1>1, <1>4, <1>5, <1>6, <1>7, <1>9, <1>10, <1>11, MarkActs

\* The bind: the route's upstream task becomes the one this handler created for
\* it, which nobody has cancelled.
LEMMA BindUpstreamTaskActs ==
    ASSUME FullInv, RoutesFollow, NEW p \in Handlers, BindUpstreamTask(p)
    PROVE  HandlerActs(p)
  <1> DEFINE r == h[p].rec
             n == h[p].uid
             u == BindUpdate(p)
             s == Successor(r, u)
  <1>1. /\ h[p].pc = "bind" /\ h[p].pc \in Holding /\ h[p].pc \in WithRecord
        /\ Cas(p, u) /\ CasOk(p, u) /\ HostsUnchanged /\ r.upstream = None
        /\ execs' = [execs EXCEPT ![n].bound = TRUE]
    BY RecordPlaces DEF BindUpstreamTask, Bindable, Holding
  <1>2. /\ n \in DOMAIN execs /\ execs \in Seq(Execution) /\ r \in Record
        /\ execs[n].route = r.id /\ execs[n].session = r.session
        /\ execs[n].cancel = "none" /\ n \in Nat
    BY <1>1, Holder
  <1>3. u \in Updates /\ u.upstream = n /\ u.cached = None
    BY <1>2, ProxyUpdates, UpdateFields DEF BindUpdate
  <1>4. PICK l : /\ h' = [h EXCEPT ![p] = l] /\ l.pc \in {"intent", "idle"}
                 /\ l.pc = "intent" => l.rec = s
    <2>1. Become(p, Loop(p, "intent", s)) \/ Become(p, Idle)
      BY DEF BindUpstreamTask
    <2> HIDE DEF s
    <2> QED
      BY <2>1, Built DEF Become
  <1>5. /\ minted' = minted /\ epoch' = epoch /\ session' = session /\ minted \in Nat
    BY <1>1, ProxyConstants DEF HostsUnchanged, FullInv, ProxyInv
  <1>6. /\ s.id = r.id /\ s.session = r.session /\ s.upstream = n /\ s.cached = None
        /\ Copy(s, routes', minted')
    BY <1>1, <1>2, <1>3, <1>5, SuccessorFields, SuccessorCopied
  <1>7. /\ DOMAIN routes' = DOMAIN routes /\ routes'[r.id] = s
        /\ \A id \in DOMAIN routes : id # r.id => routes'[id] = routes[id]
    BY <1>1, <1>3, CasMeets
  <1> HIDE DEF s, u
  <1>8. PICK e : /\ Marked(n, e) /\ e.status = execs[n].status /\ e.bound = TRUE
                 /\ e.cancel = execs[n].cancel /\ e.acked = execs[n].acked
    <2>1. PICK e : e = [execs[n] EXCEPT !.bound = TRUE]
      OBVIOUS
    <2>2. execs' = [execs EXCEPT ![n] = e]
      BY <1>1, <2>1
    <2>3. /\ e.route = execs[n].route /\ e.session = execs[n].session
          /\ e.owner = execs[n].owner
          /\ e.status = execs[n].status /\ e.bound = TRUE
          /\ e.cancel = execs[n].cancel /\ e.acked = execs[n].acked
      BY <1>2, <2>1 DEF Execution
    <2>4. Marked(n, e)
      BY <1>2, <2>2, <2>3 DEF Marked
    <2> QED
      BY <2>3, <2>4
  <1>9. \A v \in DOMAIN execs : v = n \/ execs'[v] = execs[v]
    BY <1>8 DEF Marked
  <1>10. ExecsFollow
    BY <1>8, <1>9 DEF ExecsFollow, Continues, Marked
  <1>11. ClaimsFollow
    BY <1>4, <1>8, NoNewSend DEF FullInv, Marked
  <1>12. Orderly
    BY <1>5, <1>10, <1>11 DEF Orderly
  <1>13. Marks(p, l)
    BY <1>1, <1>2, <1>8, <1>9 DEF Marks, Marked
  <1>14. Hands(p, l)
    BY <1>1, <1>4, <1>8 DEF Hands, Holding, Marked
  <1>15. Faithful(s, execs')
    BY <1>2, <1>6, <1>8 DEF Faithful, Marked
  <1>16. RowSound(s, routes', minted', execs', h')
    BY <1>2, <1>6, <1>8, <1>15, NoneIsNoValue, ProxyConstants DEF RowSound, Marked
  <1>17. RowsUpdated
    BY <1>7, <1>16 DEF RowsUpdated
  <1>18. Sound(p, l, routes', minted', execs', h', epoch')
    BY <1>4, <1>6, <1>15, EasySound DEF Easy, WithRecord
  <1> QED
    BY <1>4, <1>5, <1>12, <1>13, <1>14, <1>17, <1>18 DEF HandlerActs

\* A cancel of the route's own upstream task is tried under its intent, or one of the
\* task that the handler holds.
LEMMA CancelsAct ==
    ASSUME FullInv, NEW p \in Handlers,
           CancelUpstream(p) \/ CancelOrphan(p) \/ RetryCancel(p)
    PROVE  HandlerActs(p)
  <1> DEFINE own == h[p].pc \in {"cancel", "retry"}
             n == IF own THEN h[p].rec.upstream ELSE h[p].uid
  <1>1. /\ h[p].pc \in {"cancel", "orphan", "retry"} /\ StoreUnchanged /\ HostsUnchanged
        /\ h[p].pc \in WithRecord /\ TryCancel(p, n)
    BY RecordPlaces DEF CancelUpstream, CancelOrphan, RetryCancel
  <1>2. /\ Copy(h[p].rec, routes, minted) /\ Faithful(h[p].rec, execs)
        /\ execs \in Seq(Execution)
        /\ own => h[p].rec.upstream # None
        /\ h[p].pc = "orphan" => h[p].pc \in Holding
    BY <1>1, CopyHeld, HandlerFacts DEF FullInv, ProxyInv, LocalOK, Holding
  <1>3. n \in DOMAIN execs /\ (own => execs[n].bound)
    BY <1>1, <1>2, CopyHeld DEF Faithful
  <1>4. PICK l : /\ Become(p, l) /\ l.pc \in {"idle", "poll"}
                 /\ l.pc = "poll" => l.rec = h[p].rec /\ own
    <2>1. CASE Become(p, Idle)
      BY <2>1, Built
    <2>2. CASE RetryCancel(p)
      <3> DEFINE m == [h[p] EXCEPT !.pc = "poll"]
      <3>1. m.pc = "poll" /\ m.rec = h[p].rec
        BY HandlerFacts DEF Locals, FullInv
      <3>2. Become(p, m) /\ own
        BY <2>2 DEF RetryCancel, Goto
      <3> HIDE DEF m
      <3> QED
        BY <3>1, <3>2
    <2> QED
      BY <2>1, <2>2 DEF CancelUpstream, CancelOrphan, Return
  <1>5. l.pc \in Easy /\ l.pc # "nondispatch" /\ l.pc \notin Holding
    BY <1>4 DEF Easy, Holding
  <1>6. n = IF own THEN h[p].rec.upstream ELSE h[p].uid
    OBVIOUS
  <1> HIDE DEF n
  <1>7. PICK w \in {"tried", "sent"} : CancelMark(n, w)
    BY <1>1, TryCancelMarks DEF CancelMark
  <1>8. PICK e : /\ Marked(n, e) /\ e.status = execs[n].status
                 /\ e.bound = execs[n].bound
                 /\ e.cancel = w /\ e.acked = execs[n].acked
    BY <1>2, <1>3, <1>7, MarkedCancel
  <1>9. Faithful(h[p].rec, execs')
    BY <1>2, <1>8, MarkedFaithful
  <1>10. Sound(p, l, routes, minted, execs', h', epoch)
    BY <1>2, <1>4, <1>5, <1>9, EasySound DEF WithRecord
  <1>11. h[p].pc = "orphan" => h[p].pc \in Holding /\ n = h[p].uid
    BY <1>2, <1>6
  <1>12. Hands(p, l)
    BY <1>1, <1>5, <1>7, <1>8, <1>11 DEF Hands, Marked
  <1>13. \/ e.bound = execs[n].bound /\ e.cancel = execs[n].cancel
         \/ h[p].pc \in Holding /\ n = h[p].uid
         \/ execs[n].bound
    BY <1>1, <1>3, <1>11
  <1>14. \/ ~execs[n].bound
         \/ h[p].pc \in {"cancel", "retry"} /\ n = h[p].rec.upstream
    <2>1. CASE own
      BY <1>6, <2>1
    <2>2. CASE ~own
      <3>1. h[p].pc = "orphan"
        BY <1>1, <2>2
      <3> QED
        BY <1>11, <3>1, Holder
    <2> QED
      BY <2>1, <2>2
  <1>15. /\ execs[n].bound => e.bound
         /\ CancelsOwn(p, n, e)
         /\ e.acked => execs[n].acked
         /\ l.pc \notin {"cutoff", "send"}
    BY <1>4, <1>7, <1>8, <1>14 DEF CancelsOwn
  <1> QED
    BY <1>1, <1>3, <1>4, <1>8, <1>10, <1>12, <1>13, <1>14, <1>15, MarkActs

LEMMA EveryHandlerActs ==
    ASSUME FullInv, RoutesFollow, NEW p \in Handlers,
           Request(p) \/ ReadRoute(p) \/ HandlerStep(p)
    PROVE  HandlerActs(p)
  <1>1. CASE Request(p)
    BY <1>1, SubmitModeActs, RequestTaskActs DEF Request
  <1>2. CASE ReadRoute(p)
    BY <1>2, EasySteps
  <1>3. CASE HandlerStep(p)
    <2> USE <1>3
    <2>1. CASE Recover(p) \/ Recheck(p) \/ Existing(p) \/ DispatchRefused(p)
               \/ ResponseAmbiguous(p) \/ PollFails(p)
      BY <2>1, EasySteps
    <2>2. CASE Begin(p) \/ ClaimDispatch(p) \/ CheckCutoff(p) \/ Dispatch(p)
      BY <2>2, BeginActs, ClaimDispatchActs, CheckCutoffActs, DispatchActs
    <2>3. CASE ResponseTask(p) \/ ResponseBadId(p) \/ ResponseComplete(p)
      BY <2>3, ResponseTaskActs, ResponseBadIdActs, ResponseCompleteActs
    <2>4. CASE BindUpstreamTask(p) \/ BindStale(p) \/ BindFails(p)
      BY <2>4, BindUpstreamTaskActs, BindRetryActs
    <2>5. CASE MarkReconciliationRequired(p) \/ FinishTerminal(p)
               \/ PersistCancellationIntent(p) \/ FinishNonDispatchOnce(p)
      BY <2>5, UpdatesAct
    <2>6. CASE CancelUpstream(p) \/ CancelOrphan(p) \/ RetryCancel(p)
      BY <2>6, CancelsAct
    <2>7. CASE Decide(p) \/ PollUpstream(p) \/ Polled(p) \/ Reroute(p)
      BY <2>7, DecideActs, PollUpstreamActs, PolledActs, RerouteActs
    <2> QED
      BY <2>1, <2>2, <2>3, <2>4, <2>5, <2>6, <2>7 DEF HandlerStep
  <1> QED
    BY <1>1, <1>2, <1>3

-----------------------------------------------------------------------------
(* The environment.                                                        *)

\* A step that moves no handler's claim forward, sends nothing and marks nothing:
\* handlers go on or are lost with their instance.
Outside ==
    /\ UNCHANGED <<routes, minted>>
    /\ DOMAIN execs' = DOMAIN execs
    /\ \A u \in DOMAIN execs :
          /\ Continues(execs[u], execs'[u])
          /\ execs'[u].bound = execs[u].bound
          /\ execs'[u].cancel = execs[u].cancel
          /\ execs'[u].acked = execs[u].acked
    /\ \A q \in Handlers :
          \/ h'[q] = h[q] /\ epoch'[Host(q)] = epoch[Host(q)]
          \/ h'[q] = Idle /\ epoch'[Host(q)] > epoch[Host(q)]
    /\ \A i \in Instances : epoch[i] <= epoch'[i] /\ session[i] <= session'[i]

LEMMA OutsideKeeps ==
    ASSUME FullInv, ProxyInv', Outside
    PROVE  OutcomeInv'
  <1>1. /\ routes' = routes /\ minted' = minted /\ minted \in Nat
        /\ epoch \in [Instances -> Nat] /\ epoch' \in [Instances -> Nat]
        /\ session \in [Instances -> Nat] /\ session' \in [Instances -> Nat]
        /\ DOMAIN execs' = DOMAIN execs
    BY ProxyConstants DEF Outside, FullInv, ProxyInv
  <1>2. RoutesFollow /\ ExecsFollow
    BY <1>1, RoutesStill DEF Outside, ExecsFollow
  <1>3. ClaimsFollow
    BY <1>1, IdleSound DEF Outside, ClaimsFollow, Claimed
  <1>4. Orderly
    BY <1>1, <1>2, <1>3 DEF Orderly
  <1>5. HandlersSound'
    <2>1. ASSUME NEW q \in Handlers
          PROVE  Sound(q, h'[q], routes', minted', execs', h', epoch')
      <3>1. CASE h'[q] = Idle
        BY <3>1, IdleSound
      <3>2. CASE h'[q] = h[q] /\ epoch'[Host(q)] = epoch[Host(q)]
        <4>1. /\ Sound(q, h[q], routes, minted, execs, h, epoch)
              /\ h[q].pc \in Holding =>
                    /\ execs'[h[q].uid].bound = execs[h[q].uid].bound
                    /\ execs'[h[q].uid].cancel = execs[h[q].uid].cancel
          BY CopyHeld DEF Outside
        <4>2. Sound(q, h[q], routes', minted', execs', h', epoch')
          BY <1>4, <3>2, <4>1, SoundCarries DEF FullInv
        <4> QED
          BY <3>2, <4>2
      <3> QED
        BY <3>1, <3>2 DEF Outside
    <2> QED
      BY <2>1 DEF HandlersSound, Sound, Copy, Faithful, Silent, Vouched, Host
  <1>6. RowsSound'
    <2>1. ASSUME NEW id \in DOMAIN routes
          PROVE  RowSound(routes[id], routes', minted', execs', h')
      <3>1. /\ Faithful(routes[id], execs)
            /\ RowSound(routes[id], routes, minted, execs, h)
        BY CopyStored
      <3>2. routes[id].upstream # None =>
               execs'[routes[id].upstream].cancel = execs[routes[id].upstream].cancel
        BY <3>1 DEF Faithful, Outside
      <3> QED
        BY <1>4, <3>1, <3>2, RowCarries
    <2> QED
      BY <1>1, <2>1 DEF RowsSound, RowSound, Faithful, Silent, Vouched
  <1>7. HeldOnce'
    BY IdleSound DEF Outside, FullInv, OutcomeInv, HeldOnce, Holding
  <1>8. ExecsPast'
    <2>1. ASSUME NEW u \in DOMAIN execs'
          PROVE  Past(execs'[u], epoch', session')
      <3>1. /\ Past(execs[u], epoch, session)
            /\ execs'[u].session = execs[u].session /\ execs'[u].owner = execs[u].owner
        BY <1>1, <2>1 DEF FullInv, OutcomeInv, ExecsPast, Outside, Continues
      <3>2. \A i \in Instances : /\ 0 .. session[i] \subseteq 0 .. session'[i]
                                 /\ 0 .. epoch[i] \subseteq 0 .. epoch'[i]
        BY <1>1 DEF Outside
      <3> QED
        BY <3>1, <3>2 DEF Past
    <2> QED
      BY <2>1 DEF ExecsPast, Past
  <1>9. AcknowledgedTaskTracked'
    <2> SUFFICES ASSUME NEW u \in DOMAIN execs', execs'[u].acked,
                        ~execs'[u].bound, execs'[u].cancel = "none",
                        execs'[u].owner = <<execs'[u].session[1],
                                            epoch'[execs'[u].session[1]]>>
                 PROVE  \E q \in Handlers : h'[q].pc \in {"bind", "orphan"} /\ h'[q].uid = u
      BY DEF AcknowledgedTaskTracked, InstanceId
    <2> DEFINE i == execs[u].session[1]
    <2>1. /\ u \in DOMAIN execs /\ execs[u].acked /\ ~execs[u].bound
          /\ execs[u].cancel = "none"
          /\ execs[u].owner = <<i, epoch'[i]>>
      BY <1>1 DEF Outside, Continues
    <2>2. \E j \in Instances : \E n \in 0 .. epoch[j] : execs[u].owner = <<j, n>>
      BY <2>1 DEF FullInv, OutcomeInv, ExecsPast, Past
    <2> HIDE DEF i
    <2>3. i \in Instances /\ epoch'[i] \in 0 .. epoch[i]
      BY <2>1, <2>2
    <2>4. epoch'[i] = epoch[i]
      BY <1>1, <2>3 DEF Outside
    <2>5. PICK q \in Handlers : h[q].pc \in {"bind", "orphan"} /\ h[q].uid = u
      BY <2>1, <2>4 DEF FullInv, OutcomeInv, AcknowledgedTaskTracked, InstanceId, i
    <2>6. Host(q) = i
      BY <2>5, CopyHeld DEF Sound, Holding, i
    <2>7. h'[q] = h[q]
      <3>1. ~(epoch'[Host(q)] > epoch[Host(q)])
        BY <1>1, <2>3, <2>4, <2>6
      <3> QED
        BY <3>1 DEF Outside
    <2> QED
      BY <2>5, <2>7
  <1> QED
    BY <1>5, <1>6, <1>7, <1>8, <1>9 DEF OutcomeInv

LEMMA EnvironmentOutside ==
    ASSUME FullInv, Environment \/ UNCHANGED vars
    PROVE  Outside
  <1>1. /\ epoch \in [Instances -> Nat] /\ session \in [Instances -> Nat]
        /\ execs \in Seq(Execution)
        /\ \A q \in Handlers : Host(q) \in Instances
    BY ProxyConstants DEF FullInv, ProxyInv, Host
  <1>2. \A e : Continues(e, e)
    BY DEF Continues
  <1>3. CASE UNCHANGED <<routes, minted, epoch, session, h, execs>>
    BY <1>1, <1>2, <1>3 DEF Outside
  <1>4. ASSUME NEW u \in DOMAIN execs, UpstreamSettles(u)
        PROVE  Outside
    <2>1. /\ UNCHANGED <<routes, minted, epoch, session, h>>
          /\ execs[u].status \notin TerminalStatus
      BY <1>4 DEF UpstreamSettles, TerminalStatus
    <2>2. PICK status : execs' = [execs EXCEPT ![u].status = status]
      BY <1>4 DEF UpstreamSettles
    <2>3. PICK e : e = [execs[u] EXCEPT !.status = status]
      OBVIOUS
    <2>4. /\ DOMAIN execs' = DOMAIN execs /\ execs'[u] = e
          /\ \A v \in DOMAIN execs : v = u \/ execs'[v] = execs[v]
      BY <1>1, <2>2, <2>3
    <2>5. /\ e.route = execs[u].route /\ e.session = execs[u].session
          /\ e.owner = execs[u].owner /\ e.acked = execs[u].acked
          /\ e.bound = execs[u].bound /\ e.cancel = execs[u].cancel
      BY <1>1, <2>3 DEF Execution
    <2>6. ASSUME NEW v \in DOMAIN execs
          PROVE  /\ Continues(execs[v], execs'[v])
                 /\ execs'[v].bound = execs[v].bound
                 /\ execs'[v].cancel = execs[v].cancel
                 /\ execs'[v].acked = execs[v].acked
      <3>1. CASE v = u
        BY <2>1, <2>4, <2>5, <3>1 DEF Continues
      <3>2. CASE v # u
        BY <1>2, <2>4, <3>2
      <3> QED
        BY <3>1, <3>2
    <2> QED
      BY <1>1, <2>1, <2>4, <2>6 DEF Outside
  <1>5. ASSUME NEW i \in Instances, Reconnect(i)
        PROVE  Outside
    <2>1. /\ UNCHANGED <<routes, minted, epoch, h, execs>>
          /\ session' = [session EXCEPT ![i] = @ + 1]
      BY <1>5 DEF Reconnect
    <2> QED
      BY <1>1, <1>2, <2>1 DEF Outside
  <1>6. ASSUME NEW i \in Instances, RouterReopen(i) \/ ProcessRestart(i)
        PROVE  Outside
    <2>1. /\ UNCHANGED <<routes, minted, execs>>
          /\ epoch' = [epoch EXCEPT ![i] = @ + 1]
          /\ session' = [session EXCEPT ![i] = @ + 1] \/ session' = session
          /\ \A q \in Handlers : h'[q] = IF Host(q) = i THEN Idle ELSE h[q]
      BY <1>6 DEF RouterReopen, ProcessRestart, HandlersLost
    <2>2. \A j \in Instances : epoch[j] <= epoch'[j] /\ session[j] <= session'[j]
      BY <1>1, <2>1
    <2>3. \A q \in Handlers : \/ h'[q] = h[q] /\ epoch'[Host(q)] = epoch[Host(q)]
                              \/ h'[q] = Idle /\ epoch'[Host(q)] > epoch[Host(q)]
      BY <1>1, <2>1
    <2> QED
      BY <1>2, <2>1, <2>2, <2>3 DEF Outside
  <1> QED
    BY <1>3, <1>4, <1>5, <1>6 DEF Environment, Tick, vars

-----------------------------------------------------------------------------
(* The invariant and the theorems.                                         *)

LEMMA InitOutcome == Init => OutcomeInv
  <1> SUFFICES ASSUME Init PROVE OutcomeInv
    OBVIOUS
  <1>1. /\ DOMAIN routes = {} /\ DOMAIN execs = {}
        /\ \A p \in Handlers : h[p] = Idle
    BY DEF Init, StoreInit
  <1>2. \A p \in Handlers : h[p].pc \notin Holding
    BY <1>1, IdleSound DEF Holding
  <1> QED
    BY <1>1, <1>2, IdleSound
    DEF OutcomeInv, HandlersSound, RowsSound, HeldOnce, ExecsPast, AcknowledgedTaskTracked

LEMMA StepKeepsOutcome ==
    ASSUME FullInv, [Next]_vars
    PROVE  OutcomeInv'
  <1>1. RoutesFollow /\ ProxyInv'
    BY StepFollows DEF FullInv
  <1>2. CASE Environment \/ UNCHANGED vars
    BY <1>1, <1>2, EnvironmentOutside, OutsideKeeps
  <1>3. ASSUME NEW p \in Handlers, Request(p) \/ ReadRoute(p) \/ HandlerStep(p)
        PROVE  OutcomeInv'
    BY <1>1, <1>3, EveryHandlerActs, ActsKeep
  <1> QED
    BY <1>2, <1>3 DEF Next

LEMMA OutcomeInvariance == Spec => []FullInv
  <1>1. Init => OutcomeInv
    BY InitOutcome
  <1>2. ProxyInv /\ KeyBoundOnce /\ DispatchInv /\ OutcomeInv /\ [Next]_vars => OutcomeInv'
    BY StepKeepsOutcome DEF FullInv
  <1> QED
    BY <1>1, <1>2, DispatchInvariance, PTL DEF Spec, FullInv

\* A cached verdict tells the truth about the upstream.  finish_non_dispatch_once
\* writes "not_dispatched" over a route that is still as it was when it was
\* prepared, or over a claim that its own handler has given up; an outcome is
\* written from the dispatch's answer or a poll of the route's own upstream task,
\* and stays true through whatever other handlers did since.
THEOREM VerdictsHonest == Spec => []VerdictHonest
  <1>1. FullInv => VerdictHonest
    <2> SUFFICES ASSUME FullInv, NEW id \in DOMAIN routes
                 PROVE  LET v == routes[id].cached IN
                        /\ v = "not_dispatched" => SentFor(id) = {}
                        /\ v = "rejected" =>
                              \E u \in SentFor(id) : execs[u].status \in TerminalStatus
                        /\ v \in TerminalStatus =>
                              \E u \in SentFor(id) : execs[u].status = v
      BY DEF VerdictHonest
    <2> DEFINE v == routes[id].cached
    <2>1. RowSound(routes[id], routes, minted, execs, h) /\ routes[id].id = id
      BY CopyStored
    <2>2. v = "not_dispatched" => \A u \in DOMAIN execs : execs[u].route # id
      BY <2>1 DEF RowSound, Silent
    <2>3. v \in TerminalStatus \cup {"rejected"} => Vouched(id, v, execs)
      BY <2>1, NoneIsNoValue, ProxyConstants DEF RowSound, TerminalStatus
    <2> QED
      BY <2>2, <2>3 DEF SentFor, Vouched
  <1> QED
    BY <1>1, OutcomeInvariance, PTL

\* bind_upstream_task binds a route to no upstream task but the one created for
\* it, on the session the route is fenced to, however many handlers, instances
\* and retries contend for the route.
THEOREM BindingsFaithful == Spec => []BindingFaithful
  <1>1. FullInv => BindingFaithful
    <2> SUFFICES ASSUME FullInv, NEW id \in DOMAIN routes, routes[id].upstream # None
                 PROVE  /\ routes[id].upstream \in SentFor(id)
                        /\ execs[routes[id].upstream].session = routes[id].session
                        /\ execs[routes[id].upstream].bound
      BY DEF BindingFaithful
    <2>1. Faithful(routes[id], execs) /\ routes[id].id = id
      BY CopyStored
    <2> QED
      BY <2>1 DEF Faithful, SentFor
  <1> QED
    BY <1>1, OutcomeInvariance, PTL

\* request_cancellation and poll_upstream ask the upstream to cancel a route's own
\* task only once the intent is durable; a handler that found its answer unusable
\* cancels only a task that is bound to no route.
THEOREM IntentsFirst == Spec => []IntentBeforeCancel
  <1>1. FullInv => IntentBeforeCancel
    BY CopyStored DEF IntentBeforeCancel, RowSound, Intended
  <1> QED
    BY <1>1, OutcomeInvariance, PTL

\* An acknowledged upstream task is bound, or its cancellation was tried, or it is
\* still in the hands of the handler that created it, as long as that handler's
\* process lives: no error path of bind_upstream_task forgets it.
THEOREM TasksTracked == Spec => []AcknowledgedTaskTracked
  <1>1. FullInv => AcknowledgedTaskTracked
    BY DEF FullInv, OutcomeInv
  <1> QED
    BY <1>1, OutcomeInvariance, PTL
=============================================================================
