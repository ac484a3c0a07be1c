------------------------------ MODULE Upstream ------------------------------
(***************************************************************************)
(* One source of the upstream runtime (outbound.rs): callers' requests     *)
(* over a connection that breaks, the restart that replaces it, and the    *)
(* shutdown that closes it.                                                *)
(*                                                                         *)
(* Connections are numbered in the order they are opened; 0 is none.  The  *)
(* session ID of a ManagedPeer is drawn when its connection is installed,  *)
(* so the connection's number stands for it.  Between two awaits nothing   *)
(* else of a caller happens; peer and service are touched only under       *)
(* restart_lock, whose holder never waits for them.                        *)
(***************************************************************************)
EXTENDS Naturals, FiniteSets

CONSTANTS
    Callers,        \* concurrent requests
    Shutdown,       \* the task that shuts the runtime down
    MaxRestarts,    \* the restart budget (2)
    MaxRequests     \* bound: requests a caller makes

\* What a source may rely on; MCUpstream assumes it.
UpstreamBounds ==
    /\ {MaxRestarts, MaxRequests} \subseteq Nat
    /\ Shutdown \notin Callers

VARIABLES
    serialize,  \* serialize_requests: whether the source takes one at a time
    peer,       \* [conn, gen]: the connection in use and its generation
    service,    \* the connection whose service is owned, or 0
    restarts,   \* budget spent
    restartLock, requestLock,   \* who holds them: a set of at most one
    down,       \* shutting_down
    stop,       \* where shutdown is
    req,        \* req[c]: the request of a caller
    made,       \* requests made by each caller
    broken,     \* connections whose transport failed
    foreign,    \* connections to a server whose manifest is not the pinned one
    open,       \* connections that were opened and not closed
    opened,     \* how many connections were attempted, the first included
    sent        \* what was sent: over which connection, meant for which session

source == <<serialize, peer, service, restarts>>
world == <<broken, foreign, open, opened>>
vars == <<source, restartLock, requestLock, down, stop, req, made, world, sent>>

NoRequest == [pc |-> "idle", meant |-> 0, conn |-> 0, gen |-> 0, new |-> 0]

Free(lock) == lock = {}

\* Mutant: the lock on requests is not released.
EndKeepsRequestLock(c) ==
    /\ req' = [req EXCEPT ![c] = NoRequest]
    /\ restartLock' = restartLock \ {c}
    /\ UNCHANGED requestLock

\* The request of c is over: the locks and connections it holds are dropped.
End(c) ==
    /\ req' = [req EXCEPT ![c] = NoRequest]
    /\ restartLock' = restartLock \ {c}
    /\ requestLock' = requestLock \ {c}

Step(c, place) == req' = [req EXCEPT ![c].pc = place]

-----------------------------------------------------------------------------
(* Requests                                                                *)

Enters(c, session) ==
    /\ req[c].pc = "idle" /\ made[c] < MaxRequests
    /\ req' = [req EXCEPT ![c] = [NoRequest EXCEPT !.pc = "select", !.meant = session]]
    /\ made' = [made EXCEPT ![c] = @ + 1]
    /\ UNCHANGED <<source, restartLock, requestLock, down, stop, world, sent>>

\* call_tool, read_resource, get_prompt: on whatever session there is.
BeginUnbound(c) == Enters(c, 0)

\* The requests of a durable task are bound to the session it was dispatched on.
BeginBound(c) == \E session \in 1 .. opened : Enters(c, session)

\* peer: selection waits for a restart under way; a bound request whose session is
\* gone is refused.
Select(c) ==
    /\ req[c].pc = "select" /\ Free(restartLock)
    /\ IF req[c].meant \notin {0, peer.conn}
       THEN End(c)
       ELSE /\ req' = [req EXCEPT ![c].pc = "send", ![c].conn = peer.conn,
                                  ![c].gen = peer.gen]
            /\ UNCHANGED <<restartLock, requestLock>>
    /\ UNCHANGED <<source, down, stop, made, world, sent>>

\* Mutant: the peer is looked up when the request is sent.
SendOnCurrent(c) ==
    /\ req[c].pc = "send"
    /\ serialize => Free(requestLock)
    /\ requestLock' = IF serialize THEN {c} ELSE requestLock
    /\ req' = [req EXCEPT ![c].pc = "sent", ![c].conn = peer.conn]
    /\ sent' = sent \cup {[meant |-> req[c].meant, conn |-> peer.conn]}
    /\ UNCHANGED <<source, restartLock, down, stop, made, world>>

\* Requests to a source that is not concurrency-safe queue up first.
Send(c) ==
    /\ req[c].pc = "send"
    /\ serialize => Free(requestLock)
    /\ requestLock' = IF serialize THEN {c} ELSE requestLock
    /\ Step(c, "sent")
    /\ sent' = sent \cup {[meant |-> req[c].meant, conn |-> req[c].conn]}
    /\ UNCHANGED <<source, restartLock, down, stop, made, world>>

\* classify_upstream_result: an answer, or an application error, is the end of it; a
\* transport failure or a timeout asks for a restart.
Answer(c) ==
    /\ req[c].pc = "sent"
    /\ \/ req[c].conn \in open \ broken /\ End(c)
       \/ Step(c, "failed") /\ UNCHANGED <<restartLock, requestLock>>
    /\ UNCHANGED <<source, down, stop, made, world, sent>>

\* The caller goes away or its own deadline passes; what it was opening is closed.
Drop(c) ==
    /\ req[c].pc # "idle"
    /\ End(c)
    /\ open' = open \ {req[c].new}
    /\ UNCHANGED <<source, down, stop, made, broken, foreign, opened, sent>>

-----------------------------------------------------------------------------
(* restart_after_failure                                                   *)

CheckDown(c) ==
    /\ req[c].pc = "failed"
    /\ IF down THEN End(c)
       ELSE Step(c, "restart") /\ UNCHANGED <<restartLock, requestLock>>
    /\ UNCHANGED <<source, down, stop, made, world, sent>>

\* Mutant: the budget is checked, but an attempt is not charged to it.
RestartUncharged(c) ==
    /\ req[c].pc = "restart" /\ Free(restartLock)
    /\ IF peer.gen # req[c].gen \/ restarts >= MaxRestarts
       THEN End(c)
       ELSE /\ restartLock' = {c}
            /\ Step(c, "connect")
            /\ UNCHANGED requestLock
    /\ UNCHANGED <<source, down, stop, made, world, sent>>

\* A restart made by someone else is enough; otherwise the budget is spent first.
Restart(c) ==
    /\ req[c].pc = "restart" /\ Free(restartLock)
    /\ IF peer.gen # req[c].gen \/ restarts >= MaxRestarts
       THEN End(c) /\ UNCHANGED restarts
       ELSE /\ restartLock' = {c}
            /\ restarts' = restarts + 1
            /\ Step(c, "connect")
            /\ UNCHANGED requestLock
    /\ UNCHANGED <<serialize, peer, service, down, stop, made, world, sent>>

\* connect_source: the transport is started, or the attempt fails.
Connect(c) ==
    /\ req[c].pc = "connect"
    /\ opened' = opened + 1
    /\ \/ /\ req' = [req EXCEPT ![c].pc = "verify", ![c].new = opened + 1]
          /\ open' = open \cup {opened + 1}
          /\ \E other \in SUBSET {opened + 1} : foreign' = foreign \cup other
          /\ UNCHANGED <<restartLock, requestLock>>
       \/ End(c) /\ UNCHANGED <<open, foreign>>
    /\ UNCHANGED <<source, down, stop, made, broken, sent>>

\* Discovery must answer with the manifest that the source was reviewed with.
Verify(c) ==
    LET new == req[c].new IN
    /\ req[c].pc = "verify"
    /\ \/ /\ new \notin foreign \cup broken
          /\ peer' = [conn |-> new, gen |-> req[c].gen + 1]
          /\ service' = new
          /\ req' = [req EXCEPT ![c].pc = "close", ![c].new = service]
          /\ UNCHANGED <<restartLock, requestLock, open>>
       \/ End(c) /\ open' = open \ {new} /\ UNCHANGED <<peer, service>>
    /\ UNCHANGED <<serialize, restarts, down, stop, made, broken, foreign, opened, sent>>

\* The old service is closed, or given up after five seconds; it is dropped either way.
CloseOld(c) ==
    /\ req[c].pc = "close"
    /\ open' = open \ {req[c].new}
    /\ End(c)
    /\ UNCHANGED <<source, down, stop, made, broken, foreign, opened, sent>>

-----------------------------------------------------------------------------
(* shutdown                                                                *)

BeginShutdown ==
    /\ stop = "running"
    /\ down' = TRUE
    /\ stop' = "stopping"
    /\ UNCHANGED <<source, restartLock, requestLock, req, made, world, sent>>

TakeService ==
    /\ stop = "stopping" /\ Free(restartLock)
    /\ IF service = 0 THEN stop' = "stopped" /\ UNCHANGED restartLock
       ELSE stop' = "closing" /\ restartLock' = {Shutdown}
    /\ UNCHANGED <<source, requestLock, down, req, made, world, sent>>

\* Taking the service and closing it end in success, or in an error after a timeout.
CloseService ==
    /\ stop = "closing"
    /\ open' = open \ {service}
    /\ service' = 0
    /\ restartLock' = {}
    /\ stop' \in {"stopped", "timed_out"}
    /\ UNCHANGED <<serialize, peer, restarts, requestLock, down, req, made, broken, foreign,
                   opened, sent>>

Breaks(conn) ==
    /\ conn \in open \ broken
    /\ broken' = broken \cup {conn}
    /\ UNCHANGED <<source, restartLock, requestLock, down, stop, req, made, foreign, open,
                   opened, sent>>

-----------------------------------------------------------------------------
\* connect_configured_sources: the first connection, verified, has generation 1.
Init ==
    /\ serialize \in BOOLEAN
    /\ peer = [conn |-> 1, gen |-> 1]
    /\ service = 1
    /\ restarts = 0
    /\ restartLock = {} /\ requestLock = {}
    /\ down = FALSE
    /\ stop = "running"
    /\ req = [c \in Callers |-> NoRequest]
    /\ made = [c \in Callers |-> 0]
    /\ broken = {} /\ foreign = {}
    /\ open = {1}
    /\ opened = 1
    /\ sent = {}

Proceed(c) ==
    \/ Select(c) \/ Send(c) \/ Answer(c) \/ CheckDown(c) \/ Restart(c)
    \/ Connect(c) \/ Verify(c) \/ CloseOld(c)

Next ==
    \/ \E c \in Callers : BeginUnbound(c) \/ BeginBound(c) \/ Proceed(c) \/ Drop(c)
    \/ BeginShutdown \/ TakeService \/ CloseService
    \/ \E conn \in open : Breaks(conn)

Spec == Init /\ [][Next]_vars

\* Every await of a request and of shutdown ends: a lock that comes free is handed on in
\* order, and what is sent, connected, discovered or closed has a timeout.
Fairness ==
    /\ \A c \in Callers :
          /\ WF_vars(Proceed(c))
          /\ SF_vars(Select(c)) /\ SF_vars(Send(c)) /\ SF_vars(Restart(c))
    /\ WF_vars(CloseService) /\ SF_vars(TakeService)

LiveSpec == Spec /\ Fairness

-----------------------------------------------------------------------------
\* A request that is bound to a session goes out on that session's connection or not at
\* all, and no request reaches a server that was not reviewed, whatever restarts between
\* the choice of the peer and the sending.
SentWhereBound ==
    \A m \in sent : m.meant \in {0, m.conn} /\ m.conn \notin foreign

\* However many requests fail together, and whoever gives up in the middle, no more
\* connections are attempted than the budget, and none is left without an owner.
RestartsBounded ==
    /\ opened <= 1 + MaxRestarts
    /\ open \subseteq {service} \cup {req[c].new : c \in Callers}
    /\ peer.gen <= 1 + restarts

\* Every request ends, and so does shutdown: no lock is left held or waited for.
RequestsEnd ==
    /\ \A c \in Callers : [](req[c].pc # "idle" => <>(req[c].pc = "idle"))
    /\ [](down => <>(stop \in {"stopped", "timed_out"}))

\* Once shutdown has reported success, no connection of the source is left.  Not kept, and
\* checked by no run: a restart past CheckDown installs its connection after that.
ShutdownCloses == stop = "stopped" /\ (\A c \in Callers : req[c].pc = "idle") => open = {}
=============================================================================
