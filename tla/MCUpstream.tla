----------------------------- MODULE MCUpstream -----------------------------
(***************************************************************************)
(* One source, a few callers.  The source is an instance, so that what is  *)
(* proved of it can stand beside what is proved of the pool of processes,  *)
(* which has states, steps and a specification of the same names.          *)
(***************************************************************************)
CONSTANTS Callers, Shutdown, MaxRestarts, MaxRequests

VARIABLES serialize, peer, service, restarts, restartLock, requestLock, down, stop, req,
          made, broken, foreign, open, opened, sent

Source == INSTANCE Upstream

ASSUME SourceBounds == Source!UpstreamBounds

SourceSpec == Source!LiveSpec

-----------------------------------------------------------------------------
\* Upstream: what is sent goes over the connection it is bound to, to a reviewed server.
SentWhereBound == Source!SentWhereBound

\* Upstream: restarts stay within the budget, and no connection is without an owner.
RestartsBounded == Source!RestartsBounded

\* Upstream: every request ends, and so does shutdown.
RequestsEnd == Source!RequestsEnd
=============================================================================
