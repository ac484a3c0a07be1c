------------------------------ MODULE KeyCache ------------------------------
(***************************************************************************)
(* Bearer authentication of a remote deployment (auth.rs).  The provider's *)
(* signing keys are cached for Ttl; requests share the cache, and one      *)
(* mutex (`refresh`) lets a single request at a time fetch a new set.  A   *)
(* request whose token names a key the set does not hold forces one fetch  *)
(* and verifies once more.  The provider rotates its keys at any time.     *)
(*                                                                         *)
(* A signature is the key id it was made with: a token is a key id and an  *)
(* expiry.  The fixed issuer, audience, resource and scope comparisons,    *)
(* which read no shared state, are left out.                               *)
(***************************************************************************)
EXTENDS Integers, FiniteSets

CONSTANTS
    Keys,            \* key ids the provider may publish
    Requests,        \* concurrent requests
    None,            \* no request holds the mutex
    FirstKeys,       \* what the provider publishes when the process starts
    Ttl,             \* jwks_cache_ttl_seconds
    Expiries,        \* the expiry times tokens carry
    Skew,            \* clock_skew_seconds
    FetchTimeout,    \* the fetching client's total timeout
    MaxTime,         \* bound of the model: the clock stops here
    MaxRotations     \* bound of the model: changes of the published set

KeyCacheConstants ==
    /\ FirstKeys \subseteq Keys /\ FirstKeys # {}
    /\ None \notin Requests
    /\ Expiries \subseteq Nat /\ Expiries # {}
    /\ {Ttl, Skew, FetchTimeout, MaxTime, MaxRotations} \subseteq Nat

VARIABLES
    now,          \* the process's clock
    published,    \* the keys the provider serves
    left,         \* history: when each key was last published
    rotations,    \* counts the provider's changes
    cached,       \* CachedKeys: the set and the instant it expires
    refresh,      \* the request that holds the mutex, or None
    req           \* each request's progress

vars == <<now, published, left, rotations, cached, refresh, req>>

Tokens == [key : Keys, exp : Expiries]

Idle ==
    [pc |-> "idle", token |-> CHOOSE token \in Tokens : TRUE,
     at |-> 0, forced |-> FALSE, since |-> 0, answer |-> {},
     throughout |-> FALSE, failed |-> FALSE]

Requesting == [pc : {"idle", "keys", "lock", "fetch", "answered", "accepted",
                     "refused"},
               token : Tokens, at : Nat, forced : BOOLEAN,
               since : Nat, answer : SUBSET Keys,
               throughout : BOOLEAN, failed : BOOLEAN]

-----------------------------------------------------------------------------

(* validate_claims, the one comparison that depends on time *)
Unexpired(token, at) == at <= token.exp + Skew

FreshLate == cached.expires_at + Ttl > now

(* keys(): a set is served from the cache until it expires *)
Fresh == cached.expires_at > now

Init ==
    /\ now = 0
    /\ published = FirstKeys
    /\ left = [k \in Keys |-> 0]
    /\ rotations = 0
    /\ cached = [set |-> FirstKeys, expires_at |-> Ttl]
    /\ refresh = None
    /\ req = [r \in Requests |-> Idle]

(* A second passes.  The client abandons a fetch at its timeout, so none   *)
(* outlives it.                                                            *)
Tick ==
    /\ now < MaxTime
    /\ \A r \in Requests :
         req[r].pc \in {"fetch", "answered"} => now < req[r].since + FetchTimeout
    /\ now' = now + 1
    /\ left' = [k \in Keys |-> IF k \in published THEN now + 1 ELSE left[k]]
    /\ UNCHANGED <<published, rotations, cached, refresh, req>>

(* The provider replaces the set it publishes (external).                  *)
Rotate ==
    /\ rotations < MaxRotations
    /\ \E set \in (SUBSET Keys) \ {published} :
         /\ published' = set
         /\ left' = [k \in Keys |-> IF k \in set THEN now ELSE left[k]]
         /\ req' = [r \in Requests |->
                      [req[r] EXCEPT !.throughout = @ /\ req[r].token.key \in set]]
    /\ rotations' = rotations + 1
    /\ UNCHANGED <<now, cached, refresh>>

(* authenticate(): the clock is read once, before the keys are.            *)
Arrive(r) ==
    /\ req[r].pc = "idle"
    /\ \E token \in Tokens :
         req' = [req EXCEPT ![r] = [Idle EXCEPT
                   !.pc = "keys", !.token = token, !.at = now,
                   !.throughout = token.key \in published]]
    /\ UNCHANGED <<now, published, left, rotations, cached, refresh>>

(* verify_oidc_token with the keys at hand: an unknown key id sends a      *)
(* request that has not yet forced a fetch round again, every other fault  *)
(* ends it.                                                                *)
Verified(q, set) ==
    IF q.token.key \notin set
    THEN IF q.forced THEN [q EXCEPT !.pc = "refused"]
                     ELSE [q EXCEPT !.pc = "lock", !.forced = TRUE]
    ELSE IF Unexpired(q.token, q.at) THEN [q EXCEPT !.pc = "accepted"]
                                     ELSE [q EXCEPT !.pc = "refused"]

(* keys(false): the cache, or the queue for the mutex.                     *)
Look(r) ==
    /\ req[r].pc = "keys"
    /\ req' = [req EXCEPT ![r] = IF Fresh THEN Verified(@, cached.set)
                                          ELSE [@ EXCEPT !.pc = "lock"]]
    /\ UNCHANGED <<now, published, left, rotations, cached, refresh>>

LockServesAll(r) ==
    /\ req[r].pc = "lock"
    /\ refresh = None
    /\ IF Fresh
       THEN /\ req' = [req EXCEPT ![r] = Verified(@, cached.set)]
            /\ UNCHANGED refresh
       ELSE /\ req' = [req EXCEPT ![r].pc = "fetch", ![r].since = now]
            /\ refresh' = r
    /\ UNCHANGED <<now, published, left, rotations, cached>>

(* The mutex is held; another request may have refreshed the cache while   *)
(* this one waited, which serves it unless it forces its own fetch.        *)
Lock(r) ==
    /\ req[r].pc = "lock"
    /\ refresh = None
    /\ IF ~req[r].forced /\ Fresh
       THEN /\ req' = [req EXCEPT ![r] = Verified(@, cached.set)]
            /\ UNCHANGED refresh
       ELSE /\ req' = [req EXCEPT ![r].pc = "fetch", ![r].since = now]
            /\ refresh' = r
    /\ UNCHANGED <<now, published, left, rotations, cached>>

(* The provider answers with what it publishes (external).                 *)
Answer(r) ==
    /\ req[r].pc = "fetch"
    /\ req' = [req EXCEPT ![r].pc = "answered", ![r].answer = published]
    /\ UNCHANGED <<now, published, left, rotations, cached, refresh>>

(* fetch_jwks: an empty set is refused like any other fault of the answer. *)
Valid(set) == set # {}

(* The answer arrives: it replaces the cache, is good for Ttl from now,    *)
(* and the mutex is released before the token is verified with it.         *)
Receive(r) ==
    /\ req[r].pc = "answered"
    /\ Valid(req[r].answer)
    /\ cached' = [set |-> req[r].answer, expires_at |-> now + Ttl]
    /\ refresh' = None
    /\ req' = [req EXCEPT ![r] =
                 Verified([@ EXCEPT !.since = 0, !.answer = {}], req[r].answer)]
    /\ UNCHANGED <<now, published, left, rotations>>

FetchFailsKeeping(r) ==
    /\ \/ req[r].pc = "fetch"
       \/ req[r].pc = "answered" /\ ~Valid(req[r].answer)
    /\ refresh' = None
    /\ cached' = [cached EXCEPT !.expires_at = now + Ttl]
    /\ req' = [req EXCEPT ![r] = Verified([@ EXCEPT !.failed = TRUE], cached.set)]
    /\ UNCHANGED <<now, published, left, rotations>>

(* The fetch fails, times out or answers with a set that is not valid: the *)
(* cache is left as it was and this request is refused.                    *)
FetchFails(r) ==
    /\ \/ req[r].pc = "fetch"
       \/ req[r].pc = "answered" /\ ~Valid(req[r].answer)
    /\ refresh' = None
    /\ req' = [req EXCEPT ![r].pc = "refused", ![r].failed = TRUE]
    /\ UNCHANGED <<now, published, left, rotations, cached>>

(* The response has been sent; the connection may carry another request.   *)
Respond(r) ==
    /\ req[r].pc \in {"accepted", "refused"}
    /\ req' = [req EXCEPT ![r] = Idle]
    /\ UNCHANGED <<now, published, left, rotations, cached, refresh>>

Next ==
    \/ Tick
    \/ Rotate
    \/ \E r \in Requests :
         \/ Arrive(r) \/ Look(r) \/ Lock(r) \/ Answer(r)
         \/ Receive(r) \/ FetchFails(r) \/ Respond(r)

Spec == Init /\ [][Next]_vars

-----------------------------------------------------------------------------

(* A key the provider has withdrawn stops being honoured: a step that      *)
(* accepts a token finds its key still published, or published no longer   *)
(* ago than one fetch and one cache lifetime, whatever the order in which  *)
(* requests refreshed the cache and however their fetches failed.          *)
KeysTimely ==
    [][\A r \in Requests :
         req[r].pc # "accepted" /\ req'[r].pc = "accepted" =>
           now <= left[req[r].token.key] + Ttl + FetchTimeout]_vars

(* A rotation locks nobody out: a token that was unexpired when its        *)
(* request arrived, and whose key was published for as long as the request *)
(* ran, is refused only when a fetch of that very request failed.          *)
PublishedAdmitted ==
    \A r \in Requests :
      /\ req[r].pc = "refused" /\ req[r].throughout
      /\ Unexpired(req[r].token, req[r].at)
      => req[r].failed

=============================================================================
