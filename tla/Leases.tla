------------------------------- MODULE Leases -------------------------------
(***************************************************************************)
(* Capability leases (lease.rs, the lease tables of storage.rs, and the    *)
(* meta-tools lease, invoke, submit and release of mcp.rs): authority that *)
(* is issued once, stored, and checked at every call against a caller, a   *)
(* catalog and a clock that have all moved on since.                       *)
(*                                                                         *)
(* A capability identity is an alias with the schema it has now; the other *)
(* parts of an identity change with it.  A digest is kept by whether it    *)
(* still matches.                                                          *)
(***************************************************************************)
EXTENDS Integers, FiniteSets

CONSTANTS
    Callers,        \* authenticated principals, each within its tenant
    Aliases, Schemas,
    Effects,        \* side-effect classes, ReadOnly among them
    ReadOnly,
    Strongest,      \* non_idempotent_write, which a durable submission needs
    Ids,            \* lease IDs, each issued at most once
    Durable,        \* whether leases are kept in SQLite
    Ttl, MaxTime,   \* lifetime of a lease, and the bound of the clock
    Nothing

Capabilities == [alias : Aliases, schema : Schemas]

\* CapabilityLease
Lease == [owner : Callers, capabilities : SUBSET Capabilities, effects : SUBSET Effects,
          expires : Nat, intact : BOOLEAN]

ASSUME LeaseBounds ==
    /\ {ReadOnly, Strongest} \subseteq Effects
    /\ Durable \in BOOLEAN
    /\ {Ttl, MaxTime} \subseteq Nat
    /\ Nothing \notin Lease

VARIABLES
    catalog,    \* [schema, effect] of every alias that is configured
    scopes,     \* the effects that each caller's current token grants
    store,      \* the lease table: a record or Nothing
    issued,     \* what was issued under each ID, as it was issued
    released,   \* the IDs whose release was acknowledged
    calls,      \* calls[c]: the call a caller has under way
    invoked,    \* the calls that were let through, as they were
    now

vars == <<catalog, scopes, store, issued, released, calls, invoked, now>>

Identity(a) == [alias |-> a, schema |-> catalog[a].schema]

NoCall == [pc |-> "idle"]

-----------------------------------------------------------------------------
(* Authority                                                               *)

\* identity_authorizes_effect: a token always grants reading.
Grants(c, effect) == effect = ReadOnly \/ effect \in scopes[c]

\* authorize and authorize_invocation, on the record that was read.
LeaseAllows(lease, c, capability, effect) ==
    /\ now < lease.expires
    /\ lease.owner = c
    /\ lease.intact
    /\ capability \in lease.capabilities
    /\ effect \in lease.effects

\* Mutant: the lease's effects stand for the token's.
AuthorizedByLeaseAlone(lease, c, capability, effect) ==
    LeaseAllows(lease, c, capability, effect)

\* authorize_current_invocation: a lease does not keep what a newer token omits.
Authorized(lease, c, capability, effect) ==
    /\ LeaseAllows(lease, c, capability, effect)
    /\ Grants(c, effect)

-----------------------------------------------------------------------------
(* The meta-tools                                                          *)

\* gaugemesh_lease: the effects are the token's, and cover those of every tool.
Issue(c, id, aliases, effects) ==
    /\ issued[id] = Nothing
    /\ aliases # {} /\ \A e \in effects : Grants(c, e)
    /\ \A a \in aliases : catalog[a].effect \in effects
    /\ LET lease == [owner |-> c, capabilities |-> {Identity(a) : a \in aliases},
                     effects |-> effects, expires |-> now + Ttl, intact |-> TRUE]
       IN  /\ store' = [store EXCEPT ![id] = lease]
           /\ issued' = [issued EXCEPT ![id] = lease]
    /\ UNCHANGED <<catalog, scopes, released, calls, invoked, now>>

\* gaugemesh_invoke and gaugemesh_submit begin by reading the lease.
ReadLease(c, id, a, kind) ==
    /\ calls[c] = NoCall
    /\ store[id] # Nothing
    /\ calls' = [calls EXCEPT ![c] =
                    [pc |-> "read", id |-> id, lease |-> store[id], alias |-> a, kind |-> kind,
                     late |-> id \in released]]
    /\ UNCHANGED <<catalog, scopes, store, issued, released, invoked, now>>

\* The call as it is authorized: a submission is a non-idempotent write whatever the tool
\* says of itself.
EffectOf(c) ==
    IF calls[c].kind = "submit" THEN Strongest ELSE catalog[calls[c].alias].effect

Decide(c) ==
    LET call == calls[c]
        effect == EffectOf(c)
    IN  /\ call.pc = "read"
        /\ calls' = [calls EXCEPT ![c] = NoCall]
        /\ IF Authorized(call.lease, c, Identity(call.alias), effect)
           THEN invoked' = invoked \cup
                    {[caller |-> c, id |-> call.id, capability |-> Identity(call.alias),
                      effect |-> effect, granted |-> Grants(c, effect), at |-> now,
                      late |-> call.late]}
           ELSE UNCHANGED invoked
        /\ UNCHANGED <<catalog, scopes, store, issued, released, now>>

\* gaugemesh_release, by the owner only.
Release(c, id) ==
    /\ store[id] # Nothing /\ store[id].owner = c
    /\ store' = [store EXCEPT ![id] = Nothing]
    /\ released' = released \cup {id}
    /\ UNCHANGED <<catalog, scopes, issued, calls, invoked, now>>

-----------------------------------------------------------------------------
(* The world                                                               *)

\* The gateway stops and starts with what its sources offer now; calls are lost.
Restart ==
    /\ catalog' \in [Aliases -> [schema : Schemas, effect : Effects]]
    /\ catalog' # catalog
    /\ store' = IF Durable THEN store ELSE [id \in Ids |-> Nothing]
    /\ calls' = [c \in Callers |-> NoCall]
    /\ UNCHANGED <<scopes, issued, released, invoked, now>>

\* A caller comes back with another token.  The call under way keeps the old one, so it
\* is decided first.
NewToken(c) ==
    /\ calls[c] = NoCall
    /\ scopes' \in [Callers -> SUBSET (Effects \ {ReadOnly})]
    /\ \A other \in Callers \ {c} : scopes'[other] = scopes[other]
    /\ scopes' # scopes
    /\ UNCHANGED <<catalog, store, issued, released, calls, invoked, now>>

\* A stored document is altered, and its manifest digest no longer matches.
Alter(id) ==
    /\ store[id] # Nothing
    /\ \E effects \in SUBSET Effects :
          store' = [store EXCEPT ![id].effects = effects, ![id].expires = MaxTime + 1,
                                 ![id].intact = FALSE]
    /\ UNCHANGED <<catalog, scopes, issued, released, calls, invoked, now>>

Tick ==
    /\ now < MaxTime
    /\ now' = now + 1
    /\ UNCHANGED <<catalog, scopes, store, issued, released, calls, invoked>>

-----------------------------------------------------------------------------
Init ==
    /\ catalog \in [Aliases -> [schema : Schemas, effect : Effects]]
    /\ scopes \in [Callers -> SUBSET (Effects \ {ReadOnly})]
    /\ store = [id \in Ids |-> Nothing]
    /\ issued = [id \in Ids |-> Nothing]
    /\ released = {}
    /\ calls = [c \in Callers |-> NoCall]
    /\ invoked = {}
    /\ now = 0

Next ==
    \/ \E c \in Callers, id \in Ids :
          \/ \E aliases \in SUBSET Aliases, effects \in SUBSET Effects :
                Issue(c, id, aliases, effects)
          \/ \E a \in Aliases, kind \in {"invoke", "submit"} : ReadLease(c, id, a, kind)
          \/ Release(c, id)
    \/ \E c \in Callers : Decide(c) \/ NewToken(c)
    \/ \E id \in Ids : Alter(id)
    \/ Restart \/ Tick

Spec == Init /\ [][Next]_vars

-----------------------------------------------------------------------------
\* A call is let through only on a lease that was issued, to this caller, for the tool as
\* it is now (not as it was when the lease was issued), with this effect, and before its
\* expiry; the caller's own token grants the effect too; and the call read the lease
\* before its release was acknowledged.
WithinAuthority ==
    \A i \in invoked :
        LET lease == issued[i.id] IN
        /\ lease # Nothing
        /\ lease.owner = i.caller
        /\ i.capability \in lease.capabilities
        /\ i.effect \in lease.effects
        /\ i.at < lease.expires
        /\ i.granted /\ ~i.late
=============================================================================
