------------------------------ MODULE MCAccess ------------------------------
(***************************************************************************)
(* What stands between a client and a tool, on small instances, in one     *)
(* exploration: leases, approvals, the cache of the identity provider's    *)
(* keys, sealed cursors, the edits of the configuration, and the discovery *)
(* of the sources at the start.  No two of them share state, so beside any *)
(* one the others only stutter, and what is true of it while they rest is  *)
(* true of it whatever they do.  A behaviour is one part's, chosen at the  *)
(* start; the others rest in one of their initial states.                  *)
(***************************************************************************)
EXTENDS Leases, TLC

CONSTANTS
    Nobody,
    Elicitations, Connections, MaxUnread,
    Keys, Bearers, FirstKeys, CacheTtl, Expiries, Skew, FetchTimeout, KeyTime, MaxRotations,
    Lists, Catalogues, TaskTools, PageSize, Rounds, MaxEpochs, MaxIssued,
    EntryIds, Processes, Missing, Ops, Authored, MaxRoutes, MaxCommands,
    Sources, Listings, Names, Unsupported, Alias(_, _, _), Cursors, MaxPages, MaxItems, Unpinned

VARIABLES
    part,
    home, policy, form, state, cliLock, readers, reader, screen, lines, typed, unasked, inTime,
    source,
    keyNow, published, left, rotations, cached, refresh, req,
    epoch, catalogue, tokens, begun, outcome,
    file, proc, started, ledger, writes, overlap,
    mode, pins, at, step, kind, pager, found, federation, active, incomplete, open

Approval == INSTANCE Approvals WITH Requests <- Elicitations
KeySet == INSTANCE KeyCache WITH
    Requests <- Bearers, Ttl <- CacheTtl, MaxTime <- KeyTime, None <- Nobody, now <- keyNow
Cursor == INSTANCE Cursors WITH Kinds <- Lists, issued <- tokens
Config == INSTANCE Registry WITH Ids <- EntryIds
Discover == INSTANCE Discovery WITH Kinds <- Listings

ASSUME AccessConstants ==
    /\ Approval!ApprovalConstants
    /\ KeySet!KeyCacheConstants
    /\ Cursor!CursorsConstants
    /\ Config!RegistryConstants
    /\ Discover!DiscoveryBounds

approval == <<home, policy, form, state, cliLock, readers, reader, screen, lines, typed,
              unasked, inTime, source>>
keys == <<keyNow, published, left, rotations, cached, refresh, req>>
cursor == <<epoch, catalogue, tokens, begun, outcome>>
config == <<file, proc, started, ledger, writes, overlap>>
discovery == <<mode, pins, at, step, kind, pager, found, federation, active, incomplete, open>>

AccessVars == <<part, vars, approval, keys, cursor, config, discovery>>

\* Where the parts that have several initial states rest.
LeasesRest ==
    /\ catalog = CHOOSE c \in [Aliases -> [schema : Schemas, effect : {ReadOnly}]] : TRUE
    /\ scopes = [c \in Callers |-> {}]
ApprovalRests ==
    /\ home = CHOOSE h \in [Elicitations -> Connections] : TRUE
    /\ policy = [c \in Connections |-> "deny"]
    /\ form = {}
CursorRests == catalogue = CHOOSE c \in Catalogues : TRUE
ConfigRests == file = Missing
DiscoveryRests == mode = "strict" /\ pins = [s \in Sources |-> Unpinned]

AccessInit ==
    /\ part \in {"leases", "approval", "keys", "cursor", "config", "discovery"}
    /\ (part # "leases" => LeasesRest) /\ Init
    /\ (part # "approval" => ApprovalRests) /\ Approval!Init
    /\ KeySet!Init
    /\ (part # "cursor" => CursorRests) /\ Cursor!Init
    /\ (part # "config" => ConfigRests) /\ Config!Init
    /\ (part # "discovery" => DiscoveryRests) /\ Discover!Init

LeaseSteps ==
    /\ part = "leases" /\ Next
    /\ UNCHANGED <<part, approval, keys, cursor, config, discovery>>

ApprovalSteps ==
    /\ part = "approval" /\ Approval!Next
    /\ UNCHANGED <<part, vars, keys, cursor, config, discovery>>

KeySteps ==
    /\ part = "keys" /\ KeySet!Next
    /\ UNCHANGED <<part, vars, approval, cursor, config, discovery>>

CursorSteps ==
    /\ part = "cursor" /\ Cursor!Next
    /\ UNCHANGED <<part, vars, approval, keys, config, discovery>>

ConfigSteps ==
    /\ part = "config" /\ Config!Next
    /\ UNCHANGED <<part, vars, approval, keys, cursor, discovery>>

DiscoverySteps ==
    /\ part = "discovery" /\ Discover!Next
    /\ UNCHANGED <<part, vars, approval, keys, cursor, config>>

AccessSpec ==
    AccessInit /\ [][\/ LeaseSteps \/ ApprovalSteps \/ KeySteps
                     \/ CursorSteps \/ ConfigSteps \/ DiscoverySteps]_AccessVars

-----------------------------------------------------------------------------
(* The properties of the instances are stated, and explained, in their     *)
(* modules.                                                                *)

\* Approvals: accepted only on an answer that fits and was typed at its prompt.
AcceptedAsAnswered == Approval!AcceptedAsAnswered

\* KeyCache: a withdrawn key is honoured no longer than a fetch and a lifetime.
KeysTimely == KeySet!KeysTimely

\* KeyCache: a rotation of keys locks nobody out.
PublishedAdmitted == KeySet!PublishedAdmitted

\* Cursors: a token continues the list or the conversation that it was issued for.
TokensKept == Cursor!TokensKept

\* Registry: the file registers what the commands that succeeded said.
EditsKept == Config!EditsKept

\* Discovery: the gateway serves the sources it kept, as they were reviewed.
ServedAsReviewed == Discover!ServedAsReviewed

Symmetry == Permutations(Callers)

-----------------------------------------------------------------------------
(* Values                                                                  *)

CONSTANTS a, b, submit, note, hint

\* Two federations that offer tools in another order and of another number;
\* `submit' is only shown to clients that support tasks.
MCLists == {"tools", "prompts"}
MCCatalogues ==
    { [tools |-> <<a, submit, b>>, prompts |-> <<note, hint>>],
      [tools |-> <<b, submit>>, prompts |-> <<hint, note>>] }
MCRounds == [state |-> <<"state">>, multi |-> <<"multi-1", "multi-2">>]

\* The file may be missing, hold a source, or be a remote configuration, with a
\* source that may be shared or one that makes it invalid.
Source(shared) ==
    [id |-> a, kind |-> "mcp", shared |-> shared, loopback |-> FALSE, reviewed |-> TRUE]
MCAuthored ==
    { [remote |-> FALSE, deny |-> TRUE, entries |-> {Source(FALSE)}],
      [remote |-> TRUE, deny |-> TRUE, entries |-> {Source(TRUE)}],
      [remote |-> TRUE, deny |-> TRUE, entries |-> {Source(FALSE)}] }

\* Two of the four listings.  The aliases of two prompts of one source can be the same,
\* and so can those of prompts of both sources; a template cannot be expanded.
MCListings == <<"template", "prompt">>
MCUnsupported == {<<"template", "y">>}
MCAlias(from, listing, name) ==
    IF listing = "prompt" /\ (from = 1 \/ name = "x") THEN <<0, "x">> ELSE <<from, name>>
=============================================================================
