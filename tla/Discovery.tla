------------------------------ MODULE Discovery ------------------------------
(***************************************************************************)
(* Start-up of the upstream sources: connect_configured_sources of         *)
(* outbound.rs takes them one after the other, connects, lists what each   *)
(* offers page by page, holds it against the reviewed pin and merges it    *)
(* into the Federation (federation.rs) that the gateway will serve.        *)
(*                                                                         *)
(* A manifest digest is the set of capabilities that it covers; a          *)
(* capability is a kind and a native name.                                 *)
(***************************************************************************)
EXTENDS Naturals, FiniteSets, Sequences, SequencesExt, TLC

CONSTANTS
    Sources,        \* 1..n, in the order of the configuration
    Kinds,          \* the four listings, in the order they are asked for
    Names,          \* native names
    Unsupported,    \* resource templates that simple_template_variables cannot read
    Alias(_, _, _), \* the alias of a source's kind and name
    Cursors,
    MaxPages,       \* MAX_DISCOVERY_PAGES_PER_KIND
    MaxItems,       \* MAX_DISCOVERY_ITEMS
    Unpinned

DiscoveryBounds ==
    /\ MaxPages \in Nat \ {0} /\ MaxItems \in Nat
    /\ Kinds \in Seq(ToSet(Kinds))
    /\ IsFiniteSet(Names)
    /\ Sources \subseteq Nat /\ \E last \in Sources : Sources = 1..last

Capabilities == ToSet(Kinds) \X Names

VARIABLES
    mode,           \* "strict" or "degraded"
    pins,           \* the reviewed manifest of each source, or Unpinned
    at,             \* the source that is being started
    step,           \* "connect", "list", "add", "serving", "failed"
    kind,           \* the listing that is being read
    pager,          \* its pages and cursors so far
    found,          \* the capabilities listed, a sequence
    federation,     \* (kind, alias) -> (source, name)
    active, incomplete,
    open            \* sources whose service is running

vars == <<mode, pins, at, step, kind, pager, found, federation, active, incomplete, open>>
config == <<mode, pins>>

NewPager == [pages |-> 0, seen |-> {}]

-----------------------------------------------------------------------------
(* One source after another                                                *)

Following ==
    /\ at' = at + 1
    /\ step' = IF at + 1 \in Sources THEN "connect" ELSE "serving"

\* The service is cancelled, and the source is left out; strict mode gives up.
Dropped ==
    /\ open' = open \ {at}
    /\ IF mode = "strict"
       THEN step' = "failed" /\ UNCHANGED <<at, incomplete>>
       ELSE Following /\ incomplete' = incomplete \cup {at}
    /\ UNCHANGED <<config, kind, pager, found, active>>

LeaveOut == Dropped /\ UNCHANGED federation

\* connect_source: the handshake succeeds, or fails, or times out.
Connect ==
    /\ step = "connect"
    /\ open' = open \cup {at}
    /\ step' = "list"
    /\ kind' = 1 /\ pager' = NewPager /\ found' = <<>>
    /\ UNCHANGED <<config, at, federation, active, incomplete>>

ConnectFails ==
    /\ step = "connect"
    /\ LeaveOut

-----------------------------------------------------------------------------
(* Listing                                                                 *)

\* Whether a page with this many items and this next cursor is in order.
PageInOrder(items, next) ==
    /\ pager.pages < MaxPages
    /\ Len(found) + Cardinality(items) <= MaxItems
    /\ next # {} => items # {} /\ next \cap pager.seen = {}

\* A page of the listing: next is a cursor, or none, and then the listing is over.
Page(items, next) ==
    /\ step = "list" /\ kind <= Len(Kinds)
    /\ IF PageInOrder(items, next)
       THEN /\ found' = found \o SetToSeq({<<Kinds[kind], n>> : n \in items})
            /\ kind' = IF next = {} THEN kind + 1 ELSE kind
            /\ pager' = IF next = {} THEN NewPager
                        ELSE [pages |-> pager.pages + 1, seen |-> pager.seen \cup next]
            /\ UNCHANGED <<config, at, step, federation, active, incomplete, open>>
       ELSE LeaveOut

\* A kind that the server does not announce is not asked for.
Skip ==
    /\ step = "list" /\ kind <= Len(Kinds) /\ pager = NewPager
    /\ kind' = kind + 1
    /\ UNCHANGED <<config, at, step, pager, found, federation, active, incomplete, open>>

\* The call fails, or the time for the source is over.
ListingFails ==
    /\ step = "list"
    /\ LeaveOut

-----------------------------------------------------------------------------
(* Adding                                                                  *)

Listed == ToSet(found)

\* A template that the gateway cannot expand is left out, with a warning.
Offered == Listed \ Unsupported

\* insert_*: an alias can be had once.
Collides == \E i, j \in DOMAIN found : i # j
    /\ {found[i], found[j]} \subseteq Offered
    /\ found[i][1] = found[j][1]
    /\ Alias(at, found[i][1], found[i][2]) = Alias(at, found[j][1], found[j][2])

SourceFederation ==
    [key \in {<<c[1], Alias(at, c[1], c[2])>> : c \in Offered} |->
        <<at, CHOOSE n \in Names : <<key[1], n>> \in Offered /\ Alias(at, key[1], n) = key[2]>>]

\* Mutant: merge goes kind by kind and stops at the first that collides.
MergeKindByKind(other) ==
    LET clear(k) == \A key \in DOMAIN other : key[1] = k => key \notin DOMAIN federation
        merged == {i \in DOMAIN Kinds : \A j \in 1..i : clear(Kinds[j])}
        keys == {key \in DOMAIN other : key[1] \in {Kinds[i] : i \in merged}}
    IN  [key \in keys |-> other[key]] @@ federation

\* merge: nothing of a source that collides with an earlier one.
Merge(other) ==
    IF DOMAIN other \cap DOMAIN federation = {}
    THEN [key \in DOMAIN other \cup DOMAIN federation |->
             IF key \in DOMAIN other THEN other[key] ELSE federation[key]]
    ELSE federation

\* The digest that is pinned covers all that was listed, and what was left out as well.
Accepted ==
    /\ step = "list" /\ kind > Len(Kinds)
    /\ ~Collides
    /\ pins[at] \in {Unpinned, Listed}

Clear == DOMAIN SourceFederation \cap DOMAIN federation = {}

Add ==
    /\ Accepted /\ Clear
    /\ federation' = Merge(SourceFederation)
    /\ active' = active \cup {at}
    /\ Following
    /\ UNCHANGED <<config, kind, pager, found, incomplete, open>>

AliasTaken ==
    /\ Accepted /\ ~Clear
    /\ federation' = Merge(SourceFederation)
    /\ Dropped

\* A manifest that repeats an alias, or is not the one that was reviewed.
Refuse ==
    /\ step = "list" /\ kind > Len(Kinds)
    /\ ~Accepted
    /\ LeaveOut

-----------------------------------------------------------------------------
Init ==
    /\ mode \in {"strict", "degraded"}
    /\ pins \in [Sources -> {Unpinned} \cup SUBSET Capabilities]
    /\ at = 1 /\ step = "connect"
    /\ kind = 1 /\ pager = NewPager /\ found = <<>>
    /\ federation = <<>>
    /\ active = {} /\ incomplete = {} /\ open = {}

Next ==
    \/ Connect \/ ConnectFails
    \/ \E items \in SUBSET Names, next \in {{}} \cup {{c} : c \in Cursors} : Page(items, next)
    \/ Skip \/ ListingFails
    \/ Add \/ AliasTaken \/ Refuse

Spec == Init /\ [][Next]_vars

-----------------------------------------------------------------------------
\* The gateway serves the sources it kept and nothing of one it left out; of a reviewed
\* source, all that it was reviewed for except the templates that cannot be expanded, and
\* nothing more.  In strict mode it keeps all sources.
ServedAsReviewed ==
    /\ active \cap incomplete = {}
    /\ \A key \in DOMAIN federation :
          LET owner == federation[key] IN
          owner[1] \in active /\ key[2] = Alias(owner[1], key[1], owner[2])
    /\ \A s \in active : pins[s] # Unpinned =>
          {<<key[1], federation[key][2]>> : key \in {k \in DOMAIN federation : federation[k][1] = s}}
              = pins[s] \ Unsupported
    /\ step = "serving" =>
          /\ open = active
          /\ active \cup incomplete = Sources
          /\ mode = "strict" => active = Sources
=============================================================================
