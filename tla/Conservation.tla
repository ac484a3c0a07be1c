---------------------------- MODULE Conservation ----------------------------
(***************************************************************************)
(* A request on its way across adapter boundaries: conserve of             *)
(* invariant.rs holds the context that comes out of a hop against the one  *)
(* that went in, report_translation refuses the hop if anything was not    *)
(* conserved, and debit (budget.rs) charges for it.                        *)
(*                                                                         *)
(* What has to stay equal (request, tenant, causal root and parent, side   *)
(* effect, schema, trace parent, provenance, route policy, capability) is  *)
(* one field, `bound'; the journals are sequences of digests.              *)
(***************************************************************************)
EXTENDS Integers, Sequences, SequencesExt, Functions

CONSTANTS
    Principals,
    Permissions,
    Budgets,        \* money, tokens, retries and the deadline
    Journals,       \* observations, decisions, retry attempts and debits
    Digests,
    Classes,        \* data classifications, rising numbers
    Bounds,         \* what a context is bound to
    Looped,         \* those of them whose causal parent is the causal root
    Contexts,       \* the contexts that come in, and that adapters turn them into
    MaxCost,        \* bound: of what a debit takes from one budget
    MaxEntries      \* bound: of the entries that debits make in a journal

Scopes == SUBSET Permissions
Link == [from : Principals, to : Principals, scope : Scopes]

IsContext(c) ==
    /\ c = [principal |-> c.principal, delegation |-> c.delegation, scope |-> c.scope,
            class |-> c.class, bound |-> c.bound, budget |-> c.budget, journal |-> c.journal]
    /\ c.principal \in Principals /\ c.delegation \in Seq(Link) /\ c.scope \in Scopes
    /\ c.class \in Classes /\ c.bound \in Bounds
    /\ c.budget \in [Budgets -> Nat] /\ c.journal \in [Journals -> Seq(Digests)]

ASSUME ConservationConstants ==
    /\ Classes \subseteq Nat /\ MaxCost \in Nat
    /\ "retries" \in Budgets /\ "causal_observations" \in Journals
    /\ \A c \in Contexts : IsContext(c)

VARIABLES
    origin,     \* the context that the request entered with
    context     \* the context that it has now

vars == <<origin, context>>

-----------------------------------------------------------------------------
(* conserve                                                                *)

Extension(source, target) ==
    SubSeq(target.delegation, Len(source.delegation) + 1, Len(target.delegation))

\* Everyone who is named by the links, or holds the context.
Seen(source) ==
    {source.principal} \cup UNION {{source.delegation[i].from, source.delegation[i].to} :
                                      i \in DOMAIN source.delegation}

\* Who passes link i of an extension on, and with which scope.
Holder(source, extension, i) == IF i = 1 THEN source.principal ELSE extension[i - 1].to
Held(source, extension, i) == IF i = 1 THEN source.scope ELSE extension[i - 1].scope

\* Mutant: nobody keeps track of who had the request before.
ValidExtensionUnseen(source, target) ==
    LET extension == Extension(source, target) IN
    /\ IsPrefix(source.delegation, target.delegation)
    /\ extension # <<>>
    /\ \A i \in DOMAIN extension :
          /\ extension[i].from = Holder(source, extension, i)
          /\ extension[i].scope \subseteq Held(source, extension, i)
    /\ Last(extension).to = target.principal
    /\ target.scope \subseteq Last(extension).scope

\* valid_delegation_extension
ValidExtension(source, target) ==
    LET extension == Extension(source, target) IN
    /\ IsPrefix(source.delegation, target.delegation)
    /\ extension # <<>>
    /\ \A i \in DOMAIN extension :
          /\ extension[i].from = Holder(source, extension, i)
          /\ extension[i].scope \subseteq Held(source, extension, i)
          /\ extension[i].to \notin Seen(source)
          /\ \A j \in 1..(i - 1) : extension[i].to # extension[j].to
    /\ Last(extension).to = target.principal
    /\ target.scope \subseteq Last(extension).scope

\* What the request is bound to stays what it is.
BoundAlike(source, target) == target.bound = source.bound

\* Links are only added in a valid extension, and no journal loses an entry.
AppendOnly(source, target) ==
    /\ IsPrefix(source.delegation, target.delegation)
    /\ Len(target.delegation) > Len(source.delegation) => ValidExtension(source, target)
    /\ \A j \in Journals : IsPrefix(source.journal[j], target.journal[j])

\* Nothing was observed twice, and the causal parent is not the root.
Acyclic(target) ==
    /\ IsInjective(target.journal["causal_observations"])
    /\ target.bound \notin Looped

Monotone(source, target) ==
    /\ target.scope \subseteq source.scope
    /\ \A b \in Budgets : target.budget[b] <= source.budget[b]
    /\ target.class >= source.class

Conserves(source, target) ==
    /\ target.principal = source.principal \/ ValidExtension(source, target)
    /\ BoundAlike(source, target)
    /\ AppendOnly(source, target)
    /\ Acyclic(target)
    /\ Monotone(source, target)

-----------------------------------------------------------------------------
(* Hops                                                                    *)

\* What a debit writes: itself, and an attempt for every retry that it pays for.
Entries(j, cost, digest) ==
    CASE j = "budget_debits"    -> <<digest>>
      [] j = "retry_attempts"   -> [i \in 1..cost["retries"] |-> digest]
      [] OTHER                  -> <<>>

\* Mutant: what a budget cannot pay it owes.
DebitOwed(cost, digest) ==
    /\ \A j \in Journals : Len(context.journal[j]) < MaxEntries
    /\ context' = [context EXCEPT
            !.budget = [b \in Budgets |-> IF cost[b] > @[b] THEN cost[b] - @[b] ELSE @[b] - cost[b]],
            !.journal = [j \in Journals |-> @[j] \o Entries(j, cost, digest)]]
    /\ UNCHANGED origin

\* debit: every budget can pay, or none does.
Debit(cost, digest) ==
    /\ \A j \in Journals : Len(context.journal[j]) < MaxEntries
    /\ \A b \in Budgets : cost[b] <= context.budget[b]
    /\ context' = [context EXCEPT
            !.budget = [b \in Budgets |-> @[b] - cost[b]],
            !.journal = [j \in Journals |-> @[j] \o Entries(j, cost, digest)]]
    /\ UNCHANGED origin

\* report_translation: an adapter turns the context into another one.
Translate(target) ==
    /\ Conserves(context, target)
    /\ context' = target
    /\ UNCHANGED origin

Init ==
    /\ origin \in Contexts
    /\ context = origin

Next ==
    \/ \E cost \in [Budgets -> 0..MaxCost], digest \in Digests : Debit(cost, digest)
    \/ \E target \in Contexts : Translate(target)

Spec == Init /\ [][Next]_vars

-----------------------------------------------------------------------------
\* Over any number of hops nothing is gained: no permission, budget or lower class, no
\* other binding; no entry of a journal is lost, and nothing is observed a second time.
NothingGained ==
    /\ context.scope \subseteq origin.scope
    /\ \A b \in Budgets : context.budget[b] <= origin.budget[b]
    /\ context.class >= origin.class
    /\ context.bound = origin.bound
    /\ \A j \in Journals : IsPrefix(origin.journal[j], context.journal[j])
    /\ IsInjective(origin.journal["causal_observations"]) =>
          IsInjective(context.journal["causal_observations"])

Added == Extension(origin, context)

\* The principal that acts now was delegated to by the one that the request came with,
\* link by link, with ever less scope, and through nobody twice.
Delegated ==
    /\ IsPrefix(origin.delegation, context.delegation)
    /\ Added = <<>> => context.principal = origin.principal
    /\ Added # <<>> => context.principal = Last(Added).to /\ context.scope \subseteq Last(Added).scope
    /\ \A i \in DOMAIN Added :
          /\ Added[i].from = Holder(origin, Added, i)
          /\ Added[i].scope \subseteq Held(origin, Added, i)
          /\ Added[i].to \notin Seen(origin)
          /\ \A j \in 1..(i - 1) : Added[i].to # Added[j].to
=============================================================================
