----------------------------- MODULE MCPlanning -----------------------------
(***************************************************************************)
(* What decides where a request goes, on small instances, in one           *)
(* exploration: the conservation of its context, the route planner with    *)
(* its verifier, and the model broker.  No two of them share state, so     *)
(* beside any one the others only stutter, and what is true of it while    *)
(* they rest is true of it whatever they do.  A behaviour is one part's,   *)
(* chosen at the start; the others rest in one of their initial states.    *)
(***************************************************************************)
EXTENDS Conservation, TLC

CONSTANTS
    RouteMetrics, RouteLimit, Loss, Pool, WeightPool, Edits, MaxCandidates,
    ModelMetrics, ModelLimit, Aliases, Catalogs, ModelBudgets, AnyModel, Natives, MaxTokens

VARIABLES
    part,
    candidates, weights, decision, step,
    catalog, budget, model, input, output, mode, command, phase, chosen, result, sent

Planner == INSTANCE RouteDecisions WITH Metrics <- RouteMetrics, MaxMetric <- RouteLimit
Broker == INSTANCE ModelBroker WITH
    Metrics <- ModelMetrics, MaxMetric <- ModelLimit, Budgets <- ModelBudgets

ASSUME PlanningConstants ==
    /\ Planner!RouteBounds /\ Planner!RouteValues
    /\ Broker!RouteBounds /\ Broker!BrokerTerms /\ Broker!BrokerValues

planner == <<candidates, weights, decision, step>>
request == <<catalog, budget, model, input, output, mode, command>>
broker == <<request, phase, chosen, result, sent>>
PlanningVars == <<part, vars, planner, broker>>

ContextRests == origin = CHOOSE c \in Contexts : TRUE
PlannerRests == candidates = <<>> /\ weights = CHOOSE w \in WeightPool : TRUE
BrokerRests ==
    /\ catalog = CHOOSE c \in Catalogs : TRUE
    /\ budget = CHOOSE b \in ModelBudgets : TRUE
    /\ model = AnyModel /\ input = 0 /\ output = 0 /\ mode = "off"

PlanningInit ==
    /\ part \in {"context", "planner", "broker"}
    /\ (part # "context" => ContextRests) /\ Init
    /\ (part # "planner" => PlannerRests) /\ Planner!Init
    /\ (part # "broker" => BrokerRests) /\ Broker!Init

ContextSteps == part = "context" /\ Next /\ UNCHANGED <<part, planner, broker>>
PlannerSteps == part = "planner" /\ Planner!Next /\ UNCHANGED <<part, vars, broker>>
BrokerSteps == part = "broker" /\ Broker!Next /\ UNCHANGED <<part, vars, planner>>

PlanningSpec ==
    PlanningInit /\ [][ContextSteps \/ PlannerSteps \/ BrokerSteps]_PlanningVars

-----------------------------------------------------------------------------
(* The properties of the instances are stated, and explained, in their     *)
(* modules.                                                                *)

\* RouteDecisions: what is decided verifies, and what verifies is the best.
PlanAndProofAgree == Planner!PlanAndProofAgree

\* ModelBroker: a request reaches the best provider that it can afford.
RoutedToBest == Broker!RoutedToBest

Symmetry == Permutations(Principals)

-----------------------------------------------------------------------------
(* Values                                                                  *)

\* Three principals, one permission and delegations of at most two links, the second
\* of which follows the first unless both carry it all; for the rest, contexts come
\* in four kinds: fresh; spent and raised; bound elsewhere; or with an observation
\* that was made twice.
Links == {l \in Link : l.from # l.to}
Pairs ==
    {pair \in Links \X Links :
        pair[2].from = pair[1].to \/ pair[1].scope \cap pair[2].scope # {}}
Chains == {<<>>} \cup {<<l>> : l \in Link} \cup Pairs

Kind(allowance, class, bound, journal, observed) ==
    [budget |-> [b \in Budgets |-> allowance], class |-> class, bound |-> bound,
     journal |-> [j \in Journals |-> IF j = "causal_observations" THEN observed ELSE journal]]

MCContexts ==
    {[principal |-> p, delegation |-> d, scope |-> s,
      class |-> k.class, bound |-> k.bound, budget |-> k.budget, journal |-> k.journal] :
        p \in Principals, d \in Chains, s \in Scopes,
        k \in {Kind(1, 1, 1, <<>>, <<>>), Kind(0, 2, 1, <<1>>, <<1>>),
              Kind(1, 1, 2, <<>>, <<>>), Kind(0, 2, 1, <<1>>, <<1, 1>>)}}

RouteTerms == RouteMetrics \cup {Loss}

\* Two candidates, one metric and the loss, all of them up to a limit of 1; one
\* more than the limit, the empty id and the blank reason are there to be refused.
Allowed ==
    [id : 0..2, allowed : {TRUE}, rejections : {<<>>}, metric : [RouteMetrics -> 0..2],
     loss : 0..1]
Denied ==
    [id : 1..2, allowed : {FALSE}, rejections : {<<>>, <<0>>, <<1>>, <<2, 1, 2>>},
     metric : [RouteMetrics -> {2}], loss : {1, 2}]

MCPool == Allowed \cup Denied
MCWeights == [RouteTerms -> 0..1] \cup {[t \in RouteTerms |-> 2]}
MCEdits ==
    [id : 1..2, allowed : BOOLEAN, rejections : {<<>>, <<1>>, <<2, 1>>},
     terms : [RouteTerms -> 0..1] \cup {<<>>, [t \in RouteTerms |-> 2]}]

\* The fixture or a remote provider, beside another remote provider; requests of up
\* to two tokens on budgets that are generous but for one part of them.
Provider(name, native, prices, limits) ==
    [name |-> name, native |-> native, inputPrice |-> prices[1], outputPrice |-> prices[2],
     contextLimit |-> limits[1], maxOutput |-> limits[2]]

MCCatalogs ==
    {1 :> first @@ 2 :> Provider("remote", 5, <<1, 1>>, <<2, 2>>) :
        first \in {Provider("fixture", 4, <<0, 0>>, <<1, 1>>),
                   Provider("remote", 5, <<1, 0>>, <<2, 1>>),
                   Provider("remote", 4, <<4, 2>>, <<2, 2>>)}}

Generous ==
    [maxInput |-> 2, maxOutput |-> 2, money |-> 6, deadline |-> 1, rounds |-> 1,
     providers |-> {}, models |-> {}]

MCBudgets ==
    {Generous, [Generous EXCEPT !.maxInput = 1], [Generous EXCEPT !.maxOutput = 1],
     [Generous EXCEPT !.money = 0], [Generous EXCEPT !.money = 2],
     [Generous EXCEPT !.deadline = 0], [Generous EXCEPT !.rounds = 0],
     [Generous EXCEPT !.providers = {"fixture"}], [Generous EXCEPT !.models = {4}]}
=============================================================================
